------------------------------- MODULE Osal -------------------------------
(***************************************************************************)
(* The OSAL kernel: the message queue, the event flags and the run loop of *)
(* Components/osal/common/OSAL.c.                                          *)
(*                                                                         *)
(* One thread of control (the run loop and the task handlers it calls) is  *)
(* interrupted between critical sections: everything the code does inside  *)
(* one HAL_ENTER/EXIT_CRITICAL_SECTION pair is one step here, and so is a  *)
(* whole interrupt routine.  The queue that C links through header.next is *)
(* the sequence osal_qHead; header.dest_id is destId.                      *)
(***************************************************************************)
EXTENDS Naturals, Sequences, FiniteSets, Subsequence

CONSTANTS
  TasksCnt,     \* number of entries of tasksArr
  Bufs,         \* message buffers the heap can hold at the same time
  Flags,        \* event flags of a task other than SYS_EVENT_MSG
  SysEventMsg,  \* SYS_EVENT_MSG
  NoBuf,        \* the NULL message pointer
  MaxCalls      \* bound: kernel calls one handler or one poll pass makes

TaskNoTask == TasksCnt     \* TASK_NO_TASK, an id no task has (0xFF)

ASSUME TasksCntAssumption == TasksCnt \in Nat \ {0}
ASSUME NoBufAssumption == NoBuf \notin Bufs
ASSUME SysEventAssumption == SysEventMsg \notin Flags
ASSUME MaxCallsAssumption == MaxCalls \in Nat

Tasks == 0 .. TasksCnt - 1
AllEvents == Flags \cup {SysEventMsg}

VARIABLES
  osal_qHead,   \* the one queue all messages to tasks wait in
  destId,       \* header.dest_id of every buffer
  heap,         \* the buffers allocated now
  tasksEvents,  \* tasksEvents[t]: the event flags set for task t
  pc,           \* where the run loop (or the handler it called) is
  idx,          \* osal_run_system: the task looked at or running
  events,       \* osal_run_system: the events passed to the handler
  msgPtr,       \* the message the handler received, or NoBuf
  outBuf,       \* the buffer the handler allocated and has not sent yet
  notify,       \* osal_msg_send: the task whose flag is still to be set
  caller,       \* where osal_msg_send returns to
  calls         \* kernel calls made so far in this handler or poll pass

queueVars == <<osal_qHead, destId, heap>>
loopVars  == <<pc, idx, events>>
bufVars   == <<msgPtr, outBuf>>
sendVars  == <<notify, caller>>
vars == <<queueVars, tasksEvents, loopVars, bufVars, sendVars, calls>>

-----------------------------------------------------------------------------
(* The queue *)

Queued == {osal_qHead[i] : i \in 1 .. Len(osal_qHead)}
Held == {msgPtr, outBuf} \ {NoBuf}

\* Positions of the queue that hold a message for task t.
MailOf(t) == {i \in 1 .. Len(osal_qHead) : destId[osal_qHead[i]] = t}

\* osal_msg_extract: the queue without its i-th element.
Extract(q, i) == [j \in 1 .. Len(q) - 1 |-> IF j < i THEN q[j] ELSE q[j + 1]]

\* Mutant: the message is put in front, as osal_msg_push does.
EnqueueInFront(b, t) ==
  /\ osal_qHead' = <<b>> \o osal_qHead
  /\ destId' = [destId EXCEPT ![b] = t]

\* osal_msg_enqueue, and the header osal_msg_send wrote before it.
Enqueue(b, t) ==
  /\ osal_qHead' = Append(osal_qHead, b)
  /\ destId' = [destId EXCEPT ![b] = t]

\* osal_set_event and osal_clear_event on a task that exists.
SetEvent(t, e) == tasksEvents' = [tasksEvents EXCEPT ![t] = @ \cup {e}]
ClearEvent(t, e) == tasksEvents' = [tasksEvents EXCEPT ![t] = @ \ {e}]

-----------------------------------------------------------------------------
\* osal_init_system; each task's init function may set events.
Init ==
  /\ osal_qHead = << >>
  /\ destId = [b \in Bufs |-> TaskNoTask]
  /\ heap = {}
  /\ tasksEvents \in [Tasks -> SUBSET Flags]
  /\ pc = "poll"
  /\ idx = 0
  /\ events = {}
  /\ msgPtr = NoBuf
  /\ outBuf = NoBuf
  /\ notify = TaskNoTask
  /\ caller = "poll"
  /\ calls = 0

-----------------------------------------------------------------------------
(* osal_run_system *)

\* osalTimeUpdate, Hal_ProcessPoll and gizwitsHandle have returned.
PollDone ==
  /\ pc = "poll"
  /\ outBuf = NoBuf
  /\ pc' = "scan"
  /\ idx' = 0
  /\ UNCHANGED <<queueVars, tasksEvents, events, bufVars, sendVars, calls>>

\* One test of the do-while: read without holding off interrupts.
Scan ==
  /\ pc = "scan"
  /\ IF tasksEvents[idx] # {}
       THEN pc' = "fetch" /\ UNCHANGED <<idx, calls>>
       ELSE IF idx + 1 < TasksCnt
              THEN idx' = idx + 1 /\ UNCHANGED <<pc, calls>>
              ELSE pc' = "poll" /\ idx' = 0 /\ calls' = 0
  /\ UNCHANGED <<queueVars, tasksEvents, events, bufVars, sendVars>>

\* First critical section: take all events of the task.
Fetch ==
  /\ pc = "fetch"
  /\ events' = tasksEvents[idx]
  /\ tasksEvents' = [tasksEvents EXCEPT ![idx] = {}]
  /\ pc' = "dispatch"
  /\ calls' = 0
  /\ UNCHANGED <<queueVars, idx, bufVars, sendVars>>

\* Mutant: the returned events replace the ones set during the handler.
AddBackOverwrites ==
  /\ pc = "return"
  /\ tasksEvents' = [tasksEvents EXCEPT ![idx] = events]
  /\ events' = {}
  /\ pc' = "poll"
  /\ calls' = 0
  /\ UNCHANGED <<queueVars, idx, bufVars, sendVars>>

\* Second critical section: add back what the handler returned.
AddBack ==
  /\ pc = "return"
  /\ tasksEvents' = [tasksEvents EXCEPT ![idx] = @ \cup events]
  /\ events' = {}
  /\ pc' = "poll"
  /\ calls' = 0
  /\ UNCHANGED <<queueVars, idx, bufVars, sendVars>>

-----------------------------------------------------------------------------
(* The task handlers: SYS_EVENT_MSG is served first, then one flag a call. *)

DispatchMsg ==
  /\ pc = "dispatch"
  /\ SysEventMsg \in events
  /\ pc' = "recv"
  /\ UNCHANGED <<queueVars, tasksEvents, idx, events, bufVars, sendVars, calls>>

\* The handler serves flag e and will return events ^ e.
DispatchFlag(e) ==
  /\ pc = "dispatch"
  /\ SysEventMsg \notin events
  /\ e \in events
  /\ events' = events \ {e}
  /\ pc' = "body"
  /\ UNCHANGED <<queueVars, tasksEvents, idx, bufVars, sendVars, calls>>

\* No flag the handler knows: "Discard unknown events".
DispatchUnknown ==
  /\ pc = "dispatch"
  /\ SysEventMsg \notin events
  /\ events' = {}
  /\ pc' = "return"
  /\ UNCHANGED <<queueVars, tasksEvents, idx, bufVars, sendVars, calls>>

\* Mutant: osal_msg_receive does not look for a second message.
ReceiveNoRearm ==
  /\ pc = "recv"
  /\ \E i \in MailOf(idx) :
       /\ \A j \in MailOf(idx) : i <= j
       /\ osal_qHead' = Extract(osal_qHead, i)
       /\ destId' = [destId EXCEPT ![osal_qHead[i]] = TaskNoTask]
       /\ msgPtr' = osal_qHead[i]
       /\ ClearEvent(idx, SysEventMsg)
  /\ pc' = "body"
  /\ UNCHANGED <<heap, idx, events, outBuf, sendVars, calls>>

\* Mutant: osal_msg_extract forgets to reset header.dest_id.
ReceiveKeepsDest ==
  /\ pc = "recv"
  /\ \E i \in MailOf(idx) :
       /\ \A j \in MailOf(idx) : i <= j
       /\ osal_qHead' = Extract(osal_qHead, i)
       /\ msgPtr' = osal_qHead[i]
       /\ IF \E j \in MailOf(idx) : j # i
            THEN SetEvent(idx, SysEventMsg)
            ELSE ClearEvent(idx, SysEventMsg)
  /\ pc' = "body"
  /\ UNCHANGED <<destId, heap, idx, events, outBuf, sendVars, calls>>

\* osal_msg_receive, a single critical section.
ReceiveFound ==
  /\ pc = "recv"
  /\ \E i \in MailOf(idx) :
       /\ \A j \in MailOf(idx) : i <= j
       /\ osal_qHead' = Extract(osal_qHead, i)
       /\ destId' = [destId EXCEPT ![osal_qHead[i]] = TaskNoTask]
       /\ msgPtr' = osal_qHead[i]
       /\ IF \E j \in MailOf(idx) : j # i
            THEN SetEvent(idx, SysEventMsg)
            ELSE ClearEvent(idx, SysEventMsg)
  /\ pc' = "body"
  /\ UNCHANGED <<heap, idx, events, outBuf, sendVars, calls>>

\* osal_msg_receive returns NULL: the handler's loop ends and it returns
\* events ^ SYS_EVENT_MSG.
ReceiveNone ==
  /\ pc = "recv"
  /\ MailOf(idx) = {}
  /\ ClearEvent(idx, SysEventMsg)
  /\ events' = events \ {SysEventMsg}
  /\ pc' = "return"
  /\ UNCHANGED <<queueVars, idx, bufVars, sendVars, calls>>

\* The handler is done with a message it has deallocated or sent on, and asks
\* for the next one (zcl_event_loop and every other handler but ZNP's).
NextMessage ==
  /\ pc = "body"
  /\ SysEventMsg \in events
  /\ Held = {}
  /\ pc' = "recv"
  /\ UNCHANGED <<queueVars, tasksEvents, idx, events, bufVars, sendVars, calls>>

\* znpEventLoop receives a single message and returns events ^ SYS_EVENT_MSG:
\* a second message is served only if osal_msg_receive has set the flag again.
ReturnAfterOne ==
  /\ pc = "body"
  /\ SysEventMsg \in events
  /\ Held = {}
  /\ events' = events \ {SysEventMsg}
  /\ pc' = "return"
  /\ UNCHANGED <<queueVars, tasksEvents, idx, bufVars, sendVars, calls>>

\* The handler has served its flag.
ReturnFlag ==
  /\ pc = "body"
  /\ SysEventMsg \notin events
  /\ Held = {}
  /\ pc' = "return"
  /\ UNCHANGED <<queueVars, tasksEvents, idx, events, bufVars, sendVars, calls>>

-----------------------------------------------------------------------------
(* The kernel calls a handler makes, or a driver polled before the scan.    *)

Calling ==
  /\ pc \in {"poll", "body"}
  /\ calls < MaxCalls
  /\ calls' = calls + 1

\* osal_msg_allocate that finds room; one that does not changes nothing.
Allocate(b) ==
  /\ Calling
  /\ outBuf = NoBuf
  /\ b \notin heap
  /\ heap' = heap \cup {b}
  /\ destId' = [destId EXCEPT ![b] = TaskNoTask]
  /\ outBuf' = b
  /\ UNCHANGED <<osal_qHead, tasksEvents, loopVars, msgPtr, sendVars>>

\* osal_msg_deallocate of a buffer the caller holds; a queued buffer (one
\* with a destination) is left alone.
Deallocate(b) ==
  /\ pc \in {"poll", "body"}
  /\ b \in Held
  /\ heap' = IF destId[b] = TaskNoTask THEN heap \ {b} ELSE heap
  /\ msgPtr' = IF msgPtr = b THEN NoBuf ELSE msgPtr
  /\ outBuf' = IF outBuf = b THEN NoBuf ELSE outBuf
  /\ UNCHANGED <<osal_qHead, destId, tasksEvents, loopVars, sendVars, calls>>

\* osal_msg_send, up to the window before SYS_EVENT_MSG is set: a new buffer
\* or the received one is queued; a handler sends a received message on to
\* another task only.
Send(b, t) ==
  /\ pc \in {"poll", "body"}
  /\ b \in Held
  /\ b = msgPtr => t # idx
  /\ destId[b] = TaskNoTask
  /\ Enqueue(b, t)
  /\ msgPtr' = IF msgPtr = b THEN NoBuf ELSE msgPtr
  /\ outBuf' = IF outBuf = b THEN NoBuf ELSE outBuf
  /\ notify' = t
  /\ caller' = pc
  /\ pc' = "signal"
  /\ UNCHANGED <<heap, tasksEvents, idx, events, calls>>

\* osal_msg_send to an id that is no task frees the buffer for its caller.
SendNoTask(b) == Deallocate(b)

\* The osal_set_event that ends osal_msg_send.
Signal ==
  /\ pc = "signal"
  /\ SetEvent(notify, SysEventMsg)
  /\ pc' = caller
  /\ notify' = TaskNoTask
  /\ UNCHANGED <<queueVars, idx, events, bufVars, caller, calls>>

\* osal_set_event by a handler, a polled driver or an expired timer.
TaskSetEvent(t, e) ==
  /\ Calling
  /\ SetEvent(t, e)
  /\ UNCHANGED <<queueVars, loopVars, bufVars, sendVars>>

\* osal_clear_event by a handler on a flag of its own task.
TaskClearEvent(e) ==
  /\ pc = "body"
  /\ Calling
  /\ ClearEvent(idx, e)
  /\ UNCHANGED <<queueVars, loopVars, bufVars, sendVars>>

-----------------------------------------------------------------------------
(* Interrupt routines: whole, between any two steps of the run loop.        *)

IsrSetEvent(t, e) ==
  /\ SetEvent(t, e)
  /\ UNCHANGED <<queueVars, loopVars, bufVars, sendVars, calls>>

\* The radio's receive interrupt hands a frame to the MAC library, whose task
\* is the first of tasksArr.
MacTask == 0
IsrSend(b, t) ==
  /\ b \notin heap
  /\ heap' = heap \cup {b}
  /\ Enqueue(b, t)
  /\ SetEvent(t, SysEventMsg)
  /\ UNCHANGED <<loopVars, bufVars, sendVars, calls>>

-----------------------------------------------------------------------------
KernelCall ==
  \/ \E b \in Bufs : Allocate(b) \/ Deallocate(b) \/ SendNoTask(b)
  \/ \E b \in Bufs, t \in Tasks : Send(b, t)
  \/ \E t \in Tasks, e \in Flags : TaskSetEvent(t, e)
  \/ \E e \in Flags : TaskClearEvent(e)

RunLoop ==
  \/ PollDone \/ Scan \/ Fetch \/ AddBack
  \/ DispatchMsg \/ DispatchUnknown \/ \E e \in Flags : DispatchFlag(e)
  \/ ReceiveFound \/ ReceiveNone
  \/ NextMessage \/ ReturnAfterOne \/ ReturnFlag
  \/ Signal
  \/ KernelCall

Interrupt ==
  \/ \E t \in Tasks, e \in Flags : IsrSetEvent(t, e)
  \/ \E b \in Bufs : IsrSend(b, MacTask)

Next == RunLoop \/ Interrupt

Spec == Init /\ [][Next]_vars

\* The processor keeps executing the run loop; interrupts come as they like.
FairSpec == Spec /\ WF_vars(RunLoop)

-----------------------------------------------------------------------------
(* Properties                                                               *)

\* Every variable keeps its type.
TypeOK ==
  /\ osal_qHead \in Seq(Bufs)
  /\ destId \in [Bufs -> Tasks \cup {TaskNoTask}]
  /\ heap \in SUBSET Bufs
  /\ tasksEvents \in [Tasks -> SUBSET AllEvents]
  /\ pc \in {"poll", "scan", "fetch", "dispatch", "recv", "body", "signal", "return"}
  /\ idx \in Tasks
  /\ events \in SUBSET AllEvents
  /\ msgPtr \in Bufs \cup {NoBuf}
  /\ outBuf \in Bufs \cup {NoBuf}
  /\ notify \in Tasks \cup {TaskNoTask}
  /\ caller \in {"poll", "body"}
  /\ calls \in 0 .. MaxCalls

\* A buffer is on the queue once or with the code that holds it, never both;
\* nothing else is allocated (no leak), and no queued buffer has been freed.
\* header.dest_id tells the two apart, as osal_msg_deallocate and the header
\* check of osal_msg_send rely on.
BufferOwnership ==
  /\ \A i, j \in 1 .. Len(osal_qHead) : osal_qHead[i] = osal_qHead[j] => i = j
  /\ Queued \cap Held = {}
  /\ heap = Queued \cup Held
  /\ \A b \in Bufs : b \in Queued <=> destId[b] \in Tasks
  /\ msgPtr # NoBuf => msgPtr # outBuf

\* A task with a message on the queue will be run for it: SYS_EVENT_MSG is set
\* for it, or is about to be by the send in progress, or its handler has been
\* given the flag and has not yet asked for its messages.
NoLostWakeup ==
  \A t \in Tasks : MailOf(t) # {} =>
    \/ SysEventMsg \in tasksEvents[t]
    \/ pc = "signal" /\ notify = t
    \/ pc \in {"dispatch", "recv"} /\ idx = t /\ SysEventMsg \in events

\* The flags set for task t that its handler has not served.
Pending(t) == tasksEvents[t] \cup (IF idx = t THEN events ELSE {})

\* A flag set for a task, by an interrupt in the middle of its own handler for
\* one, is only ever consumed by that task's handler.
EventsNotLost ==
  [][\A t \in Tasks, e \in Flags :
       e \in Pending(t) \ Pending(t)' => idx = t /\ pc \in {"dispatch", "body"}]_vars

\* The queue shared by all tasks is one mailbox per task: osal_msg_send appends
\* to the receiver's, osal_msg_receive takes its oldest message.
Mail(t) == Elements(osal_qHead, MailOf(t))
MailboxOf == INSTANCE Mailbox WITH Msgs <- Bufs, mail <- [t \in Tasks |-> Mail(t)]
ImplementsMailbox == MailboxOf!Spec

\* The task of highest priority gets every message sent to it, whatever the
\* interrupts and the other tasks do.
TopPriorityServed ==
  \A b \in Bufs : (b \in Queued /\ destId[b] = 0) ~> (b \notin Queued)
=============================================================================
