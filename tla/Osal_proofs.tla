---------------------------- MODULE Osal_proofs ----------------------------
(***************************************************************************)
(* Proofs about the two parts of the kernel: Osal, for any number of       *)
(* tasks, buffers and flags, and then, as they share no variable, apart    *)
(* from it OsalMemory, for a heap and a bucket of any size and requests of *)
(* any size.                                                               *)
(***************************************************************************)
EXTENDS Osal, OsalMemory, FiniteSetTheorems, SequenceTheorems, TLAPS

(* The inductive invariant: between handlers no buffer and no event is in  *)
(* flight, and a buffer has one owner.                                     *)
LoopInv ==
  /\ pc \in {"scan", "fetch", "dispatch", "recv", "return"} => Held = {}
  /\ pc = "poll" \/ (pc = "signal" /\ caller = "poll") => msgPtr = NoBuf
  /\ pc \in {"poll", "scan", "fetch"} \/ (pc = "signal" /\ caller = "poll") => events = {}
  /\ pc = "signal" <=> notify # TaskNoTask

IInv == TypeOK /\ LoopInv /\ BufferOwnership /\ NoLostWakeup

USE TasksCntAssumption, NoBufAssumption, SysEventAssumption, MaxCallsAssumption

-----------------------------------------------------------------------------
(* What a step does to the queue.                                           *)

\* Extract removes one element and keeps the others.
LEMMA ExtractSeq ==
  ASSUME NEW S, NEW q \in Seq(S), NEW i \in 1 .. Len(q)
  PROVE  /\ Extract(q, i) \in Seq(S)
         /\ Len(Extract(q, i)) = Len(q) - 1
         /\ \A k \in 1 .. Len(q) - 1 :
              Extract(q, i)[k] = IF k < i THEN q[k] ELSE q[k + 1]
<1>1. Len(q) \in Nat /\ Len(q) - 1 \in Nat
  OBVIOUS
<1>2. \A k \in 1 .. Len(q) - 1 : (IF k < i THEN q[k] ELSE q[k + 1]) \in S
  OBVIOUS
<1>3. Extract(q, i) \in [1 .. Len(q) - 1 -> S]
  BY <1>2 DEF Extract
<1>4. QED
  BY <1>1, <1>3 DEF Extract

-----------------------------------------------------------------------------
(* Type correctness                                                         *)

LEMMA InitType == Init => TypeOK
<1> SUFFICES ASSUME Init PROVE TypeOK
  OBVIOUS
<1> QED
  BY DEF Init, TypeOK, Tasks, TaskNoTask, AllEvents

LEMMA StepType == TypeOK /\ [Next]_vars => TypeOK'
<1> SUFFICES ASSUME TypeOK, [Next]_vars PROVE TypeOK'
  OBVIOUS
<1> USE DEF TypeOK, Tasks, TaskNoTask, AllEvents, queueVars, loopVars, bufVars, sendVars,
            Held, SetEvent, ClearEvent, Enqueue, Calling
<1>1. CASE PollDone
  BY <1>1 DEF PollDone
<1>2. CASE Scan
  BY <1>2 DEF Scan
<1>3. CASE Fetch
  BY <1>3 DEF Fetch
<1>4. CASE AddBack
  BY <1>4 DEF AddBack
<1>5. CASE DispatchMsg \/ DispatchUnknown \/ \E e \in Flags : DispatchFlag(e)
  BY <1>5 DEF DispatchMsg, DispatchUnknown, DispatchFlag
<1>6. CASE ReceiveFound
  <2>1. PICK i \in MailOf(idx) :
          /\ osal_qHead' = Extract(osal_qHead, i)
          /\ destId' = [destId EXCEPT ![osal_qHead[i]] = TaskNoTask]
          /\ msgPtr' = osal_qHead[i]
          /\ IF \E j \in MailOf(idx) : j # i
               THEN SetEvent(idx, SysEventMsg)
               ELSE ClearEvent(idx, SysEventMsg)
    BY <1>6 DEF ReceiveFound
  <2>2. i \in 1 .. Len(osal_qHead) /\ osal_qHead[i] \in Bufs
    BY DEF MailOf
  <2>3. osal_qHead' \in Seq(Bufs)
    BY <2>1, <2>2, ExtractSeq
  <2>4. tasksEvents' \in [Tasks -> SUBSET AllEvents]
    BY <2>1
  <2>5. destId' \in [Bufs -> Tasks \cup {TaskNoTask}] /\ msgPtr' \in Bufs \cup {NoBuf}
    BY <2>1, <2>2
  <2>6. QED
    BY <1>6, <2>3, <2>4, <2>5 DEF ReceiveFound
<1>7. CASE ReceiveNone
  BY <1>7 DEF ReceiveNone
<1>8. CASE NextMessage \/ ReturnAfterOne \/ ReturnFlag
  BY <1>8 DEF NextMessage, ReturnAfterOne, ReturnFlag
<1>9. CASE Signal
  <2>1. CASE notify \in Tasks
    BY <1>9, <2>1 DEF Signal
  <2>2. CASE notify = TaskNoTask
    BY <1>9, <2>2 DEF Signal
  <2>3. QED BY <2>1, <2>2
<1>10. ASSUME NEW b \in Bufs, Allocate(b) PROVE TypeOK'
  BY <1>10 DEF Allocate
<1>11. ASSUME NEW b \in Bufs, Deallocate(b) \/ SendNoTask(b) PROVE TypeOK'
  BY <1>11 DEF Deallocate, SendNoTask
<1>12. ASSUME NEW b \in Bufs, NEW t \in Tasks, Send(b, t) PROVE TypeOK'
  BY <1>12 DEF Send
<1>13. ASSUME NEW t \in Tasks, NEW e \in Flags, TaskSetEvent(t, e) PROVE TypeOK'
  BY <1>13 DEF TaskSetEvent
<1>14. ASSUME NEW e \in Flags, TaskClearEvent(e) PROVE TypeOK'
  BY <1>14 DEF TaskClearEvent
<1>15. ASSUME NEW t \in Tasks, NEW e \in Flags, IsrSetEvent(t, e) PROVE TypeOK'
  BY <1>15 DEF IsrSetEvent
<1>16. ASSUME NEW b \in Bufs, NEW t \in Tasks, IsrSend(b, t) PROVE TypeOK'
  BY <1>16 DEF IsrSend
<1>17. CASE UNCHANGED vars
  BY <1>17 DEF vars
<1>18. QED
  BY <1>1, <1>2, <1>3, <1>4, <1>5, <1>6, <1>7, <1>8, <1>9, <1>10, <1>11, <1>12,
     <1>13, <1>14, <1>15, <1>16, <1>17 DEF Next, RunLoop, KernelCall, Interrupt, MacTask, Tasks

\* Every variable keeps its type in every behaviour of the kernel.
THEOREM TypeCorrect == Spec => []TypeOK
BY InitType, StepType, PTL DEF Spec

-----------------------------------------------------------------------------
(* Ownership of buffers and wake-ups                                        *)

LEMMA InitInv == Init => IInv
<1> SUFFICES ASSUME Init PROVE IInv
  OBVIOUS
<1>1. TypeOK
  BY InitType
<1>2. Queued = {} /\ Held = {} /\ \A t \in Tasks : MailOf(t) = {}
  BY DEF Init, Queued, Held, MailOf
<1>3. LoopInv
  BY <1>2 DEF Init, LoopInv
<1>4. BufferOwnership
  BY <1>2 DEF Init, BufferOwnership, Tasks, TaskNoTask
<1>5. NoLostWakeup
  BY <1>2 DEF NoLostWakeup
<1>6. QED
  BY <1>1, <1>3, <1>4, <1>5 DEF IInv

LEMMA StepLoop == IInv /\ [Next]_vars => LoopInv'
<1> SUFFICES ASSUME IInv, [Next]_vars PROVE LoopInv'
  OBVIOUS
<1> USE DEF IInv, LoopInv, TypeOK, Tasks, TaskNoTask, queueVars, loopVars, bufVars,
            sendVars, Held, Calling
<1>1. CASE PollDone \/ Scan \/ Fetch \/ AddBack
  BY <1>1 DEF PollDone, Scan, Fetch, AddBack
<1>2. CASE DispatchMsg \/ DispatchUnknown \/ \E e \in Flags : DispatchFlag(e)
  BY <1>2 DEF DispatchMsg, DispatchUnknown, DispatchFlag
<1>3. CASE ReceiveFound \/ ReceiveNone
  BY <1>3 DEF ReceiveFound, ReceiveNone
<1>4. CASE NextMessage \/ ReturnAfterOne \/ ReturnFlag \/ Signal
  BY <1>4 DEF NextMessage, ReturnAfterOne, ReturnFlag, Signal
<1>5. ASSUME NEW b \in Bufs, Allocate(b) PROVE LoopInv'
  BY <1>5 DEF Allocate
<1>6. ASSUME NEW b \in Bufs, Deallocate(b) \/ SendNoTask(b) PROVE LoopInv'
  BY <1>6 DEF Deallocate, SendNoTask
<1>7. ASSUME NEW b \in Bufs, NEW t \in Tasks, Send(b, t) PROVE LoopInv'
  BY <1>7 DEF Send
<1>8. ASSUME NEW e \in Flags, TaskClearEvent(e) \/ \E t \in Tasks : TaskSetEvent(t, e)
      PROVE LoopInv'
  BY <1>8 DEF TaskClearEvent, TaskSetEvent
<1>9. CASE Interrupt \/ UNCHANGED vars
  BY <1>9 DEF Interrupt, IsrSetEvent, IsrSend, vars, MacTask
<1>10. QED
  BY <1>1, <1>2, <1>3, <1>4, <1>5, <1>6, <1>7, <1>8, <1>9 DEF Next, RunLoop, KernelCall

\* An append puts one new buffer on the queue.
LEMMA EnqueueEffect ==
  ASSUME IInv, NEW b \in Bufs, NEW t \in Tasks, b \notin Queued, Enqueue(b, t)
  PROVE  /\ Queued' = Queued \cup {b}
         /\ \A i, j \in 1 .. Len(osal_qHead') : osal_qHead'[i] = osal_qHead'[j] => i = j
         /\ \A c \in Bufs : c \in Queued' <=> destId'[c] \in Tasks
         /\ \A u \in Tasks : MailOf(u)' # {} => MailOf(u) # {} \/ u = t
<1> USE DEF IInv, TypeOK
<1>1. /\ Len(osal_qHead') = Len(osal_qHead) + 1
      /\ Len(osal_qHead) \in Nat
      /\ osal_qHead'[Len(osal_qHead) + 1] = b
      /\ \A i \in 1 .. Len(osal_qHead) :
           osal_qHead'[i] = osal_qHead[i] /\ osal_qHead[i] \in Bufs /\ osal_qHead[i] # b
  BY DEF Enqueue, Queued
<1>2. /\ destId'[b] = t
      /\ \A c \in Bufs : c # b => destId'[c] = destId[c]
  BY DEF Enqueue
<1>3. Queued' = Queued \cup {b}
  <2>1. ASSUME NEW c \in Queued' PROVE c \in Queued \cup {b}
    BY <1>1 DEF Queued
  <2>2. ASSUME NEW c \in Queued PROVE c \in Queued'
    BY <1>1 DEF Queued
  <2>3. b \in Queued'
    BY <1>1 DEF Queued
  <2>4. QED BY <2>1, <2>2, <2>3
<1>4. \A i, j \in 1 .. Len(osal_qHead') : osal_qHead'[i] = osal_qHead'[j] => i = j
  BY <1>1 DEF BufferOwnership
<1>5. \A c \in Bufs : c \in Queued' <=> destId'[c] \in Tasks
  BY <1>2, <1>3 DEF BufferOwnership
<1>6. ASSUME NEW u \in Tasks, u # t, NEW i \in MailOf(u)' PROVE i \in MailOf(u)
  BY <1>1, <1>2, <1>6 DEF MailOf
<1>7. QED
  BY <1>3, <1>4, <1>5, <1>6

\* osal_msg_receive takes one buffer off the queue, and only this one.
LEMMA ReceiveEffect ==
  ASSUME IInv, ReceiveFound
  PROVE  \E i \in MailOf(idx) :
           /\ msgPtr' = osal_qHead[i] /\ osal_qHead[i] \in Bufs
           /\ Queued' = Queued \ {osal_qHead[i]}
           /\ \A j, k \in 1 .. Len(osal_qHead') : osal_qHead'[j] = osal_qHead'[k] => j = k
           /\ \A c \in Bufs : c \in Queued' <=> destId'[c] \in Tasks
           /\ \A u \in Tasks : MailOf(u)' # {} => MailOf(u) # {}
           /\ MailOf(idx)' # {} => SysEventMsg \in tasksEvents'[idx]
           /\ \A u \in Tasks : u # idx => tasksEvents'[u] = tasksEvents[u]
<1> USE DEF IInv, TypeOK
<1>1. PICK i \in MailOf(idx) :
        /\ osal_qHead' = Extract(osal_qHead, i)
        /\ destId' = [destId EXCEPT ![osal_qHead[i]] = TaskNoTask]
        /\ msgPtr' = osal_qHead[i]
        /\ IF \E j \in MailOf(idx) : j # i
             THEN SetEvent(idx, SysEventMsg)
             ELSE ClearEvent(idx, SysEventMsg)
  BY DEF ReceiveFound
<1>2. /\ i \in 1 .. Len(osal_qHead)
      /\ Len(osal_qHead) \in Nat
      /\ \A k \in 1 .. Len(osal_qHead) : osal_qHead[k] \in Bufs
  BY <1>1 DEF MailOf
<1>3. /\ Len(osal_qHead') = Len(osal_qHead) - 1
      /\ \A k \in 1 .. Len(osal_qHead) - 1 :
           osal_qHead'[k] = IF k < i THEN osal_qHead[k] ELSE osal_qHead[k + 1]
  BY <1>1, <1>2, ExtractSeq
<1>4. \A j, k \in 1 .. Len(osal_qHead) : osal_qHead[j] = osal_qHead[k] => j = k
  BY DEF BufferOwnership
<1>5. Queued' = Queued \ {osal_qHead[i]}
  <2>1. ASSUME NEW c \in Queued' PROVE c \in Queued /\ c # osal_qHead[i]
    <3>1. PICK k \in 1 .. Len(osal_qHead) - 1 : c = osal_qHead'[k]
      BY <1>3 DEF Queued
    <3>2. CASE k < i
      BY <3>1, <3>2, <1>2, <1>3, <1>4 DEF Queued
    <3>3. CASE ~(k < i)
      BY <3>1, <3>3, <1>2, <1>3, <1>4 DEF Queued
    <3>4. QED BY <3>2, <3>3
  <2>2. ASSUME NEW c \in Queued, c # osal_qHead[i] PROVE c \in Queued'
    <3>1. PICK k \in 1 .. Len(osal_qHead) : c = osal_qHead[k] /\ k # i
      BY <2>2 DEF Queued
    <3>2. CASE k < i
      <4>1. k \in 1 .. Len(osal_qHead) - 1 /\ osal_qHead'[k] = c
        BY <3>1, <3>2, <1>2, <1>3
      <4>2. QED BY <4>1, <1>3 DEF Queued
    <3>3. CASE k > i
      <4>1. k - 1 \in 1 .. Len(osal_qHead) - 1 /\ osal_qHead'[k - 1] = c
        BY <3>1, <3>3, <1>2, <1>3
      <4>2. QED BY <4>1, <1>3 DEF Queued
    <3>4. QED BY <3>1, <3>2, <3>3, <1>2
  <2>3. QED BY <2>1, <2>2
<1>6. \A j, k \in 1 .. Len(osal_qHead') : osal_qHead'[j] = osal_qHead'[k] => j = k
  <2> SUFFICES ASSUME NEW j \in 1 .. Len(osal_qHead) - 1, NEW k \in 1 .. Len(osal_qHead) - 1,
                      osal_qHead'[j] = osal_qHead'[k]
               PROVE  j = k
    BY <1>3
  <2> QED BY <1>2, <1>3, <1>4
<1>7. \A c \in Bufs : c \in Queued' <=> destId'[c] \in Tasks
  BY <1>1, <1>2, <1>5 DEF BufferOwnership, Tasks, TaskNoTask
<1>8. ASSUME NEW u \in Tasks, NEW k \in MailOf(u)'
      PROVE  \E j \in MailOf(u) : j # i
  <2>1. k \in 1 .. Len(osal_qHead) - 1 /\ destId'[osal_qHead'[k]] = u
    BY <1>3 DEF MailOf
  <2>2. CASE k < i
    <3>1. k \in 1 .. Len(osal_qHead) /\ osal_qHead[k] # osal_qHead[i] /\ osal_qHead'[k] = osal_qHead[k]
      BY <2>1, <2>2, <1>2, <1>3, <1>4
    <3>2. destId[osal_qHead[k]] = u
      BY <3>1, <2>1, <1>1, <1>2
    <3>3. QED BY <3>1, <3>2, <2>2, <1>2 DEF MailOf
  <2>3. CASE ~(k < i)
    <3>1. /\ k + 1 \in 1 .. Len(osal_qHead) /\ k + 1 # i
          /\ osal_qHead[k + 1] # osal_qHead[i] /\ osal_qHead'[k] = osal_qHead[k + 1]
      BY <2>1, <2>3, <1>2, <1>3, <1>4
    <3>2. destId[osal_qHead[k + 1]] = u
      BY <3>1, <2>1, <1>1, <1>2
    <3>3. QED BY <3>1, <3>2 DEF MailOf
  <2>4. QED BY <2>2, <2>3
<1>9. MailOf(idx)' # {} => SysEventMsg \in tasksEvents'[idx]
  <2> SUFFICES ASSUME MailOf(idx)' # {} PROVE SysEventMsg \in tasksEvents'[idx]
    OBVIOUS
  <2>1. idx' = idx
    BY DEF ReceiveFound
  <2>2. \E j \in MailOf(idx) : j # i
    BY <1>8, <2>1
  <2>3. QED BY <1>1, <2>2 DEF SetEvent
<1>10. \A u \in Tasks : u # idx => tasksEvents'[u] = tasksEvents[u]
  BY <1>1 DEF SetEvent, ClearEvent
<1>11. \A u \in Tasks : MailOf(u)' # {} => MailOf(u) # {}
  BY <1>8
<1>12. QED
  BY <1>1, <1>2, <1>5, <1>6, <1>7, <1>9, <1>10, <1>11

LEMMA StepOwnership == IInv /\ [Next]_vars => BufferOwnership'
<1> SUFFICES ASSUME IInv, [Next]_vars PROVE BufferOwnership'
  OBVIOUS
<1>1. ASSUME UNCHANGED <<queueVars, bufVars>> PROVE BufferOwnership'
  <2>1. BufferOwnership
    BY DEF IInv
  <2>2. Queued' = Queued /\ Held' = Held
    BY <1>1 DEF Queued, Held, queueVars, bufVars
  <2>3. QED
    BY <1>1, <2>1, <2>2 DEF BufferOwnership, queueVars, bufVars
<1> USE DEF IInv, TypeOK
<1>2. CASE PollDone \/ Scan \/ Fetch \/ AddBack \/ Signal
  BY <1>1, <1>2 DEF PollDone, Scan, Fetch, AddBack, Signal
<1>3. CASE DispatchMsg \/ DispatchUnknown \/ \E e \in Flags : DispatchFlag(e)
  BY <1>1, <1>3 DEF DispatchMsg, DispatchUnknown, DispatchFlag
<1>4. CASE ReceiveNone \/ NextMessage \/ ReturnAfterOne \/ ReturnFlag
  BY <1>1, <1>4 DEF ReceiveNone, NextMessage, ReturnAfterOne, ReturnFlag
<1>5. CASE ReceiveFound
  <2>1. PICK i \in MailOf(idx) :
           /\ msgPtr' = osal_qHead[i] /\ osal_qHead[i] \in Bufs
           /\ Queued' = Queued \ {osal_qHead[i]}
           /\ \A j, k \in 1 .. Len(osal_qHead') : osal_qHead'[j] = osal_qHead'[k] => j = k
           /\ \A c \in Bufs : c \in Queued' <=> destId'[c] \in Tasks
    BY <1>5, ReceiveEffect
  <2>2. osal_qHead[i] \in Queued
    BY DEF Queued, MailOf
  <2>3. outBuf = NoBuf /\ msgPtr = NoBuf /\ outBuf' = outBuf /\ heap' = heap
    BY <1>5 DEF ReceiveFound, LoopInv, Held
  <2>4. Held' = {osal_qHead[i]} /\ heap' = Queued' \cup Held'
    BY <2>1, <2>2, <2>3 DEF BufferOwnership, Held
  <2>5. QED
    BY <2>1, <2>3, <2>4 DEF BufferOwnership
<1>6. ASSUME NEW b \in Bufs, Allocate(b) PROVE BufferOwnership'
  <2>1. /\ outBuf = NoBuf /\ outBuf' = b /\ msgPtr' = msgPtr /\ b \notin heap
        /\ osal_qHead' = osal_qHead /\ heap' = heap \cup {b}
        /\ destId' = [destId EXCEPT ![b] = TaskNoTask]
    BY <1>6 DEF Allocate
  <2>2. Queued' = Queued /\ Held' = Held \cup {b} /\ b \notin Queued /\ b \notin Held
    BY <2>1 DEF Queued, Held, BufferOwnership
  <2>3. QED
    BY <2>1, <2>2 DEF BufferOwnership, Tasks, TaskNoTask, Held
<1>7. ASSUME NEW b \in Bufs, Deallocate(b) \/ SendNoTask(b) PROVE BufferOwnership'
  <2>1. /\ b \in Held /\ heap' = IF destId[b] = TaskNoTask THEN heap \ {b} ELSE heap
        /\ msgPtr' = IF msgPtr = b THEN NoBuf ELSE msgPtr
        /\ outBuf' = IF outBuf = b THEN NoBuf ELSE outBuf
        /\ osal_qHead' = osal_qHead /\ destId' = destId
    BY <1>7 DEF Deallocate, SendNoTask
  <2>2. b \notin Queued /\ destId[b] = TaskNoTask
    BY <2>1 DEF BufferOwnership, Tasks, TaskNoTask
  <2>3. Queued' = Queued /\ Held' = Held \ {b}
    BY <2>1 DEF Queued, Held, BufferOwnership
  <2>4. QED
    BY <2>1, <2>2, <2>3 DEF BufferOwnership
<1>8. ASSUME NEW b \in Bufs, NEW t \in Tasks, Send(b, t) PROVE BufferOwnership'
  <2>1. /\ b \in Held /\ Enqueue(b, t) /\ heap' = heap
        /\ msgPtr' = IF msgPtr = b THEN NoBuf ELSE msgPtr
        /\ outBuf' = IF outBuf = b THEN NoBuf ELSE outBuf
    BY <1>8 DEF Send
  <2>2. b \notin Queued /\ Held' = Held \ {b}
    BY <2>1 DEF BufferOwnership, Held
  <2>3. /\ Queued' = Queued \cup {b}
        /\ \A i, j \in 1 .. Len(osal_qHead') : osal_qHead'[i] = osal_qHead'[j] => i = j
        /\ \A c \in Bufs : c \in Queued' <=> destId'[c] \in Tasks
    BY <2>1, <2>2, EnqueueEffect
  <2>4. QED
    BY <2>1, <2>2, <2>3 DEF BufferOwnership
<1>9. ASSUME NEW e \in Flags, TaskClearEvent(e) \/ \E t \in Tasks : TaskSetEvent(t, e) \/ IsrSetEvent(t, e)
      PROVE BufferOwnership'
  BY <1>1, <1>9 DEF TaskClearEvent, TaskSetEvent, IsrSetEvent
<1>10. ASSUME NEW b \in Bufs, NEW t \in Tasks, IsrSend(b, t) PROVE BufferOwnership'
  <2>1. Enqueue(b, t) /\ b \notin heap /\ heap' = heap \cup {b} /\ UNCHANGED bufVars
    BY <1>10 DEF IsrSend
  <2>2. b \notin Queued /\ b \notin Held /\ Held' = Held
    BY <2>1 DEF BufferOwnership, Held, bufVars
  <2>3. /\ Queued' = Queued \cup {b}
        /\ \A i, j \in 1 .. Len(osal_qHead') : osal_qHead'[i] = osal_qHead'[j] => i = j
        /\ \A c \in Bufs : c \in Queued' <=> destId'[c] \in Tasks
    BY <2>1, <2>2, EnqueueEffect
  <2>4. QED
    BY <2>1, <2>2, <2>3 DEF BufferOwnership, bufVars
<1>11. CASE UNCHANGED vars
  BY <1>1, <1>11 DEF vars
<1>12. QED
  BY <1>2, <1>3, <1>4, <1>5, <1>6, <1>7, <1>8, <1>9, <1>10, <1>11
     DEF Next, RunLoop, KernelCall, Interrupt, MacTask, Tasks

LEMMA StepWakeup == IInv /\ [Next]_vars => NoLostWakeup'
<1> SUFFICES ASSUME IInv, [Next]_vars, NEW t \in Tasks, MailOf(t)' # {}
             PROVE  \/ SysEventMsg \in tasksEvents'[t]
                    \/ pc' = "signal" /\ notify' = t
                    \/ pc' \in {"dispatch", "recv"} /\ idx' = t /\ SysEventMsg \in events'
  BY DEF NoLostWakeup
<1> DEFINE Woken == \/ SysEventMsg \in tasksEvents[t]
                    \/ pc = "signal" /\ notify = t
                    \/ pc \in {"dispatch", "recv"} /\ idx = t /\ SysEventMsg \in events
<1>1. MailOf(t) # {} => Woken
  BY DEF IInv, NoLostWakeup
<1>2. ASSUME UNCHANGED <<osal_qHead, destId>> PROVE Woken
  BY <1>1, <1>2 DEF MailOf
<1> USE DEF IInv, TypeOK, loopVars, bufVars, sendVars, queueVars, SetEvent, ClearEvent
<1>3. CASE PollDone \/ Scan \/ Fetch \/ AddBack \/ Signal
  BY <1>2, <1>3 DEF PollDone, Scan, Fetch, AddBack, Signal
<1>4. CASE DispatchMsg \/ DispatchUnknown \/ \E e \in Flags : DispatchFlag(e)
  BY <1>2, <1>4 DEF DispatchMsg, DispatchUnknown, DispatchFlag
<1>5. CASE ReceiveNone
  <2>1. t # idx
    BY <1>5 DEF ReceiveNone, MailOf
  <2>2. QED
    BY <2>1, <1>2, <1>5 DEF ReceiveNone
<1>6. CASE ReceiveFound
  <2>1. PICK i \in MailOf(idx) :
           /\ MailOf(t)' # {} => MailOf(t) # {}
           /\ MailOf(idx)' # {} => SysEventMsg \in tasksEvents'[idx]
           /\ \A u \in Tasks : u # idx => tasksEvents'[u] = tasksEvents[u]
    BY <1>6, ReceiveEffect
  <2>2. idx' = idx /\ pc = "recv"
    BY <1>6 DEF ReceiveFound
  <2>3. CASE t = idx
    BY <2>1, <2>2, <2>3
  <2>4. CASE t # idx
    BY <2>1, <2>2, <2>4, <1>1
  <2>5. QED BY <2>3, <2>4
<1>7. CASE NextMessage \/ ReturnAfterOne \/ ReturnFlag
  BY <1>2, <1>7 DEF NextMessage, ReturnAfterOne, ReturnFlag
<1>8. ASSUME NEW b \in Bufs, Allocate(b) PROVE SysEventMsg \in tasksEvents'[t]
  <2>1. MailOf(t) # {}
    BY <1>8 DEF Allocate, MailOf, Tasks, TaskNoTask
  <2>2. QED BY <2>1, <1>1, <1>8 DEF Allocate, Calling
<1>9. ASSUME NEW b \in Bufs, Deallocate(b) \/ SendNoTask(b) PROVE SysEventMsg \in tasksEvents'[t]
  BY <1>2, <1>9 DEF Deallocate, SendNoTask
<1>10. ASSUME NEW b \in Bufs, NEW u \in Tasks, Send(b, u)
       PROVE  SysEventMsg \in tasksEvents'[t] \/ (pc' = "signal" /\ notify' = t)
  <2>1. b \notin Queued
    BY <1>10 DEF Send, BufferOwnership
  <2>2. MailOf(t) # {} \/ t = u
    BY <2>1, <1>10, EnqueueEffect DEF Send
  <2>3. QED BY <2>2, <1>1, <1>10 DEF Send
<1>11. ASSUME NEW e \in Flags, NEW u \in Tasks, TaskSetEvent(u, e) \/ IsrSetEvent(u, e)
       PROVE  \/ SysEventMsg \in tasksEvents'[t]
              \/ pc' = "signal" /\ notify' = t
              \/ pc' \in {"dispatch", "recv"} /\ idx' = t /\ SysEventMsg \in events'
  BY <1>2, <1>11 DEF TaskSetEvent, IsrSetEvent
<1>12. ASSUME NEW e \in Flags, TaskClearEvent(e) PROVE SysEventMsg \in tasksEvents'[t]
  BY <1>2, <1>12 DEF TaskClearEvent
<1>13. ASSUME NEW b \in Bufs, NEW u \in Tasks, IsrSend(b, u)
       PROVE  \/ SysEventMsg \in tasksEvents'[t]
              \/ pc' = "signal" /\ notify' = t
              \/ pc' \in {"dispatch", "recv"} /\ idx' = t /\ SysEventMsg \in events'
  <2>1. b \notin Queued
    BY <1>13 DEF IsrSend, BufferOwnership
  <2>2. MailOf(t) # {} \/ t = u
    BY <2>1, <1>13, EnqueueEffect DEF IsrSend
  <2>3. QED BY <2>2, <1>1, <1>13 DEF IsrSend
<1>14. CASE UNCHANGED vars
  BY <1>2, <1>14 DEF vars
<1>15. QED
  BY <1>3, <1>4, <1>5, <1>6, <1>7, <1>8, <1>9, <1>10, <1>11, <1>12, <1>13, <1>14
     DEF Next, RunLoop, KernelCall, Interrupt, MacTask, Tasks

LEMMA Inductive == Spec => []IInv
<1>1. IInv /\ [Next]_vars => IInv'
  BY StepType, StepLoop, StepOwnership, StepWakeup DEF IInv
<1>2. QED
  BY <1>1, InitInv, PTL DEF Spec

\* No buffer is ever freed while queued, queued twice, leaked, or held by two.
THEOREM OwnershipHolds == Spec => []BufferOwnership
BY Inductive, PTL DEF IInv

\* No interrupt and no handler can leave a message waiting for a task that
\* will not be run for it.
THEOREM NoWakeupIsLost == Spec => []NoLostWakeup
BY Inductive, PTL DEF IInv

LEMMA FlagsStep ==
  IInv /\ [Next]_vars =>
    [\A t \in Tasks, e \in Flags :
       e \in Pending(t) \ Pending(t)' => idx = t /\ pc \in {"dispatch", "body"}]_vars
<1> SUFFICES ASSUME IInv, [Next]_vars, NEW t \in Tasks, NEW e \in Flags,
                    e \in Pending(t), e \notin Pending(t)'
             PROVE  idx = t /\ pc \in {"dispatch", "body"}
  OBVIOUS
<1> USE DEF IInv, TypeOK, LoopInv, Pending, loopVars, bufVars, sendVars, queueVars,
            SetEvent, ClearEvent
<1>1. CASE PollDone \/ Scan \/ Fetch \/ AddBack \/ Signal
  BY <1>1 DEF PollDone, Scan, Fetch, AddBack, Signal
<1>2. CASE DispatchMsg \/ DispatchUnknown \/ \E f \in Flags : DispatchFlag(f)
  BY <1>2 DEF DispatchMsg, DispatchUnknown, DispatchFlag
<1>3. CASE ReceiveFound
  BY <1>3 DEF ReceiveFound
<1>4. CASE ReceiveNone \/ NextMessage \/ ReturnAfterOne \/ ReturnFlag
  BY <1>4 DEF ReceiveNone, NextMessage, ReturnAfterOne, ReturnFlag
<1>5. ASSUME NEW b \in Bufs, Allocate(b) \/ Deallocate(b) \/ SendNoTask(b)
             \/ \E u \in Tasks : Send(b, u)
      PROVE  FALSE
  BY <1>5 DEF Allocate, Deallocate, SendNoTask, Send
<1>6. ASSUME NEW f \in Flags, TaskClearEvent(f) PROVE idx = t /\ pc = "body"
  BY <1>6 DEF TaskClearEvent
<1>7. ASSUME NEW f \in Flags, NEW u \in Tasks, TaskSetEvent(u, f) \/ IsrSetEvent(u, f)
      PROVE  FALSE
  BY <1>7 DEF TaskSetEvent, IsrSetEvent
<1>8. ASSUME NEW b \in Bufs, NEW u \in Tasks, IsrSend(b, u) PROVE FALSE
  BY <1>8 DEF IsrSend
<1>9. CASE UNCHANGED vars
  BY <1>9 DEF vars
<1>10. QED
  BY <1>1, <1>2, <1>3, <1>4, <1>5, <1>6, <1>7, <1>8, <1>9
     DEF Next, RunLoop, KernelCall, Interrupt, MacTask, Tasks

\* A flag set for a task is consumed by that task's handler and by nothing else.
THEOREM FlagsKept == Spec => EventsNotLost
BY Inductive, FlagsStep, PTL DEF Spec, EventsNotLost
-----------------------------------------------------------------------------
(***************************************************************************)
(* What a sequence has at some of its positions (Subsequence).             *)
(***************************************************************************)

\* The numbers of a finite set have the ranks from 1 on, and no two the same.
LEMMA Ranks ==
  ASSUME NEW S \in SUBSET Nat, IsFiniteSet(S)
  PROVE  /\ Cardinality(S) \in Nat
         /\ \A i \in S : Rank(S, i) \in 1 .. Cardinality(S) /\ Nth(S, Rank(S, i)) = i
         /\ \A k \in 1 .. Cardinality(S) : Nth(S, k) \in S /\ Rank(S, Nth(S, k)) = k
<1> DEFINE Upto(i) == {j \in S : j <= i}
           c == Cardinality(S)
<1>1. c \in Nat
  BY FS_CardinalityType
<1>2. ASSUME NEW i \in S
      PROVE  /\ IsFiniteSet(Upto(i)) /\ Rank(S, i) = Cardinality(Upto(i))
             /\ Rank(S, i) \in 1 .. c
  <2>1. IsFiniteSet(Upto(i)) /\ Cardinality(Upto(i)) <= c /\ Cardinality(Upto(i)) \in Nat
    <3>1. Upto(i) \in SUBSET S
      OBVIOUS
    <3> HIDE DEF Upto
    <3> QED
      BY <3>1, FS_Subset, FS_CardinalityType
  <2>2. Cardinality(Upto(i)) # 0
    <3>1. i \in Upto(i)
      OBVIOUS
    <3> HIDE DEF Upto
    <3> QED
      BY <2>1, <3>1, FS_EmptySet
  <2>3. Rank(S, i) = Cardinality(Upto(i))
    BY DEF Rank
  <2> HIDE DEF Upto
  <2> QED
    BY <1>1, <2>1, <2>2, <2>3
<1>3. ASSUME NEW i \in S, NEW j \in S, i < j
      PROVE  Rank(S, i) # Rank(S, j)
  <2>1. Upto(i) \in SUBSET Upto(j) /\ j \in Upto(j) /\ j \notin Upto(i)
    <3>1. \A k \in S : k \in Nat
      OBVIOUS
    <3>2. \A k \in S : k <= i => k <= j
      BY <1>3, <3>1
    <3>3. j <= j /\ ~(j <= i)
      BY <1>3, <3>1
    <3>4. Upto(i) \in SUBSET Upto(j)
      BY <3>2
    <3> QED
      BY <3>3, <3>4
  <2> HIDE DEF Upto
  <2>2. Upto(i) # Upto(j)
    BY <2>1
  <2> QED
    BY <1>2, <2>1, <2>2, FS_Subset
<1> DEFINE r == [i \in S |-> Rank(S, i)]
<1>4. r \in Injection(S, 1 .. c)
  <2>1. r \in [S -> 1 .. c]
    BY <1>2
  <2>2. \A i, j \in S : r[i] = r[j] => i = j
    <3> SUFFICES ASSUME NEW i \in S, NEW j \in S, i # j PROVE Rank(S, i) # Rank(S, j)
      OBVIOUS
    <3>1. i < j \/ j < i
      OBVIOUS
    <3> QED
      BY <1>3, <3>1
  <2> HIDE DEF r
  <2> QED
    BY <2>1, <2>2 DEF Injection, IsInjective
<1>5. IsFiniteSet(1 .. c) /\ Cardinality(1 .. c) = c
  <2>1. 1 \in Int /\ c \in Int /\ (1 > c => c = 0) /\ c - 1 + 1 = c
    BY <1>1
  <2> HIDE DEF c
  <2> QED
    BY <1>1, <2>1, FS_Interval
<1>6. r \in Surjection(S, 1 .. c)
  <2> HIDE DEF r
  <2> QED
    BY <1>4, <1>5, FS_Injection
<1>7. \A k \in 1 .. c : \E i \in S : Rank(S, i) = k
  <2>1. \A k \in 1 .. c : \E i \in S : r[i] = k
    <3> HIDE DEF r
    <3> QED
      BY <1>6 DEF Surjection
  <2> QED
    BY <2>1
<1>8. \A i, j \in S : Rank(S, i) = Rank(S, j) => i = j
  BY <1>4 DEF Injection, IsInjective
<1>9. \A k \in 1 .. c : Nth(S, k) \in S /\ Rank(S, Nth(S, k)) = k
  BY <1>7 DEF Nth
<1> HIDE DEF Upto, c, r
<1>10. ASSUME NEW i \in S PROVE Nth(S, Rank(S, i)) = i
  <2>1. Rank(S, i) \in 1 .. c
    BY <1>2
  <2>2. Nth(S, Rank(S, i)) \in S /\ Rank(S, Nth(S, Rank(S, i))) = Rank(S, i)
    BY <1>9, <2>1
  <2> QED
    BY <1>8, <2>2
<1> USE DEF c
<1> QED
  BY <1>1, <1>2, <1>9, <1>10

\* Sets of the same shape: the k-th number corresponds to the k-th number.
LEMMA SameShape ==
  ASSUME NEW S \in SUBSET Nat, IsFiniteSet(S), NEW T \in SUBSET Nat, NEW f \in [S -> T],
         \A j \in T : \E i \in S : f[i] = j,
         \A i, j \in S : i < j => f[i] < f[j]
  PROVE  /\ IsFiniteSet(T) /\ Cardinality(T) = Cardinality(S)
         /\ \A k \in 1 .. Cardinality(S) : Nth(T, k) = f[Nth(S, k)]
<1>1. \A i, j \in S : f[i] <= f[j] <=> i <= j
  <2> SUFFICES ASSUME NEW i \in S, NEW j \in S PROVE f[i] <= f[j] <=> i <= j
    OBVIOUS
  <2>1. i \in Nat /\ j \in Nat /\ f[i] \in Nat /\ f[j] \in Nat
    OBVIOUS
  <2> QED
    BY <2>1
<1>2. \A i, j \in S : f[i] = f[j] => i = j
  BY <1>1
<1>3. IsFiniteSet(T) /\ Cardinality(T) = Cardinality(S)
  <2>1. f \in Bijection(S, T)
    BY <1>2 DEF Bijection, Injection, Surjection, IsInjective
  <2> QED
    BY <2>1, FS_Bijection DEF ExistsBijection
<1>4. ASSUME NEW i \in S
      PROVE  Rank(T, f[i]) = Rank(S, i)
  <2> DEFINE A == {j \in S : j <= i}
             B == {j \in T : j <= f[i]}
             g == [j \in A |-> f[j]]
  <2>1. g \in Bijection(A, B)
    <3>1. g \in [A -> B]
      BY <1>1
    <3>2. \A j, k \in A : g[j] = g[k] => j = k
      BY <1>2
    <3>3. \A j \in B : \E k \in A : g[k] = j
      BY <1>1
    <3> HIDE DEF A, B, g
    <3> QED
      BY <3>1, <3>2, <3>3 DEF Bijection, Injection, Surjection, IsInjective
  <2>2. A \in SUBSET S
    OBVIOUS
  <2>3. Cardinality(A) = Cardinality(B)
    <3> HIDE DEF A, B, g
    <3> QED
      BY <2>1, <2>2, FS_Subset, FS_Bijection DEF ExistsBijection
  <2> QED
    BY <2>3 DEF Rank
<1>5. ASSUME NEW k \in 1 .. Cardinality(S)
      PROVE  Nth(T, k) = f[Nth(S, k)]
  <2>1. Nth(S, k) \in S /\ Rank(S, Nth(S, k)) = k
    BY Ranks
  <2>2. f[Nth(S, k)] \in T /\ Rank(T, f[Nth(S, k)]) = k
    BY <1>4, <2>1
  <2> QED
    BY <1>3, <2>2, Ranks
<1> QED
  BY <1>3, <1>5

\* The same elements at the same positions.
LEMMA ElementsSame ==
  ASSUME NEW S \in SUBSET Nat, IsFiniteSet(S), NEW q, NEW p, \A i \in S : p[i] = q[i]
  PROVE  Elements(p, S) = Elements(q, S)
<1>1. \A k \in 1 .. Cardinality(S) : Nth(S, k) \in S
  BY Ranks
<1> QED
  BY <1>1 DEF Elements

\* A position after all others appends its element.
LEMMA ElementsAppend ==
  ASSUME NEW S \in SUBSET Nat, IsFiniteSet(S), NEW m \in Nat, \A i \in S : i < m, NEW q
  PROVE  Elements(q, S \cup {m}) = Append(Elements(q, S), q[m])
<1> DEFINE T == S \cup {m}
           c == Cardinality(S)
<1>1. m \notin S /\ T \in SUBSET Nat
  <2>1. ~(m < m)
    OBVIOUS
  <2> QED
    BY <2>1
<1>2. c \in Nat /\ IsFiniteSet(T) /\ Cardinality(T) = c + 1
  BY <1>1, FS_AddElement, FS_CardinalityType
<1>3. \A i \in S : Rank(T, i) = Rank(S, i)
  <2> SUFFICES ASSUME NEW i \in S PROVE Rank(T, i) = Rank(S, i)
    OBVIOUS
  <2>1. ~(m <= i)
    BY <1>1
  <2>2. {j \in T : j <= i} = {j \in S : j <= i}
    BY <2>1
  <2> QED
    BY <2>2 DEF Rank
<1>4. Rank(T, m) = c + 1
  <2>1. {j \in T : j <= m} = T
    <3>1. \A j \in T : j <= m
      <4>1. \A j \in S : j \in Nat /\ j <= m
        OBVIOUS
      <4> QED
        BY <4>1
    <3> QED
      BY <3>1
  <2> QED
    BY <1>2, <2>1 DEF Rank
<1>5. \A i \in T : Nth(T, Rank(T, i)) = i
  <2> HIDE DEF T
  <2> QED
    BY <1>1, <1>2, Ranks
<1>6. \A k \in 1 .. c : Nth(T, k) = Nth(S, k) /\ Nth(S, k) \in S
  <2> SUFFICES ASSUME NEW k \in 1 .. c PROVE Nth(T, k) = Nth(S, k) /\ Nth(S, k) \in S
    OBVIOUS
  <2>1. Nth(S, k) \in S /\ Rank(S, Nth(S, k)) = k
    BY Ranks
  <2> QED
    BY <1>3, <1>5, <2>1
<1>7. Nth(T, c + 1) = m
  BY <1>4, <1>5
<1>8. Elements(q, T) = [k \in 1 .. c + 1 |-> q[Nth(T, k)]]
  BY <1>2 DEF Elements
<1>9. Elements(q, S) = [k \in 1 .. c |-> q[Nth(S, k)]]
  BY DEF Elements
<1> HIDE DEF T, c
<1>10. Len(Elements(q, S)) = c
  BY <1>2, <1>9
<1>11. Append(Elements(q, S), q[m]) = [k \in 1 .. c + 1 |-> IF k <= c THEN q[Nth(S, k)] ELSE q[m]]
  <2>1. Append(Elements(q, S), q[m]) =
          [k \in 1 .. c + 1 |-> IF k <= c THEN Elements(q, S)[k] ELSE q[m]]
    BY <1>2, <1>10
  <2> QED
    BY <1>2, <1>9, <2>1
<1>12. ASSUME NEW k \in 1 .. c + 1
       PROVE  q[Nth(T, k)] = IF k <= c THEN q[Nth(S, k)] ELSE q[m]
  <2>1. CASE k <= c
    <3>1. k \in 1 .. c
      BY <1>2, <2>1
    <3> QED
      BY <1>6, <2>1, <3>1
  <2>2. CASE ~(k <= c)
    <3>1. k = c + 1
      BY <1>2, <2>2
    <3> QED
      BY <1>7, <2>2, <3>1
  <2> QED
    BY <2>1, <2>2
<1> QED
  BY <1>8, <1>11, <1>12 DEF T

\* Without the first position the first element is gone.
LEMMA ElementsTail ==
  ASSUME NEW S \in SUBSET Nat, IsFiniteSet(S), NEW m \in S, \A i \in S : m <= i, NEW q
  PROVE  Elements(q, S) # << >> /\ Elements(q, S \ {m}) = Tail(Elements(q, S))
<1> DEFINE T == S \ {m}
           c == Cardinality(T)
<1>1. T \in SUBSET Nat /\ m \notin T /\ S = T \cup {m}
  OBVIOUS
<1>2. IsFiniteSet(T) /\ c \in Nat /\ Cardinality(S) = c + 1
  <2>1. IsFiniteSet(T)
    BY FS_RemoveElement
  <2> HIDE DEF T
  <2> QED
    BY <1>1, <2>1, FS_AddElement, FS_CardinalityType
<1>3. \A i \in T : Rank(S, i) = Rank(T, i) + 1
  <2> SUFFICES ASSUME NEW i \in T PROVE Rank(S, i) = Rank(T, i) + 1
    OBVIOUS
  <2> DEFINE A == {j \in T : j <= i}
  <2>1. {j \in S : j <= i} = A \cup {m} /\ m \notin A /\ A \in SUBSET T
    OBVIOUS
  <2>2. Cardinality(A \cup {m}) = Cardinality(A) + 1
    <3> HIDE DEF A
    <3> QED
      BY <1>2, <2>1, FS_Subset, FS_AddElement
  <2> QED
    BY <2>1, <2>2 DEF Rank
<1>4. \A i \in S : Nth(S, Rank(S, i)) = i
  BY Ranks
<1>5. \A k \in 1 .. c : Nth(S, k + 1) = Nth(T, k)
  <2> SUFFICES ASSUME NEW k \in 1 .. c PROVE Nth(S, k + 1) = Nth(T, k)
    OBVIOUS
  <2>1. Nth(T, k) \in T /\ Rank(T, Nth(T, k)) = k
    <3> HIDE DEF T
    <3> QED
      BY <1>1, <1>2, Ranks
  <2> QED
    BY <1>3, <1>4, <2>1
<1>6. Elements(q, T) = [k \in 1 .. c |-> q[Nth(T, k)]]
  BY DEF Elements
<1>7. Elements(q, S) = [k \in 1 .. c + 1 |-> q[Nth(S, k)]]
  BY <1>2 DEF Elements
<1> HIDE DEF T, c
<1>8. Len(Elements(q, S)) = c + 1
  BY <1>2, <1>7
<1>9. Tail(Elements(q, S)) = [k \in 1 .. c |-> Elements(q, S)[k + 1]]
  <2>1. PICK s : s = Elements(q, S)
    OBVIOUS
  <2>2. s = [k \in 1 .. c + 1 |-> q[Nth(S, k)]] /\ Len(s) = c + 1
    BY <1>7, <1>8, <2>1
  <2>3. s \in Seq({q[Nth(S, k)] : k \in 1 .. c + 1})
    BY <1>2, <2>2
  <2>4. Tail(s) = [k \in 1 .. c |-> s[k + 1]]
    BY <1>2, <2>2, <2>3, HeadTailProperties
  <2> QED
    BY <2>1, <2>4
<1>10. \A k \in 1 .. c : Elements(q, S)[k + 1] = q[Nth(T, k)]
  BY <1>2, <1>5, <1>7
<1>11. Elements(q, S) # << >>
  BY <1>2, <1>8
<1> QED
  BY <1>6, <1>9, <1>10, <1>11 DEF T
\* The same elements in the same order, at other positions.
LEMMA ElementsMoved ==
  ASSUME NEW S \in SUBSET Nat, IsFiniteSet(S), NEW T \in SUBSET Nat, NEW f \in [S -> T],
         \A j \in T : \E i \in S : f[i] = j,
         \A i, j \in S : i < j => f[i] < f[j],
         NEW q, NEW p, \A i \in S : p[f[i]] = q[i]
  PROVE  Elements(p, T) = Elements(q, S)
<1>1. /\ Cardinality(T) = Cardinality(S)
      /\ \A k \in 1 .. Cardinality(S) : Nth(T, k) = f[Nth(S, k)]
  BY SameShape
<1>2. \A k \in 1 .. Cardinality(S) : Nth(S, k) \in S
  BY Ranks
<1>3. \A k \in 1 .. Cardinality(S) : p[Nth(T, k)] = q[Nth(S, k)]
  BY <1>1, <1>2
<1> QED
  BY <1>1, <1>3 DEF Elements
-----------------------------------------------------------------------------
(***************************************************************************)
(* The one queue is a mailbox per task.                                    *)
(***************************************************************************)

LEMMA MailPositions ==
  ASSUME TypeOK, NEW t
  PROVE  MailOf(t) \in SUBSET Nat /\ IsFiniteSet(MailOf(t))
<1>1. Len(osal_qHead) \in Nat
  BY DEF TypeOK
<1>2. IsFiniteSet(1 .. Len(osal_qHead)) /\ 1 .. Len(osal_qHead) \in SUBSET Nat
  BY <1>1, FS_Interval
<1>3. MailOf(t) \in SUBSET (1 .. Len(osal_qHead))
  BY DEF MailOf
<1> QED
  BY <1>2, <1>3, FS_Subset

\* A send appends to the mailbox of the receiver.
LEMMA SendPuts ==
  ASSUME IInv, NEW b \in Bufs, NEW t \in Tasks, b \notin Queued, Enqueue(b, t)
  PROVE  Mail(t)' = Append(Mail(t), b) /\ \A u \in Tasks : u # t => Mail(u)' = Mail(u)
<1> DEFINE n == Len(osal_qHead)
<1>1. /\ n \in Nat /\ Len(osal_qHead') = n + 1 /\ osal_qHead'[n + 1] = b
      /\ \A i \in 1 .. n : osal_qHead'[i] = osal_qHead[i] /\ osal_qHead[i] \in Bufs /\ osal_qHead[i] # b
  BY DEF IInv, TypeOK, Enqueue, Queued
<1>2. destId'[b] = t /\ \A c \in Bufs : c # b => destId'[c] = destId[c]
  BY DEF IInv, TypeOK, Enqueue
<1>3. MailOf(t)' = MailOf(t) \cup {n + 1}
  <2>1. ASSUME NEW i \in 1 .. n + 1
        PROVE  destId'[osal_qHead'[i]] = t <=> i = n + 1 \/ (i \in 1 .. n /\ destId[osal_qHead[i]] = t)
    <3>1. CASE i = n + 1
      BY <1>1, <1>2, <3>1
    <3>2. CASE i \in 1 .. n
      BY <1>1, <1>2, <3>2
    <3> QED
      BY <1>1, <3>1, <3>2
  <2>2. MailOf(t)' = {i \in 1 .. n + 1 : destId'[osal_qHead'[i]] = t}
    BY <1>1 DEF MailOf
  <2>3. MailOf(t) = {i \in 1 .. n : destId[osal_qHead[i]] = t}
    BY DEF MailOf
  <2>4. 1 .. n + 1 = (1 .. n) \cup {n + 1} /\ n + 1 \notin 1 .. n
    BY <1>1
  <2> HIDE DEF n
  <2> QED
    BY <2>1, <2>2, <2>3, <2>4
<1>4. ASSUME NEW u \in Tasks, u # t PROVE MailOf(u)' = MailOf(u)
  <2>1. \A i \in 1 .. n : destId'[osal_qHead'[i]] = destId[osal_qHead[i]]
    BY <1>1, <1>2
  <2>2. destId'[osal_qHead'[n + 1]] # u
    BY <1>1, <1>2, <1>4
  <2>3. 1 .. n + 1 = (1 .. n) \cup {n + 1}
    BY <1>1
  <2>4. MailOf(u)' = {i \in 1 .. n + 1 : destId'[osal_qHead'[i]] = u}
    BY <1>1 DEF MailOf
  <2>5. MailOf(u) = {i \in 1 .. n : destId[osal_qHead[i]] = u}
    BY DEF MailOf
  <2> HIDE DEF n
  <2> QED
    BY <2>1, <2>2, <2>3, <2>4, <2>5
<1>5. \A u : MailOf(u) \in SUBSET Nat /\ IsFiniteSet(MailOf(u)) /\ MailOf(u) \in SUBSET (1 .. n)
  BY MailPositions DEF IInv, MailOf
<1>6. Mail(t)' = Append(Mail(t), b)
  <2>1. PICK q : q = osal_qHead
    OBVIOUS
  <2>2. PICK p : p = osal_qHead'
    OBVIOUS
  <2>3. PICK S : S = MailOf(t)
    OBVIOUS
  <2>4. PICK k : k = n + 1
    OBVIOUS
  <2>5. k \in Nat /\ S \in SUBSET Nat /\ IsFiniteSet(S)
    BY <1>1, <1>5, <2>3, <2>4
  <2>6. \A i \in S : i < k
    BY <1>1, <1>5, <2>3, <2>4
  <2>7. \A i \in S : p[i] = q[i]
    <3>1. S \in SUBSET (1 .. n)
      BY <1>5, <2>3
    <3> QED
      BY <1>1, <2>1, <2>2, <3>1
  <2>8. Elements(p, S \cup {k}) = Append(Elements(p, S), p[k])
    BY <2>5, <2>6, ElementsAppend
  <2>9. Elements(p, S) = Elements(q, S)
    BY <2>5, <2>7, ElementsSame
  <2>10. MailOf(t)' = S \cup {k} /\ p[k] = b
    BY <1>1, <1>3, <2>2, <2>3, <2>4
  <2> QED
    BY <2>1, <2>2, <2>3, <2>8, <2>9, <2>10 DEF Mail
<1>7. ASSUME NEW u \in Tasks, u # t PROVE Mail(u)' = Mail(u)
  <2>1. \A i \in MailOf(u) : osal_qHead'[i] = osal_qHead[i]
    BY <1>1, <1>5
  <2>2. Elements(osal_qHead', MailOf(u)) = Elements(osal_qHead, MailOf(u))
    BY <1>5, <2>1, ElementsSame
  <2> QED
    BY <1>4, <1>7, <2>2 DEF Mail
<1> QED
  BY <1>6, <1>7

\* A receive takes the first message out of the task's mailbox.
LEMMA ReceiveTakes ==
  ASSUME IInv, NEW t \in Tasks, t = idx, ReceiveFound
  PROVE  /\ Mail(t) # << >> /\ Mail(t)' = Tail(Mail(t))
         /\ \A u \in Tasks : u # t => Mail(u)' = Mail(u)
<1> DEFINE n == Len(osal_qHead)
<1>1. PICK m \in MailOf(t) :
        /\ \A j \in MailOf(t) : m <= j
        /\ osal_qHead' = Extract(osal_qHead, m)
        /\ destId' = [destId EXCEPT ![osal_qHead[m]] = TaskNoTask]
  BY DEF ReceiveFound
<1>2. /\ m \in 1 .. n /\ n \in Nat
      /\ \A k \in 1 .. n : osal_qHead[k] \in Bufs
      /\ \A j, k \in 1 .. n : osal_qHead[j] = osal_qHead[k] => j = k
      /\ destId \in [Bufs -> Tasks \cup {TaskNoTask}]
  <2>1. osal_qHead \in Seq(Bufs) /\ destId \in [Bufs -> Tasks \cup {TaskNoTask}]
    BY DEF IInv, TypeOK
  <2>2. n \in Nat /\ \A k \in 1 .. n : osal_qHead[k] \in Bufs
    BY <2>1
  <2>3. \A j, k \in 1 .. n : osal_qHead[j] = osal_qHead[k] => j = k
    BY DEF IInv, BufferOwnership
  <2>4. m \in 1 .. n
    BY <1>1 DEF MailOf
  <2> QED
    BY <2>1, <2>2, <2>3, <2>4
<1>3. /\ Len(osal_qHead') = n - 1
      /\ \A k \in 1 .. n - 1 : osal_qHead'[k] = IF k < m THEN osal_qHead[k] ELSE osal_qHead[k + 1]
  <2>1. Len(Extract(osal_qHead, m)) = n - 1
    BY <1>2 DEF Extract
  <2>2. \A k \in 1 .. n - 1 : Extract(osal_qHead, m)[k] = IF k < m THEN osal_qHead[k] ELSE osal_qHead[k + 1]
    BY DEF Extract
  <2> QED
    BY <1>1, <2>1, <2>2
<1>4. \A k \in 1 .. n : k # m => destId'[osal_qHead[k]] = destId[osal_qHead[k]]
  BY <1>1, <1>2
<1>5. ASSUME NEW u \in Tasks
      PROVE  Mail(u)' = Elements(osal_qHead, MailOf(u) \ {m})
  <2> DEFINE S == MailOf(u) \ {m}
             T == MailOf(u)'
             f == [j \in S |-> IF j < m THEN j ELSE j - 1]
  <2>1. S \in SUBSET Nat /\ IsFiniteSet(S)
    <3>1. MailOf(u) \in SUBSET Nat /\ IsFiniteSet(MailOf(u))
      BY MailPositions DEF IInv
    <3> QED
      BY <3>1, FS_RemoveElement
  <2>2. S = {j \in 1 .. n : j # m /\ destId[osal_qHead[j]] = u}
    BY DEF MailOf
  <2>3. T = {j \in 1 .. n - 1 : destId'[osal_qHead'[j]] = u}
    BY <1>3 DEF MailOf
  <2>4. \A j \in S : f[j] \in T /\ osal_qHead'[f[j]] = osal_qHead[j]
    <3> SUFFICES ASSUME NEW j \in S PROVE f[j] \in T /\ osal_qHead'[f[j]] = osal_qHead[j]
      OBVIOUS
    <3>1. j \in 1 .. n /\ j # m /\ destId[osal_qHead[j]] = u /\ destId'[osal_qHead[j]] = u
      BY <1>4, <2>2
    <3>2. CASE j < m
      <4>1. f[j] = j /\ j \in 1 .. n - 1 /\ osal_qHead'[j] = osal_qHead[j]
        BY <1>2, <1>3, <3>1, <3>2
      <4> HIDE DEF S, T, f, n
      <4> QED
        BY <2>3, <3>1, <4>1
    <3>3. CASE ~(j < m)
      <4>1. j - 1 \in 1 .. n - 1 /\ ~(j - 1 < m) /\ (j - 1) + 1 = j
        BY <1>2, <3>1, <3>3
      <4>2. f[j] = j - 1 /\ osal_qHead'[j - 1] = osal_qHead[j]
        BY <1>3, <3>3, <4>1
      <4> HIDE DEF S, T, f, n
      <4> QED
        BY <2>3, <3>1, <4>1, <4>2
    <3> QED
      BY <3>2, <3>3
  <2>5. \A k \in T : \E j \in S : f[j] = k
    <3> SUFFICES ASSUME NEW k \in T PROVE \E j \in S : f[j] = k
      OBVIOUS
    <3>1. k \in 1 .. n - 1 /\ destId'[osal_qHead'[k]] = u
      BY <2>3
    <3>2. CASE k < m
      <4>1. k \in 1 .. n /\ k # m /\ osal_qHead'[k] = osal_qHead[k]
        BY <1>2, <1>3, <3>1, <3>2
      <4>2. k \in S
        BY <1>4, <2>2, <3>1, <4>1
      <4> QED
        BY <3>2, <4>2
    <3>3. CASE ~(k < m)
      <4>1. k + 1 \in 1 .. n /\ k + 1 # m /\ osal_qHead'[k] = osal_qHead[k + 1]
        BY <1>2, <1>3, <3>1, <3>3
      <4>2. k + 1 \in S
        BY <1>4, <2>2, <3>1, <4>1
      <4>3. ~(k + 1 < m) /\ (k + 1) - 1 = k
        BY <1>2, <3>1, <3>3
      <4> QED
        BY <4>2, <4>3
    <3> QED
      BY <3>2, <3>3
  <2>6. \A i, j \in S : i < j => f[i] < f[j]
    <3> SUFFICES ASSUME NEW i \in S, NEW j \in S, i < j PROVE f[i] < f[j]
      OBVIOUS
    <3>1. i \in 1 .. n /\ j \in 1 .. n /\ i # m /\ j # m
      BY <2>2
    <3> QED
      BY <1>2, <3>1
  <2>7. f \in [S -> T] /\ T \in SUBSET Nat
    <3>1. \A j \in S : f[j] \in T
      BY <2>4
    <3>2. f = [j \in S |-> f[j]]
      OBVIOUS
    <3>3. T \in SUBSET (1 .. n - 1)
      BY <2>3
    <3>4. 1 .. n - 1 \in SUBSET Nat
      BY <1>2
    <3> HIDE DEF S, T, f, n
    <3> QED
      BY <3>1, <3>2, <3>3, <3>4
  <2>8. Elements(osal_qHead', T) = Elements(osal_qHead, S)
    <3> HIDE DEF S, T, f, n
    <3> QED
      BY <2>1, <2>4, <2>5, <2>6, <2>7, ElementsMoved
  <2> QED
    BY <2>8 DEF Mail
<1>6. Mail(t) # << >> /\ Mail(t)' = Tail(Mail(t))
  <2>1. PICK S : S = MailOf(t)
    OBVIOUS
  <2>2. PICK q : q = osal_qHead
    OBVIOUS
  <2>3. S \in SUBSET Nat /\ IsFiniteSet(S)
    BY <2>1, MailPositions DEF IInv
  <2>4. m \in S /\ \A j \in S : m <= j
    BY <1>1, <2>1
  <2>5. Elements(q, S) # << >> /\ Elements(q, S \ {m}) = Tail(Elements(q, S))
    BY <2>3, <2>4, ElementsTail
  <2>6. Mail(t) = Elements(q, S)
    BY <2>1, <2>2 DEF Mail
  <2>7. Mail(t)' = Elements(q, S \ {m})
    BY <1>5, <2>1, <2>2
  <2> QED
    BY <2>5, <2>6, <2>7
<1>7. ASSUME NEW u \in Tasks, u # t PROVE Mail(u)' = Mail(u)
  <2>1. m \notin MailOf(u)
    BY <1>1, <1>7 DEF MailOf
  <2>2. MailOf(u) \ {m} = MailOf(u)
    BY <2>1
  <2> QED
    BY <1>5, <2>2 DEF Mail
<1> QED
  BY <1>6, <1>7

\* What leaves the queue and the addresses of its messages alone leaves the
\* mailboxes alone.
LEMMA MailStays ==
  ASSUME TypeOK, osal_qHead' = osal_qHead, \A b \in Queued : destId'[b] = destId[b], NEW t
  PROVE  Mail(t)' = Mail(t)
<1>1. \A i \in 1 .. Len(osal_qHead) : destId'[osal_qHead[i]] = destId[osal_qHead[i]]
  BY DEF Queued
<1>2. MailOf(t)' = MailOf(t)
  BY <1>1 DEF MailOf
<1> QED
  BY <1>2 DEF Mail
\* Every step of the kernel is a step of the mailboxes, or none of theirs.
LEMMA StepMailbox ==
  ASSUME IInv, [Next]_vars
  PROVE  [MailboxOf!Next]_([t \in Tasks |-> Mail(t)])
<1> DEFINE mails == [t \in Tasks |-> Mail(t)]
<1>1. ASSUME \A t \in Tasks : Mail(t)' = Mail(t)
      PROVE  mails' = mails
  BY <1>1
<1>2. ASSUME osal_qHead' = osal_qHead, \A b \in Queued : destId'[b] = destId[b]
      PROVE  mails' = mails
  BY <1>1, <1>2, MailStays DEF IInv
<1>3. ASSUME NEW b \in Bufs, NEW t \in Tasks, b \notin Queued, Enqueue(b, t)
      PROVE  MailboxOf!Next
  <2>1. Mail(t)' = Append(Mail(t), b) /\ \A u \in Tasks : u # t => Mail(u)' = Mail(u)
    BY <1>3, SendPuts
  <2>2. mails' = [mails EXCEPT ![t] = Append(@, b)]
    BY <2>1
  <2>3. ASSUME NEW u \in Tasks, NEW i \in DOMAIN mails[u] PROVE mails[u][i] # b
    <3>1. MailOf(u) \in SUBSET Nat /\ IsFiniteSet(MailOf(u))
      BY MailPositions DEF IInv
    <3>2. i \in 1 .. Cardinality(MailOf(u)) /\ mails[u][i] = osal_qHead[Nth(MailOf(u), i)]
      BY <2>3 DEF Mail, Elements
    <3>3. Nth(MailOf(u), i) \in MailOf(u)
      BY <3>1, <3>2, Ranks
    <3>4. osal_qHead[Nth(MailOf(u), i)] \in Queued
      BY <3>3 DEF MailOf, Queued
    <3> QED
      BY <1>3, <3>2, <3>4
  <2>4. MailboxOf!Put(t, b)
    BY <2>2, <2>3 DEF MailboxOf!Put
  <2> QED
    BY <2>4 DEF MailboxOf!Next
<1>4. ASSUME ReceiveFound
      PROVE  MailboxOf!Next
  <2>1. PICK t \in Tasks : t = idx
    BY DEF IInv, TypeOK
  <2>2. /\ Mail(t) # << >> /\ Mail(t)' = Tail(Mail(t))
        /\ \A u \in Tasks : u # t => Mail(u)' = Mail(u)
    BY <1>4, <2>1, ReceiveTakes
  <2>3. mails' = [mails EXCEPT ![t] = Tail(@)] /\ mails[t] # << >>
    BY <2>2
  <2>4. MailboxOf!Take(t)
    BY <2>3 DEF MailboxOf!Take
  <2> QED
    BY <2>4 DEF MailboxOf!Next
<1>5. ASSUME NEW b \in Bufs, NEW t \in Tasks, Send(b, t)
      PROVE  MailboxOf!Next
  <2>1. b \notin Queued /\ Enqueue(b, t)
    BY <1>5 DEF Send, IInv, BufferOwnership
  <2> QED
    BY <1>3, <2>1
<1>6. ASSUME NEW b \in Bufs, IsrSend(b, MacTask)
      PROVE  MailboxOf!Next
  <2>1. b \notin Queued /\ Enqueue(b, MacTask) /\ MacTask \in Tasks
    BY <1>6 DEF IsrSend, IInv, BufferOwnership, MacTask, Tasks
  <2> QED
    BY <1>3, <2>1
<1>7. ASSUME NEW b \in Bufs, Allocate(b)
      PROVE  mails' = mails
  <2>1. osal_qHead' = osal_qHead /\ \A c \in Bufs : c # b => destId'[c] = destId[c]
    BY <1>7 DEF Allocate, IInv, TypeOK
  <2>2. b \notin Queued /\ Queued \in SUBSET Bufs
    BY <1>7 DEF Allocate, IInv, BufferOwnership, TypeOK, Queued
  <2> QED
    BY <1>2, <2>1, <2>2
<1>8. ASSUME NEW b \in Bufs, Deallocate(b) \/ SendNoTask(b)
      PROVE  mails' = mails
  <2>1. osal_qHead' = osal_qHead /\ destId' = destId
    BY <1>8 DEF Deallocate, SendNoTask
  <2> QED
    BY <1>2, <2>1
<1>9. ASSUME NEW t \in Tasks, NEW e \in Flags, TaskSetEvent(t, e) \/ IsrSetEvent(t, e)
      PROVE  mails' = mails
  <2>1. osal_qHead' = osal_qHead /\ destId' = destId
    BY <1>9 DEF TaskSetEvent, IsrSetEvent, queueVars
  <2> QED
    BY <1>2, <2>1
<1>10. ASSUME \/ PollDone \/ Scan \/ Fetch \/ AddBack \/ DispatchMsg \/ DispatchUnknown
              \/ ReceiveNone \/ NextMessage \/ ReturnAfterOne \/ ReturnFlag \/ Signal
              \/ UNCHANGED vars
       PROVE  mails' = mails
  <2>1. osal_qHead' = osal_qHead /\ destId' = destId
    BY <1>10 DEF PollDone, Scan, Fetch, AddBack, DispatchMsg, DispatchUnknown, ReceiveNone,
         NextMessage, ReturnAfterOne, ReturnFlag, Signal, vars, queueVars
  <2> QED
    BY <1>2, <2>1
<1>11. ASSUME NEW e \in Flags, DispatchFlag(e) \/ TaskClearEvent(e)
       PROVE  mails' = mails
  <2>1. osal_qHead' = osal_qHead /\ destId' = destId
    BY <1>11 DEF DispatchFlag, TaskClearEvent, queueVars
  <2> QED
    BY <1>2, <2>1
<1> HIDE DEF mails
<1>12. KernelCall => MailboxOf!Next \/ mails' = mails
  BY <1>5, <1>7, <1>8, <1>9, <1>11 DEF KernelCall
<1>13. RunLoop => MailboxOf!Next \/ mails' = mails
  BY <1>4, <1>10, <1>11, <1>12 DEF RunLoop
<1>14. Interrupt => MailboxOf!Next \/ mails' = mails
  BY <1>6, <1>9 DEF Interrupt
<1>15. MailboxOf!Next \/ mails' = mails
  BY <1>10, <1>13, <1>14 DEF Next
<1> QED
  BY <1>15 DEF mails

\* The queue that all tasks share is a mailbox per task: a message sent is
\* appended to its receiver's and to no other, and a task takes its oldest.
THEOREM QueueImplementsMailbox == Spec => ImplementsMailbox
<1>1. Init => MailboxOf!Init
  <2> SUFFICES ASSUME Init PROVE [t \in Tasks |-> Mail(t)] = [t \in Tasks |-> << >>]
    BY DEF MailboxOf!Init
  <2>1. ASSUME NEW t \in Tasks PROVE Mail(t) = << >>
    <3>1. MailOf(t) = {}
      BY DEF Init, MailOf
    <3>2. Cardinality(MailOf(t)) = 0
      BY <3>1, FS_EmptySet
    <3> QED
      BY <3>2 DEF Mail, Elements
  <2> QED
    BY <2>1
<1>2. IInv /\ [Next]_vars => [MailboxOf!Next]_([t \in Tasks |-> Mail(t)])
  BY StepMailbox
<1> QED
  BY <1>1, <1>2, Inductive, PTL DEF Spec, ImplementsMailbox, MailboxOf!Spec

-----------------------------------------------------------------------------
(* The heap: its inductive invariant.                                       *)

\* The blocks follow each other, without a gap, from the first to the last.
Tiling ==
  /\ len \in [Blocks -> Nat \ {0}] /\ Blocks \subseteq 0..LastBlk /\ LastBlk \notin Blocks
  /\ inUse \subseteq Blocks
  /\ \A a \in Blocks : a + len[a] \in Blocks \cup {LastBlk}
  /\ \A a, b \in Blocks : a < b => a + len[a] <= b
  /\ Wall \in inUse /\ len[Wall] = HdrSz
  /\ \A a \in Blocks : a # Wall => HdrSz < len[a]

Small ==
  /\ ff1 \in Blocks /\ ff1 <= Wall
  /\ osalMemStat \in 0..1
  /\ osalMemStat = 0 => ff1 = 0
  /\ Ff1IsFirst

\* The block osal_mem_kick gets is the first free one, and in the bucket.
Kicking ==
  /\ kick \in BOOLEAN
  /\ kick => /\ osalMemStat = 0
             /\ at \in {"search", "take", "kick"}
             /\ at = "search" => coal = 0 /\ size = HdrSz + 1 /\ BucketHasRoom
             /\ at = "take" => hdr < Wall
             /\ \A a \in FreeBlocks : hdr <= a
  /\ at = "kick" => kick /\ hdr \in inUse /\ hdr < Wall

\* No block the search has passed could have been taken.
Passed ==
  \A a \in FreeBlocks : From(size) <= a =>
    /\ at = "search" /\ a < hdr =>
         len[a] < size /\ (a + len[a] \in inUse \/ (coal = 1 /\ a = prev))
    /\ at = "null" => len[a] < size /\ a + len[a] \in inUse \cup {LastBlk}

Searching ==
  /\ at \in {"idle", "search", "take", "null", "kick"}
  /\ size \in Nat /\ coal \in 0..1
  /\ at \in {"search", "take"} => hdr \in Blocks /\ HdrSz < size
  /\ at = "search" /\ coal = 1 => prev \in FreeBlocks /\ prev + len[prev] = hdr
  /\ at = "take" => hdr \notin inUse /\ size <= len[hdr]
  /\ Passed

HeapInv == Tiling /\ Small /\ Kicking /\ Searching

USE HeapAssumption

-----------------------------------------------------------------------------
\* The fixed blocks.
LEMMA Fixed ==
  /\ Wall \in Nat /\ HdrSz < Wall
  /\ BigBlk \in Nat /\ BigBlk = Wall + HdrSz
  /\ LastBlk \in Nat /\ HdrSz < LastBlk - BigBlk
BY DEF Wall, BigBlk, LastBlk

USE Fixed

\* osal_mem_init sets up three blocks.
LEMMA HeapInitInv == osal_mem_init => HeapInv
<1> SUFFICES ASSUME osal_mem_init PROVE HeapInv
  OBVIOUS
<1> USE DEF osal_mem_init, Blocks, FreeBlocks
<1>1. Blocks = {0, Wall, BigBlk} /\ inUse = {Wall}
  OBVIOUS
<1>2. len[0] = Wall /\ len[Wall] = HdrSz /\ len[BigBlk] = LastBlk - BigBlk
  BY DEF Wall
<1>3. len \in [Blocks -> Nat \ {0}]
  <2>1. \A a \in Blocks : len[a] \in Nat \ {0}
    BY <1>1, <1>2
  <2> QED BY <2>1
<1>4. Tiling
  <2> HIDE DEF osal_mem_init, Blocks
  <2> QED BY <1>1, <1>2, <1>3 DEF Tiling
<1>5. Small /\ Kicking
  <2>1. FreeBlocks \subseteq Nat /\ ff1 = 0 /\ 0 \in Blocks
    BY <1>1
  <2>2. Small
    <3> HIDE DEF Blocks, FreeBlocks
    <3> QED BY <2>1 DEF Small, Ff1IsFirst
  <2>3. Kicking
    BY DEF Kicking
  <2> QED BY <2>2, <2>3
<1>6. Searching
  BY DEF Searching, Passed
<1> QED BY <1>4, <1>5, <1>6 DEF HeapInv

LEMMA RequestStep ==
  ASSUME HeapInv, NEW n \in Nat \ {0}, NEW kicking \in BOOLEAN, Request(n, kicking),
         kicking => n = 1 /\ osalMemStat = 0 /\ BucketHasRoom
  PROVE  HeapInv'
<1> USE DEF HeapInv, Request, Blocks, FreeBlocks
<1>1. Tiling' /\ Small'
  BY DEF Tiling, Small, Ff1IsFirst
<1>2. BigBlk \in Blocks
  BY DEF Tiling, Wall, BigBlk, LastBlk
<1>3. hdr' \in Blocks /\ (osalMemStat = 0 => hdr' = ff1)
  BY <1>2 DEF Small, From
<1>4. Kicking'
  BY <1>3 DEF Kicking, Small, Ff1IsFirst, BucketHasRoom
<1>5. From(size)' = hdr'
  BY DEF From
<1>6. Passed'
  BY <1>1, <1>3, <1>5 DEF Passed, Tiling
<1>7. Searching'
  BY <1>3, <1>6 DEF Searching
<1> QED BY <1>1, <1>4, <1>7

LEMMA PassUsedStep == HeapInv /\ PassUsed => HeapInv'
<1> SUFFICES ASSUME HeapInv, PassUsed PROVE HeapInv'
  OBVIOUS
<1> USE DEF HeapInv, PassUsed, Advance, Blocks, FreeBlocks
<1>1. Tiling' /\ Small'
  BY DEF Tiling, Small, Ff1IsFirst
<1>2. hdr \in Blocks /\ hdr + len[hdr] \in Blocks \cup {LastBlk} /\ len[hdr] \in Nat \ {0} /\ Blocks \subseteq Nat
  BY DEF Searching, Tiling
<1>3. \A a \in Blocks : hdr < a => hdr + len[hdr] <= a
  BY <1>2 DEF Tiling
<1>4. From(size)' = From(size)
  BY DEF From
<1>5. Kicking'
  <2>1. kick => at' = "search"
    BY <1>2, <1>3 DEF Kicking, BucketHasRoom, Tiling
  <2>2. kick => \A a \in FreeBlocks : hdr' <= a
    BY <2>1, <1>2, <1>3 DEF Kicking
  <2> QED BY <2>1, <2>2 DEF Kicking, BucketHasRoom
<1>6. Passed'
  <2> SUFFICES ASSUME NEW a \in FreeBlocks, From(size) <= a
               PROVE  /\ at' = "search" /\ a < hdr' =>
                           len[a] < size /\ a + len[a] \in inUse
                      /\ at' = "null" => len[a] < size /\ a + len[a] \in inUse \cup {LastBlk}
    BY <1>4 DEF Passed
  <2>1. CASE a < hdr
    BY <2>1 DEF Passed, Searching
  <2>2. CASE hdr <= a
    <3>1. hdr < a /\ a < LastBlk
      <4>1. a \in Blocks /\ a \notin inUse /\ hdr \in inUse
        OBVIOUS
      <4>2. a \in 0..LastBlk /\ a # LastBlk /\ a # hdr
        BY <4>1 DEF Tiling
      <4> QED BY <4>2, <2>2, <1>2
    <3>2. hdr + len[hdr] <= a
      BY <3>1, <1>3
    <3> QED BY <1>2, <3>1, <3>2
  <2> QED BY <2>1, <2>2, <1>2
<1>7. Searching'
  BY <1>2, <1>6 DEF Searching
<1> QED BY <1>1, <1>5, <1>7

LEMMA PassFreeStep == HeapInv /\ PassFree => HeapInv'
<1> SUFFICES ASSUME HeapInv, PassFree PROVE HeapInv'
  OBVIOUS
<1> USE DEF HeapInv, PassFree, Advance, Blocks, FreeBlocks
<1>1. Tiling' /\ Small'
  BY DEF Tiling, Small, Ff1IsFirst
<1>2. hdr \in FreeBlocks /\ hdr + len[hdr] \in Blocks \cup {LastBlk} /\ len[hdr] \in Nat \ {0} /\ Blocks \subseteq Nat
  BY DEF Searching, Tiling
<1>3. \A a \in Blocks : hdr < a => hdr + len[hdr] <= a
  BY <1>2 DEF Tiling
<1>4. From(size)' = From(size)
  BY DEF From
<1>5. Kicking'
  <2>1. kick => hdr < Wall /\ HdrSz < len[hdr]
    BY <1>2 DEF Kicking, BucketHasRoom, Tiling, Wall
  <2>2. kick => at' = "take"
    BY <2>1, <1>2 DEF Kicking, Searching
  <2> QED BY <2>1, <2>2 DEF Kicking, BucketHasRoom
<1>6. Passed'
  <2>1. CASE at' = "take"
    BY <2>1 DEF Passed
  <2>2. CASE at' # "take"
    <3>1. len[hdr] < size /\ coal' = 1 /\ prev' = hdr
      BY <2>2, <1>2 DEF Searching
    <3> SUFFICES ASSUME NEW a \in FreeBlocks, From(size) <= a
                 PROVE  /\ at' = "search" /\ a < hdr' =>
                             len[a] < size /\ (a + len[a] \in inUse \/ a = hdr)
                        /\ at' = "null" => len[a] < size /\ a + len[a] \in inUse \cup {LastBlk}
      BY <1>4, <3>1 DEF Passed
    <3>2. CASE a < hdr
      BY <3>2 DEF Passed, Searching
    <3>3. CASE a = hdr
      BY <3>3, <3>1, <2>2
    <3>4. CASE hdr < a
      <4>1. hdr + len[hdr] <= a /\ a < LastBlk
        BY <3>4, <1>3 DEF Tiling
      <4> QED BY <4>1, <1>2, <2>2
    <3> QED BY <3>2, <3>3, <3>4, <1>2
  <2> QED BY <2>1, <2>2
<1>7. Searching'
  BY <1>2, <1>6 DEF Searching
<1> QED BY <1>1, <1>5, <1>7

\* Of the merged blocks only the second one goes.
LEMMA CoalesceStep == HeapInv /\ Coalesce => HeapInv'
<1> SUFFICES ASSUME HeapInv, Coalesce PROVE HeapInv'
  OBVIOUS
<1> USE DEF HeapInv, Coalesce, Advance, Blocks, FreeBlocks
<1>1. /\ hdr \in FreeBlocks /\ prev \in FreeBlocks /\ prev + len[prev] = hdr
      /\ hdr + len[hdr] \in Blocks \cup {LastBlk}
      /\ Blocks \subseteq Nat /\ \A a \in Blocks : len[a] \in Nat \ {0}
  BY DEF Searching, Tiling
<1>2. \A a, b \in Blocks : a < b => a + len[a] <= b
  BY DEF Tiling
<1>3. Blocks' = Blocks \ {hdr} /\ FreeBlocks' = FreeBlocks \ {hdr}
  OBVIOUS
<1>4. \A a \in Blocks' : len'[a] = len[a] + (IF a = prev THEN len[hdr] ELSE 0)
  OBVIOUS
<1>5. len'[prev] = len[prev] + len[hdr] /\ \A a \in Blocks' \ {prev} : len'[a] = len[a]
  BY <1>1, <1>3, <1>4
<1>6. prev < hdr /\ hdr < hdr + len[hdr] /\ prev + len'[prev] = hdr + len[hdr]
  BY <1>1, <1>5
<1>7. ~kick
  BY DEF Kicking
<1>8. Tiling'
  <2>1. len' \in [Blocks' -> Nat \ {0}]
    <3>1. \A a \in Blocks' : len'[a] \in Nat \ {0}
      BY <1>1, <1>3, <1>5
    <3> QED BY <3>1
  <2>2. Blocks' \subseteq 0..LastBlk /\ LastBlk \notin Blocks' /\ inUse' \subseteq Blocks'
    BY <1>1, <1>3 DEF Tiling
  <2>3. \A a \in Blocks' : a + len'[a] \in Blocks' \cup {LastBlk}
    <3> SUFFICES ASSUME NEW a \in Blocks' PROVE a + len'[a] \in Blocks' \cup {LastBlk}
      OBVIOUS
    <3>1. CASE a = prev
      BY <3>1, <1>1, <1>3, <1>6
    <3>2. CASE a # prev
      <4>1. a + len[a] \in Blocks \cup {LastBlk} /\ len'[a] = len[a]
        BY <3>2, <1>3, <1>5 DEF Tiling
      <4>2. a + len[a] # hdr
        BY <3>2, <1>1, <1>2, <1>3
      <4> QED BY <4>1, <4>2, <1>3
    <3> QED BY <3>1, <3>2
  <2>4. \A a, b \in Blocks' : a < b => a + len'[a] <= b
    <3> SUFFICES ASSUME NEW a \in Blocks', NEW b \in Blocks', a < b PROVE a + len'[a] <= b
      OBVIOUS
    <3>1. CASE a = prev
      <4>1. hdr <= b
        BY <3>1, <1>1, <1>2, <1>3
      <4>2. hdr < b
        BY <4>1, <1>1, <1>3
      <4> QED BY <3>1, <4>2, <1>1, <1>2, <1>3, <1>6
    <3>2. CASE a # prev
      BY <3>2, <1>2, <1>3, <1>5
    <3> QED BY <3>1, <3>2
  <2>5. Wall \in inUse' /\ len'[Wall] = HdrSz
    BY <1>1, <1>3, <1>5 DEF Tiling
  <2>6. \A a \in Blocks' : a # Wall => HdrSz < len'[a]
    BY <1>1, <1>3, <1>5 DEF Tiling
  <2> QED BY <2>1, <2>2, <2>3, <2>4, <2>5, <2>6 DEF Tiling
<1>9. Small' /\ Kicking'
  <2>1. ff1 # hdr
    BY <1>1, <1>6 DEF Small, Ff1IsFirst
  <2> QED BY <2>1, <1>1, <1>3, <1>7 DEF Small, Ff1IsFirst, Kicking
<1>10. From(size)' = From(size)
  BY DEF From
<1>11. Passed'
  <2>1. CASE at' = "take"
    BY <2>1 DEF Passed
  <2>2. CASE at' # "take"
    <3>1. len'[prev] < size /\ coal' = 1 /\ prev' = prev /\ size \in Nat
      BY <2>2, <1>1, <1>5 DEF Searching
    <3> SUFFICES ASSUME NEW a \in FreeBlocks', From(size) <= a
                 PROVE  /\ at' = "search" /\ a < hdr' =>
                             len'[a] < size /\ (a + len'[a] \in inUse \/ a = prev)
                        /\ at' = "null" => len'[a] < size /\ a + len'[a] \in inUse \cup {LastBlk}
      BY <1>10, <3>1 DEF Passed
    <3>2. CASE a = prev
      BY <3>1, <3>2, <2>2, <1>6
    <3>3. CASE a # prev /\ a < hdr
      BY <3>3, <1>3, <1>5 DEF Passed, Searching
    <3>4. CASE hdr < a
      <4>1. hdr + len[hdr] <= a /\ a < LastBlk
        BY <3>4, <1>1, <1>2, <1>3 DEF Tiling
      <4> QED BY <4>1, <1>1, <2>2
    <3> QED BY <3>2, <3>3, <3>4, <1>1, <1>3
  <2> QED BY <2>1, <2>2
<1>12. Searching'
  <2>1. CASE at' = "take"
    BY <2>1, <1>1, <1>3, <1>5, <1>6, <1>11 DEF Searching
  <2>2. CASE at' # "take"
    <3>1. hdr' = hdr + len[hdr] \/ at' = "null"
      BY <2>2
    <3>2. at' = "search" => hdr' \in Blocks' /\ HdrSz < size
      BY <3>1, <2>2, <1>1, <1>3 DEF Searching
    <3>3. at' = "search" => prev \in FreeBlocks' /\ prev + len'[prev] = hdr'
      BY <2>2, <1>1, <1>3, <1>6
    <3> QED BY <2>2, <3>2, <3>3, <1>11 DEF Searching
  <2> QED BY <2>1, <2>2
<1> QED BY <1>8, <1>9, <1>12

-----------------------------------------------------------------------------
\* Taking a block, whole or split.
LEMMA TakeStep == HeapInv /\ Take => HeapInv'
<1> SUFFICES ASSUME HeapInv, Take PROVE HeapInv'
  OBVIOUS
<1> USE DEF HeapInv, Take, Blocks, FreeBlocks
<1> DEFINE rest == hdr + size
<1>1. /\ hdr \in FreeBlocks /\ HdrSz < size /\ size <= len[hdr] /\ size \in Nat
      /\ hdr + len[hdr] \in Blocks \cup {LastBlk}
      /\ Blocks \subseteq Nat /\ \A a \in Blocks : len[a] \in Nat \ {0}
  BY DEF Searching, Tiling
<1>2. \A a, b \in Blocks : a < b => a + len[a] <= b
  BY DEF Tiling
<1>3. hdr # Wall /\ hdr \in inUse' /\ inUse' = inUse \cup {hdr}
  BY <1>1 DEF Tiling
<1>4. Searching'
  BY <1>1 DEF Searching, Passed, Forget
<1>5. CASE len[hdr] - size < MinBlk
  <2>1. len' = len
    BY <1>5, <1>1 DEF Split
  <2>2. Tiling'
    BY <2>1, <1>1, <1>3 DEF Tiling
  <2>3. Small'
    <3>1. CASE osalMemStat = 1 /\ ff1 = hdr
      <4>1. hdr < Wall /\ hdr + len[hdr] <= Wall /\ Wall \in Blocks
        BY <3>1, <1>1, <1>2, <1>3 DEF Small, Tiling
      <4>2. ff1' \in Blocks /\ ff1' <= Wall /\ ff1' = hdr + len[hdr]
        BY <3>1, <4>1, <2>1, <1>1 DEF Tiling
      <4>3. \A a \in FreeBlocks' : hdr + len[hdr] <= a
        BY <3>1, <2>1, <1>1, <1>2, <1>3 DEF Small, Ff1IsFirst
      <4> QED BY <3>1, <4>2, <4>3, <2>1 DEF Small, Ff1IsFirst
    <3>2. CASE ~(osalMemStat = 1 /\ ff1 = hdr)
      BY <3>2, <2>1, <1>3 DEF Small, Ff1IsFirst
    <3> QED BY <3>1, <3>2
  <2>4. Kicking'
    BY <2>1, <1>1, <1>3 DEF Kicking, Forget
  <2> QED BY <2>2, <2>3, <2>4, <1>4
<1>6. CASE MinBlk <= len[hdr] - size
  <2>1. Blocks' = Blocks \cup {rest}
    BY <1>6, <1>1 DEF Split
  <2>2. rest \in Nat /\ hdr < rest /\ rest < hdr + len[hdr] /\ rest \notin Blocks
    BY <1>1, <1>2, <1>6
  <2>3. \A a \in Blocks' :
          len'[a] = CASE a = hdr -> size [] a = rest -> len[hdr] - size [] OTHER -> len[a]
    BY <1>6, <1>1 DEF Split
  <2>4. /\ len'[hdr] = size /\ len'[rest] = len[hdr] - size
        /\ \A a \in Blocks \ {hdr} : len'[a] = len[a]
    BY <2>1, <2>2, <2>3, <1>1
  <2>5. Tiling'
    <3>1. len' \in [Blocks' -> Nat \ {0}]
      <4>1. \A a \in Blocks' : len'[a] \in Nat \ {0}
        BY <2>1, <2>4, <1>1, <1>6
      <4>2. len' = [a \in Blocks' |-> len'[a]]
        BY <1>6, <1>1 DEF Split
      <4> QED BY <4>1, <4>2
    <3>2. Blocks' \subseteq 0..LastBlk /\ LastBlk \notin Blocks' /\ inUse' \subseteq Blocks'
      <4>1. hdr + len[hdr] <= LastBlk
        BY <1>1 DEF Tiling
      <4> QED BY <4>1, <2>1, <2>2, <1>1, <1>3 DEF Tiling
    <3>3. \A a \in Blocks' : a + len'[a] \in Blocks' \cup {LastBlk}
      <4> SUFFICES ASSUME NEW a \in Blocks' PROVE a + len'[a] \in Blocks' \cup {LastBlk}
        OBVIOUS
      <4>1. CASE a = hdr
        BY <4>1, <2>1, <2>4
      <4>2. CASE a = rest
        <5>1. rest + len'[rest] = hdr + len[hdr]
          BY <2>4, <1>1
        <5> QED BY <4>2, <5>1, <2>1, <1>1
      <4>3. CASE a \in Blocks \ {hdr}
        BY <4>3, <2>1, <2>4 DEF Tiling
      <4> QED BY <4>1, <4>2, <4>3, <2>1
    <3>4. \A a, b \in Blocks' : a < b => a + len'[a] <= b
      <4> SUFFICES ASSUME NEW a \in Blocks', NEW b \in Blocks', a < b PROVE a + len'[a] <= b
        OBVIOUS
      <4>1. CASE a = hdr
        BY <4>1, <2>1, <2>2, <2>4, <1>1, <1>2
      <4>2. CASE a = rest
        <5>1. b \in Blocks /\ hdr < b
          BY <4>2, <2>1, <2>2, <1>1
        <5>2. hdr + len[hdr] <= b
          BY <5>1, <1>1, <1>2
        <5> QED BY <4>2, <5>2, <2>4, <1>1
      <4>3. CASE a \in Blocks \ {hdr} /\ b = rest
        <5>1. a < hdr
          BY <4>3, <1>1, <1>2, <2>2
        <5> QED BY <4>3, <5>1, <2>2, <2>4, <1>1, <1>2
      <4>4. CASE a \in Blocks \ {hdr} /\ b \in Blocks
        BY <4>4, <2>4, <1>2
      <4> QED BY <4>1, <4>2, <4>3, <4>4, <2>1
    <3>5. Wall \in inUse' /\ len'[Wall] = HdrSz
      BY <2>4, <1>3 DEF Tiling
    <3>6. \A a \in Blocks' : a # Wall => HdrSz < len'[a]
      BY <2>1, <2>4, <1>1, <1>6 DEF Tiling
    <3> QED BY <3>1, <3>2, <3>3, <3>4, <3>5, <3>6 DEF Tiling
  <2>6. FreeBlocks' = (FreeBlocks \ {hdr}) \cup {rest}
    BY <2>1, <2>2, <1>3 DEF Tiling
  <2>7. Small'
    <3>1. CASE osalMemStat = 1 /\ ff1 = hdr
      <4>1. hdr < Wall /\ hdr + len[hdr] <= Wall
        BY <3>1, <1>1, <1>2, <1>3 DEF Small, Tiling
      <4>2. ff1' \in Blocks' /\ ff1' <= Wall /\ ff1' = rest
        BY <3>1, <4>1, <2>1, <2>2, <2>4, <1>1
      <4>3. \A a \in FreeBlocks' : rest <= a
        BY <3>1, <2>2, <2>6, <1>1, <1>2 DEF Small, Ff1IsFirst
      <4> QED BY <3>1, <4>2, <4>3 DEF Small, Ff1IsFirst
    <3>2. CASE ~(osalMemStat = 1 /\ ff1 = hdr)
      <4>1. ff1 <= rest
        BY <2>2, <1>1 DEF Small, Ff1IsFirst
      <4> QED BY <3>2, <4>1, <2>1, <2>6 DEF Small, Ff1IsFirst
    <3> QED BY <3>1, <3>2
  <2>8. Kicking'
    BY <2>2, <2>6, <1>1, <1>3 DEF Kicking, Forget
  <2> QED BY <2>5, <2>7, <2>8, <1>4
<1> QED BY <1>1, <1>5, <1>6

\* The end of a search in vain, osal_mem_free and osal_mem_kick.
LEMMA OtherSteps ==
  ASSUME HeapInv, ReturnNull \/ osal_mem_kick \/ \E a \in inUse \ {Wall} : osal_mem_free(a)
  PROVE  HeapInv'
<1> USE DEF HeapInv, Blocks, FreeBlocks
<1>1. Blocks \subseteq Nat
  BY DEF Tiling
<1>2. CASE ReturnNull
  BY <1>2 DEF ReturnNull, Forget, Tiling, Small, Ff1IsFirst, Kicking, Searching, Passed
<1>3. CASE osal_mem_kick
  <2> USE <1>3 DEF osal_mem_kick
  <2>1. kick /\ hdr \in inUse /\ hdr < Wall /\ hdr \in Blocks /\ \A a \in FreeBlocks : hdr <= a
    BY DEF Kicking, Tiling
  <2>2. FreeBlocks' = FreeBlocks \cup {hdr} /\ Blocks' = Blocks
    BY <2>1
  <2>3. Tiling'
    BY <2>1, <2>2 DEF Tiling
  <2>4. Small'
    BY <2>1, <2>2, <1>1 DEF Small, Ff1IsFirst
  <2>5. kick' = FALSE /\ at' = "idle" /\ size' = 0 /\ coal' = 0
    BY DEF Forget
  <2>6. Kicking'
    BY <2>5 DEF Kicking
  <2>7. Searching'
    BY <2>5 DEF Searching, Passed
  <2> QED BY <2>3, <2>4, <2>6, <2>7
<1>4. CASE \E a \in inUse \ {Wall} : osal_mem_free(a)
  <2> PICK a \in inUse \ {Wall} : osal_mem_free(a)
    BY <1>4
  <2>1. a \in Blocks
    BY DEF Tiling
  <2> QED BY <2>1, <1>1 DEF osal_mem_free, search, Tiling, Small, Ff1IsFirst, Kicking, Searching, Passed
<1> QED BY <1>2, <1>3, <1>4

LEMMA HeapStepInv == HeapInv /\ [HeapNext]_heapVars => HeapInv'
<1> SUFFICES ASSUME HeapInv, [HeapNext]_heapVars PROVE HeapInv'
  OBVIOUS
<1>1. CASE \E n \in Sizes : Request(n, FALSE)
  BY <1>1, RequestStep
<1>2. CASE Loop
  BY <1>2, PassUsedStep, PassFreeStep, CoalesceStep DEF Loop
<1>3. CASE Take
  BY <1>3, TakeStep
<1>4. CASE KickRequest
  <2>1. osalMemStat = 0 /\ BucketHasRoom /\ Request(1, TRUE)
    BY <1>4 DEF KickRequest
  <2>2. 1 \in Nat \ {0}
    OBVIOUS
  <2> QED BY <2>1, <2>2, RequestStep, Zenon
<1>5. CASE ReturnNull \/ osal_mem_kick \/ \E a \in inUse \ {Wall} : osal_mem_free(a)
  BY <1>5, OtherSteps
<1>6. CASE UNCHANGED heapVars
  BY <1>6 DEF heapVars, search, HeapInv, Tiling, Small, Ff1IsFirst, Kicking, BucketHasRoom, Searching,
              Passed, From, Blocks, FreeBlocks
<1> QED BY <1>1, <1>2, <1>3, <1>4, <1>5, <1>6 DEF HeapNext

-----------------------------------------------------------------------------
\* The heap is always tiled by blocks, and ff1 and the pointers of a search
\* are always at the start of one, for any sizes of heap, bucket and requests.
THEOREM HeapIsTyped == HeapSpec => []HeapTypeOK
<1>1. HeapInv => HeapTypeOK
  BY DEF HeapInv, Tiling, Small, Kicking, Searching, HeapTypeOK, Blocks, FreeBlocks
<1> QED BY <1>1, HeapInitInv, HeapStepInv, PTL DEF HeapSpec

\* No free block of the bucket is ever lost below ff1 (osal_mem_alloc,
\* osal_mem_free, osal_mem_kick).
THEOREM NoBlockBelowFf1 == HeapSpec => []Ff1IsFirst
<1>1. HeapInv => Ff1IsFirst
  BY DEF HeapInv, Small
<1> QED BY <1>1, HeapInitInv, HeapStepInv, PTL DEF HeapSpec

\* osal_mem_alloc returns NULL only when no run of free blocks it may use is
\* large enough.
THEOREM NullIsHonest == HeapSpec => []NullOnlyIfFull
<1>1. HeapInv => NullOnlyIfFull
  <2> SUFFICES ASSUME HeapInv, at = "null", NEW a \in Blocks, NEW b \in Blocks \cup {LastBlk},
                      From(size) <= a, a < b, \A c \in inUse : c < a \/ b <= c
               PROVE  b - a < size
    BY DEF NullOnlyIfFull
  <2> USE DEF HeapInv, FreeBlocks
  <2>1. Blocks \subseteq Nat /\ len[a] \in Nat \ {0} /\ size \in Nat /\ a < LastBlk /\ b <= LastBlk
    BY DEF Tiling, Searching
  <2>2. a \notin inUse
    BY <2>1
  <2>3. len[a] < size /\ a + len[a] \in inUse \cup {LastBlk}
    BY <2>2 DEF Searching, Passed
  <2>4. a + len[a] <= b
    BY <2>1 DEF Tiling
  <2>5. b <= a + len[a]
    BY <2>1, <2>3
  <2> QED BY <2>1, <2>3, <2>4, <2>5
<1> QED BY <1>1, HeapInitInv, HeapStepInv, PTL DEF HeapSpec

-----------------------------------------------------------------------------
(* The blocks in use, as module Allocator has them.                         *)
HeldBlocks == [a \in inUse \ {Wall} |-> len[a]]

\* No block in use changes while osal_mem_alloc searches.
LEMMA SearchKeeps == HeapInv /\ Loop => HeldBlocks' = HeldBlocks
<1> SUFFICES ASSUME HeapInv, Loop PROVE HeldBlocks' = HeldBlocks
  OBVIOUS
<1>1. CASE PassUsed \/ PassFree
  BY <1>1 DEF PassUsed, PassFree, HeldBlocks
<1>2. CASE Coalesce
  <2> USE <1>2 DEF Coalesce, HeapInv, FreeBlocks, Blocks
  <2>1. hdr \notin inUse /\ prev \notin inUse /\ inUse \subseteq DOMAIN len /\ inUse' = inUse
    BY DEF Searching, Tiling
  <2>2. \A a \in inUse : len[a] \in Nat
    BY <2>1 DEF Tiling
  <2>3. \A a \in inUse : len'[a] = len[a]
    BY <2>1, <2>2
  <2> QED BY <2>1, <2>3 DEF HeldBlocks
<1> QED BY <1>1, <1>2 DEF Loop

\* A block that is taken is apart from all others and does not cross the wall.
LEMMA TakeAllocates == HeapInv /\ Take => AllocatorOf!Next
<1> SUFFICES ASSUME HeapInv, Take PROVE AllocatorOf!Next
  OBVIOUS
<1>1. HeapInv'
  BY TakeStep
<1> USE DEF HeapInv, Take
<1>2. hdr \in Blocks' /\ hdr \notin inUse /\ inUse' = inUse \cup {hdr} /\ hdr # Wall
  BY <1>1 DEF Tiling, Searching
<1>3. /\ Blocks' \subseteq Nat /\ Wall \in Blocks' /\ len'[Wall] = HdrSz /\ inUse' \subseteq Blocks'
      /\ \A a \in Blocks' : len'[a] \in Nat \ {0} /\ a + len'[a] <= LastBlk
      /\ \A a, b \in Blocks' : a < b => a + len'[a] <= b
  BY <1>1 DEF Tiling
<1>4. \A a \in inUse : len'[a] = len[a]
  <2>1. /\ hdr \in Blocks /\ size \in Nat /\ HdrSz < size
        /\ \A a \in Blocks : hdr < a => hdr + len[hdr] <= a
        /\ Blocks \subseteq Nat /\ inUse \subseteq Blocks /\ len[hdr] \in Nat
    BY DEF Searching, Tiling, Blocks
  <2>2. CASE len[hdr] - size >= MinBlk
    <3>1. hdr < hdr + size /\ hdr + size < hdr + len[hdr]
      BY <2>1, <2>2
    <3>2. hdr + size \notin inUse
      BY <3>1, <2>1
    <3> QED BY <3>2, <2>1, <2>2, <1>2 DEF Split, Blocks
  <2>3. CASE ~(len[hdr] - size >= MinBlk)
    BY <2>3 DEF Split
  <2> QED BY <2>2, <2>3
<1>5. HeldBlocks' = [b \in DOMAIN HeldBlocks \cup {hdr} |-> IF b = hdr THEN len'[hdr] ELSE HeldBlocks[b]]
  BY <1>2, <1>4 DEF HeldBlocks
<1>6. \A b \in DOMAIN HeldBlocks : b + HeldBlocks[b] <= hdr \/ hdr + len'[hdr] <= b
  <2> SUFFICES ASSUME NEW b \in inUse \ {Wall}
               PROVE  b + len'[b] <= hdr \/ hdr + len'[hdr] <= b
    BY <1>4 DEF HeldBlocks
  <2>1. b \in Blocks' /\ (b < hdr \/ hdr < b)
    BY <1>2, <1>3
  <2> QED BY <2>1, <1>2, <1>3
<1>7. (0 <= hdr /\ hdr + len'[hdr] <= Wall) \/ (BigBlk <= hdr /\ hdr + len'[hdr] <= LastBlk)
  <2>1. CASE hdr < Wall
    BY <2>1, <1>2, <1>3
  <2>2. CASE Wall < hdr
    BY <2>2, <1>2, <1>3
  <2> QED BY <2>1, <2>2, <1>2, <1>3
<1>8. hdr \in DOMAIN HeldBlocks' /\ HeldBlocks'[hdr] = len'[hdr]
  BY <1>2 DEF HeldBlocks
<1>9. \E a \in DOMAIN HeldBlocks' :
        /\ \A b \in DOMAIN HeldBlocks : b + HeldBlocks[b] <= a \/ a + HeldBlocks'[a] <= b
        /\ (0 <= a /\ a + HeldBlocks'[a] <= Wall) \/ (BigBlk <= a /\ a + HeldBlocks'[a] <= LastBlk)
        /\ HeldBlocks' = [b \in DOMAIN HeldBlocks \cup {a} |-> IF b = a THEN HeldBlocks'[a] ELSE HeldBlocks[b]]
  BY <1>5, <1>6, <1>7, <1>8
<1> QED
  BY <1>9
  DEF AllocatorOf!Next, AllocatorOf!Alloc, AllocatorOf!Apart, AllocatorOf!Within,
      AllocatorOf!Blocks, HeldBlocks

\* A block that is given back is no longer in use.
LEMMA ReleaseFrees ==
  ASSUME HeapInv, NEW a \in inUse \ {Wall}, inUse' = inUse \ {a}, len' = len
  PROVE  AllocatorOf!Free(a) /\ a \in AllocatorOf!Blocks
BY DEF AllocatorOf!Free, AllocatorOf!Blocks

LEMMA StepImplements == HeapInv /\ [HeapNext]_heapVars => [AllocatorOf!Next]_HeldBlocks
<1> SUFFICES ASSUME HeapInv, [HeapNext]_heapVars PROVE AllocatorOf!Next \/ HeldBlocks' = HeldBlocks
  OBVIOUS
<1>1. CASE \/ (\E n \in Sizes : Request(n, FALSE)) \/ KickRequest \/ ReturnNull
           \/ UNCHANGED heapVars
  BY <1>1 DEF Request, KickRequest, ReturnNull, heapVars, HeldBlocks
<1>2. CASE Loop
  BY <1>2, SearchKeeps
<1>3. CASE Take
  BY <1>3, TakeAllocates
<1>4. CASE osal_mem_kick
  <2> PICK h : h = hdr
    OBVIOUS
  <2>1. h \in inUse \ {Wall} /\ inUse' = inUse \ {h} /\ len' = len
    BY <1>4 DEF osal_mem_kick, HeapInv, Kicking
  <2>2. AllocatorOf!Free(h) /\ h \in AllocatorOf!Blocks
    BY <2>1, ReleaseFrees
  <2> QED BY <2>2 DEF AllocatorOf!Next
<1>5. CASE \E a \in inUse \ {Wall} : osal_mem_free(a)
  <2> PICK a \in inUse \ {Wall} : osal_mem_free(a)
    BY <1>5
  <2>1. AllocatorOf!Free(a) /\ a \in AllocatorOf!Blocks
    BY ReleaseFrees DEF osal_mem_free
  <2> QED BY <2>1 DEF AllocatorOf!Next
<1> QED BY <1>1, <1>2, <1>3, <1>4, <1>5 DEF HeapNext

\* The heap keeps the promise of module Allocator: the blocks it hands out
\* never overlap, move or cross the wall, however it merges and splits.
THEOREM HeapImplementsAllocator == HeapSpec => ImplementsAllocator
<1>1. osal_mem_init => AllocatorOf!Init
  BY DEF osal_mem_init, AllocatorOf!Init, AllocatorOf!Blocks
<1>2. HeapInv /\ [HeapNext]_heapVars => [AllocatorOf!Next]_HeldBlocks
  BY StepImplements
<1> QED BY <1>1, <1>2, HeapInitInv, HeapStepInv, PTL
        DEF HeapSpec, ImplementsAllocator, AllocatorOf!Spec, HeldBlocks
=============================================================================
