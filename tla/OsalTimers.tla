----------------------------- MODULE OsalTimers -----------------------------
(***************************************************************************)
(* The software timers of Components/osal/common/OSAL_Timers.c, driven by  *)
(* osalTimeUpdate of OSAL_Clock.c.  The run loop reads the hardware clock, *)
(* then walks the timer list, holding interrupts off for one record at a   *)
(* time; handlers start and stop timers between walks, an interrupt starts *)
(* one at any moment.                                                      *)
(***************************************************************************)
EXTENDS OsalTimerList, FiniteSets

CONSTANTS
  Tasks, Flags,   \* timers are named by a task and one of its flags
  IsrTask, IsrFlag, \* the timer an interrupt starts (Hal_TaskID, HAL_KEY_EVENT)
  Timeouts,       \* timeout values asked for, in ms
  MaxTimers,      \* bound: timer records the heap has room for
  MaxLag,         \* bound: ms that pass between two clock readings
  MaxStarts       \* bound: timers started in a behaviour

ASSUME NoFlagAssumption == NoFlag \notin Flags
ASSUME IsrTimerAssumption == IsrTask \in Tasks /\ IsrFlag \in Flags
ASSUME TimeoutsAssumption == Timeouts \subseteq Nat \ {0}
ASSUME BoundsAssumption == MaxTimers \in Nat /\ MaxLag \in Nat /\ MaxStarts \in Nat

Keys == Tasks \X Flags

VARIABLES
  timers,       \* the list of timer records
  tasksEvents,  \* the <<task, flag>> pairs set and not yet handled
  lag,          \* ms since the clock was read (macMcuPrecisionCount minus
                \* previousMacTimerTick)
  pc,           \* osalTimeUpdate / osalTimerUpdate: "idle" outside of them
  elapsed,      \* updateTime
  pos,          \* srchTimer: a position of timers, 0 when NULL
  freeTimer,    \* freeTimer, as a sequence of at most one record
  hist,         \* history, parallel to timers: when and how each was started
  freeHist,     \* the same for freeTimer
  stopped,      \* history: timers stopped with SUCCESS and not started since
  starts        \* timers started so far

walkVars == <<pc, elapsed, pos, freeTimer, freeHist>>
vars == <<timers, tasksEvents, lag, walkVars, hist, stopped, starts>>

Init ==
  /\ timers = << >>
  /\ tasksEvents = {}
  /\ lag = 0
  /\ pc = "idle"
  /\ elapsed = 0
  /\ pos = 0
  /\ freeTimer = << >>
  /\ hist = << >>
  /\ freeHist = << >>
  /\ stopped = {}
  /\ starts = 0

-----------------------------------------------------------------------------
(* History of a timer: asked, the timeout it was given; age, the real time *)
(* since; charge, the time that had already passed when it was started but *)
(* will be taken off its timeout.                                          *)

\* Time not yet taken off the record at position i.
DueAt(i) == lag + (IF pc # "idle" /\ pos # 0 /\ i >= pos THEN elapsed ELSE 0)

History(n, i) == [asked |-> n, age |-> 0, charge |-> DueAt(i)]

Older(hs) == [i \in 1 .. Len(hs) |-> [hs[i] EXCEPT !.age = @ + 1]]

\* A timer that is not there yet needs a record from the heap.
RoomFor(t, f) ==
  FindTimer(timers, t, f) # {} \/ Len(timers) + Len(freeTimer) < MaxTimers

StartWith(list, t, f, n) ==
  /\ starts < MaxStarts
  /\ RoomFor(t, f)
  /\ starts' = starts + 1
  /\ timers' = list
  /\ hist' = [i \in 1 .. Len(list) |->
                IF i \in FindTimer(list, t, f) \/ i > Len(hist)
                  THEN History(n, i) ELSE hist[i]]
  /\ stopped' = stopped \ {<<t, f>>}
  /\ UNCHANGED <<tasksEvents, lag, walkVars>>

\* osal_start_timerEx; without room it returns NO_TIMER_AVAIL and does nothing.
StartTimer(t, f, n) ==
  /\ pc = "idle"
  /\ StartWith(AddTimer(timers, t, f, n), t, f, n)

\* osal_start_reload_timer
StartReloadTimer(t, f, n) ==
  /\ pc = "idle"
  /\ StartWith(AddReloadTimer(timers, t, f, n), t, f, n)

\* halProcessKeyInterrupt starts the debounce timer from an interrupt routine.
IsrStartTimer(n) == StartWith(AddTimer(timers, IsrTask, IsrFlag, n), IsrTask, IsrFlag, n)

\* Mutant: a stopped timer is found no more, but its record still fires.
StopTimerLeavesFlag(t, f) ==
  /\ pc = "idle"
  /\ FindTimer(timers, t, f) # {}
  /\ stopped' = stopped \cup {<<t, f>>}
  /\ UNCHANGED <<timers, tasksEvents, lag, walkVars, hist, starts>>

\* osal_stop_timerEx that finds its timer and returns SUCCESS.
StopTimer(t, f) ==
  /\ pc = "idle"
  /\ FindTimer(timers, t, f) # {}
  /\ timers' = DeleteTimer(timers, t, f)
  /\ stopped' = stopped \cup {<<t, f>>}
  /\ UNCHANGED <<tasksEvents, lag, walkVars, hist, starts>>

\* The task's handler is run for the flag (osal_run_system).
Deliver(k) ==
  /\ pc = "idle"
  /\ k \in tasksEvents
  /\ tasksEvents' = tasksEvents \ {k}
  /\ UNCHANGED <<timers, lag, walkVars, hist, stopped, starts>>

\* A millisecond passes.
Tick ==
  /\ lag < MaxLag
  /\ lag' = lag + 1
  /\ hist' = Older(hist)
  /\ freeHist' = Older(freeHist)
  /\ UNCHANGED <<timers, tasksEvents, pc, elapsed, pos, freeTimer, stopped, starts>>

-----------------------------------------------------------------------------
(* osalTimeUpdate and osalTimerUpdate                                       *)

\* The elapsed time is read, once at least a millisecond has passed.
ReadClock ==
  /\ pc = "idle"
  /\ lag > 0
  /\ elapsed' = lag
  /\ lag' = 0
  /\ pc' = "update"
  /\ pos' = 1
  /\ UNCHANGED <<timers, tasksEvents, freeTimer, freeHist, hist, stopped, starts>>

\* Is the list empty?  Tested without holding off interrupts.
BeginWalk ==
  /\ pc = "update"
  /\ pc' = "walk"
  /\ pos' = IF timers = << >> THEN 0 ELSE 1
  /\ UNCHANGED <<timers, tasksEvents, lag, elapsed, freeTimer, freeHist, hist, stopped, starts>>

\* Mutant: the walk does not stop at the last record.
NextPosNoEnd(removed) == IF removed THEN pos ELSE pos + 1

\* Mutant: after unlinking a record the walk skips the next one.
NextPosSkips(removed) == IF pos + 1 > Len(timers) - (IF removed THEN 1 ELSE 0) THEN 0 ELSE pos + 1

\* srchTimer = srchTimer->next
NextPos(removed) == IF pos = Len(timers) THEN 0 ELSE IF removed THEN pos ELSE pos + 1

\* One record of the walk, a single critical section: the time is taken off, a
\* periodic timer that is due sets its event and is reloaded, a spent record
\* is unlinked.
UpdateTimer ==
  /\ pc = "walk" /\ pos # 0
  /\ LET rec == Updated(timers[pos], elapsed)
         due == Reloads(timers[pos], elapsed)
     IN  /\ tasksEvents' = IF due THEN tasksEvents \cup {<<rec.task, rec.flag>>} ELSE tasksEvents
         /\ IF IsSpent(rec)
              THEN /\ timers' = RemoveTimer(timers, pos)
                   /\ hist' = RemoveTimer(hist, pos)
                   /\ freeTimer' = <<rec>>
                   /\ freeHist' = <<hist[pos]>>
                   /\ pc' = "free"
                   /\ pos' = NextPos(TRUE)
              ELSE /\ timers' = [timers EXCEPT ![pos] = rec]
                   /\ hist' = IF due
                                THEN [hist EXCEPT ![pos] = [asked |-> rec.timeout, age |-> lag, charge |-> 0]]
                                ELSE hist
                   /\ pos' = NextPos(FALSE)
                   /\ UNCHANGED <<pc, freeTimer, freeHist>>
  /\ UNCHANGED <<lag, elapsed, stopped, starts>>

\* Mutant: the record is freed before its event is set.
FreeTimerSilently ==
  /\ pc = "free"
  /\ freeTimer' = << >>
  /\ freeHist' = << >>
  /\ pc' = "walk"
  /\ UNCHANGED <<timers, tasksEvents, lag, elapsed, pos, hist, stopped, starts>>

\* Interrupts are on again: the event of an expired timer is set (a deleted
\* one has none) and its record freed.
FreeTimer ==
  /\ pc = "free"
  /\ LET rec == freeTimer[1]
     IN  tasksEvents' = IF rec.timeout = 0 /\ rec.flag # NoFlag
                          THEN tasksEvents \cup {<<rec.task, rec.flag>>}
                          ELSE tasksEvents
  /\ freeTimer' = << >>
  /\ freeHist' = << >>
  /\ pc' = "walk"
  /\ UNCHANGED <<timers, lag, elapsed, pos, hist, stopped, starts>>

EndWalk ==
  /\ pc = "walk" /\ pos = 0
  /\ pc' = "idle"
  /\ elapsed' = 0
  /\ UNCHANGED <<timers, tasksEvents, lag, pos, freeTimer, freeHist, hist, stopped, starts>>

TimeUpdate == ReadClock \/ BeginWalk \/ UpdateTimer \/ FreeTimer \/ EndWalk

Next ==
  \/ TimeUpdate
  \/ Tick
  \/ \E t \in Tasks, f \in Flags, n \in Timeouts : StartTimer(t, f, n) \/ StartReloadTimer(t, f, n)
  \/ \E t \in Tasks, f \in Flags : StopTimer(t, f)
  \/ \E n \in Timeouts : IsrStartTimer(n)
  \/ \E k \in Keys : Deliver(k)

Spec == Init /\ [][Next]_vars

\* Time passes, and every pass of the run loop calls osalTimeUpdate.
FairSpec == Spec /\ WF_vars(Tick) /\ WF_vars(TimeUpdate)

-----------------------------------------------------------------------------
(* Properties                                                               *)

Record == [task : Tasks, flag : Flags \cup {NoFlag}, timeout : Nat, reload : Nat]

\* Every variable keeps its type; the walk stays on the list.
TypeOK ==
  /\ timers \in Seq(Record)
  /\ tasksEvents \subseteq Keys
  /\ lag \in 0 .. MaxLag
  /\ pc \in {"idle", "update", "walk", "free"}
  /\ elapsed \in 0 .. MaxLag
  /\ pc \in {"walk", "free"} => pos \in 0 .. Len(timers)
  /\ freeTimer \in Seq(Record) /\ Len(freeTimer) = IF pc = "free" THEN 1 ELSE 0
  /\ Len(hist) = Len(timers) /\ Len(freeHist) = Len(freeTimer)
  /\ stopped \subseteq Keys
  /\ starts \in 0 .. MaxStarts

\* A task's flag has at most one live timer, and the heap's room is respected,
\* whatever is started and stopped while a walk is under way.
UniqueTimers ==
  /\ \A i, j \in 1 .. Len(timers) :
       i # j /\ timers[i].flag # NoFlag =>
         <<timers[i].task, timers[i].flag>> # <<timers[j].task, timers[j].flag>>
  /\ Len(timers) + Len(freeTimer) <= MaxTimers

\* The timer list is well formed and names no timer twice.
ListOK == TypeOK /\ UniqueTimers

\* What is left of a timer is what it was given less the time since, except
\* that it is also charged the time that had passed, unread, before it was
\* started: never less, never more, in the middle of a walk as well.  (So a
\* timer "to expire in n mSecs" may expire early by that charge, never late.)
\* A periodic timer is counted anew from the walk that reloads it; what its
\* periods add up to is not followed.
TimersAccurate ==
  /\ \A i \in 1 .. Len(timers) : timers[i].flag # NoFlag =>
       /\ timers[i].timeout + hist[i].age <= hist[i].asked + DueAt(i)
       /\ hist[i].asked + DueAt(i) <= timers[i].timeout + hist[i].age + hist[i].charge
  /\ \A i \in 1 .. Len(freeTimer) : freeTimer[i].flag # NoFlag =>
       freeHist[i].asked <= freeHist[i].age + freeHist[i].charge

\* osal_stop_timerEx with SUCCESS "will cancel the timer and prevent the event
\* ... from being set": no walk sets it until the timer is started again.
StopIsFinal ==
  [][\A k \in stopped : k \in stopped' /\ k \in tasksEvents' => k \in tasksEvents]_vars

Live(k) ==
  \/ FindTimer(timers, k[1], k[2]) # {}
  \/ \E i \in 1 .. Len(freeTimer) : IsTimer(freeTimer[i], k[1], k[2])

\* A timer that is started sets its event, unless it is stopped: no start, stop
\* or interrupt during a walk makes the walk miss a record for good.
TimersFire == \A k \in Keys : Live(k) ~> (k \in tasksEvents \/ k \in stopped)
=============================================================================
