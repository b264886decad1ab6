------------------------------ MODULE HalSleep ------------------------------
(***************************************************************************)
(* How the processor goes to sleep and wakes up: the tail of a pass of     *)
(* osal_run_system that finds nothing to do, osal_pwrmgr_powerconserve and *)
(* halSleep (Components/hal/target/CC2530EB/hal_sleep.c; CC2530ZNP for the *)
(* network processor), against the interrupt routines.  halSleepPconValue  *)
(* is what an interrupt clears to call a decided sleep off.                *)
(*                                                                         *)
(* A task has one flag here (Ev).  Time is in milliseconds.                *)
(***************************************************************************)
EXTENDS OsalTimerList, Subsequence

CONSTANTS
  TasksCnt,     \* number of entries of tasksArr; task 0 belongs to the MAC
  HalTask,      \* Hal_TaskID
  ZnpTask,      \* znpTaskId
  Ev,           \* the flag a task's events are abstracted to
  Timeouts,     \* timeouts handlers ask for
  Debounce,     \* HAL_KEY_DEBOUNCE_VALUE
  MacTimeouts,  \* what MAC_PwrNextTimeout may return, 0 for none
  PmMinSleep,   \* PM_MIN_SLEEP_TIME
  MaxSleepLoop, \* maxSleepLoopTime
  DeepAllowed,  \* no NWK_AUTO_POLL, or zgPollRate = 0
  Builds,       \* "EB" (CC2530EB) and "ZNP" (CC2530ZNP with the UART transport)
  MaxTimeout,   \* OSAL_TIMERS_MAX_TIMEOUT
  MaxLag,       \* bound: ms between two clock readings while awake
  MaxStarts     \* bound: timers started in a behaviour

Tasks == 0 .. TasksCnt - 1

ASSUME TasksAssumption == TasksCnt \in Nat \ {0} /\ {HalTask, ZnpTask} \subseteq Tasks
ASSUME EvAssumption == Ev # NoFlag
ASSUME TimesAssumption ==
  /\ Timeouts \cup MacTimeouts \subseteq Nat
  /\ {Debounce, PmMinSleep, MaxSleepLoop, MaxTimeout, MaxLag, MaxStarts} \subseteq Nat
ASSUME BuildAssumption == DeepAllowed \in BOOLEAN /\ Builds \subseteq {"EB", "ZNP"}

VARIABLES
  tasksEvents,        \* the tasks with an event set
  timers,             \* the timer list
  lag,                \* ms since the clock was read
  halSleepPconValue,  \* TRUE for PCON_IDLE, FALSE for 0
  holding,            \* the tasks whose bit of pwrmgr_task_state is set
  device,             \* pwrmgr_device: "always_on" or "battery"
  pc,                 \* where the run loop is
  idx,                \* osal_run_system: the task looked at or running
  timeout,            \* next, then halSleep's timeout
  mode,               \* halPwrMgtMode
  sleepTimer,         \* ms until the sleep timer compare, 0 if reached or unset
  starts,             \* timers started so far
  build               \* the build the device runs

vars == <<tasksEvents, timers, lag, halSleepPconValue, holding, device,
          pc, idx, timeout, mode, sleepTimer, starts, build>>
sleepVars == <<timeout, mode, sleepTimer>>
pwrVars == <<holding, device, build>>

Init ==
  /\ tasksEvents \in SUBSET Tasks
  /\ timers = << >>
  /\ lag = 0
  /\ halSleepPconValue = TRUE
  /\ holding = {}
  /\ device \in {"always_on", "battery"}
  /\ pc = "update"
  /\ idx = 0
  /\ timeout = 0
  /\ mode = "off"
  /\ sleepTimer = 0
  /\ starts = 0
  /\ build \in Builds

-----------------------------------------------------------------------------
(* The pass of osal_run_system                                              *)

\* The events osalTimerUpdate sets and the list it leaves (OsalTimers has it
\* record by record).
Expired(u) == {t \in Tasks :
                 \E i \in FindTimer(timers, t, Ev) : Elapse(timers[i].timeout, u) = 0}
AfterUpdate(u) ==
  LET elapsed == [i \in 1 .. Len(timers) |-> Updated(timers[i], u)]
  IN  Elements(elapsed, {i \in 1 .. Len(timers) : ~IsSpent(elapsed[i])})

\* osalTimeUpdate: nothing happens before a whole millisecond has passed.
TimeUpdate ==
  /\ pc = "update"
  /\ tasksEvents' = IF lag > 0 THEN tasksEvents \cup Expired(lag) ELSE tasksEvents
  /\ timers' = IF lag > 0 THEN AfterUpdate(lag) ELSE timers
  /\ lag' = 0
  /\ pc' = "poll"
  /\ UNCHANGED <<halSleepPconValue, pwrVars, idx, sleepVars, starts>>

\* Hal_ProcessPoll ends by allowing sleep; then gizwitsHandle and the scan.
AllowSleep ==
  /\ pc = "poll"
  /\ halSleepPconValue' = TRUE
  /\ pc' = "scan"
  /\ idx' = 0
  /\ UNCHANGED <<tasksEvents, timers, lag, pwrVars, sleepVars, starts>>

\* Mutant: the loop looks at one task too many.
ScanTooFar ==
  /\ pc = "scan"
  /\ IF idx \in tasksEvents THEN pc' = "handler" /\ idx' = idx
     ELSE IF idx < TasksCnt THEN pc' = "scan" /\ idx' = idx + 1
     ELSE pc' = "conserve" /\ idx' = 0
  /\ tasksEvents' = tasksEvents \ {idx}
  /\ UNCHANGED <<timers, lag, halSleepPconValue, pwrVars, sleepVars, starts>>

\* One test of the do-while; after the last one osal_pwrmgr_powerconserve.
Scan ==
  /\ pc = "scan"
  /\ IF idx \in tasksEvents THEN pc' = "handler" /\ idx' = idx
     ELSE IF idx + 1 < TasksCnt THEN pc' = "scan" /\ idx' = idx + 1
     ELSE pc' = "conserve" /\ idx' = 0
  /\ tasksEvents' = tasksEvents \ {idx}
  /\ UNCHANGED <<timers, lag, halSleepPconValue, pwrVars, sleepVars, starts>>

\* The handler returns, with or without events it did not process.
Return ==
  /\ pc = "handler"
  /\ tasksEvents' \in {tasksEvents, tasksEvents \cup {idx}}
  /\ pc' = "update"
  /\ UNCHANGED <<timers, lag, halSleepPconValue, pwrVars, idx, sleepVars, starts>>

Start(list) ==
  /\ starts < MaxStarts
  /\ starts' = starts + 1
  /\ timers' = list

\* A handler starts a timer of its task,
HandlerStartTimer(n) ==
  /\ pc = "handler"
  /\ Start(AddTimer(timers, idx, Ev, n))
  /\ UNCHANGED <<tasksEvents, lag, halSleepPconValue, pwrVars, pc, idx, sleepVars>>

\* calls osal_pwrmgr_task_state,
HandlerTaskState ==
  /\ pc = "handler"
  /\ holding' \in {holding \cup {idx}, holding \ {idx}}
  /\ UNCHANGED <<tasksEvents, timers, lag, halSleepPconValue, device, build, pc, idx, sleepVars, starts>>

\* or osal_pwrmgr_device.
HandlerDevice ==
  /\ pc = "handler"
  /\ device' \in {"always_on", "battery"}
  /\ UNCHANGED <<tasksEvents, timers, lag, halSleepPconValue, holding, build, pc, idx, sleepVars, starts>>

-----------------------------------------------------------------------------
(* osal_pwrmgr_powerconserve and halSleep                                   *)

\* Mutant: the tasks are not asked.
PowerConserveAsksDevice ==
  /\ pc = "conserve"
  /\ IF device # "always_on"
       THEN timeout' = NextTimeout(timers, MaxTimeout) /\ pc' = "timeout"
       ELSE timeout' = timeout /\ pc' = "update"
  /\ UNCHANGED <<tasksEvents, timers, lag, halSleepPconValue, pwrVars, idx, mode, sleepTimer, starts>>

\* osal_next_timeout is asked only if the device and all tasks agree.
PowerConserve ==
  /\ pc = "conserve"
  /\ IF device # "always_on" /\ holding = {}
       THEN timeout' = NextTimeout(timers, MaxTimeout) /\ pc' = "timeout"
       ELSE timeout' = timeout /\ pc' = "update"
  /\ UNCHANGED <<tasksEvents, timers, lag, halSleepPconValue, pwrVars, idx, mode, sleepTimer, starts>>

\* Mutant: the MAC's answer replaces the OSAL timeout.
LesserMacOnly(osalTimeout, macTimeout) == macTimeout

\* The lesser of the two timeouts, where 0 stands for none.
Lesser(osalTimeout, macTimeout) ==
  IF osalTimeout = 0 THEN macTimeout
  ELSE IF macTimeout # 0 /\ macTimeout < osalTimeout THEN macTimeout
  ELSE osalTimeout

\* halSleep up to HAL_DISABLE_INTERRUPTS.
ChooseTimeout ==
  /\ pc = "timeout"
  /\ \E macTimeout \in MacTimeouts :
       LET t == Lesser(timeout, macTimeout)
       IN  /\ timeout' = t
           /\ mode' = IF t = 0 THEN "deep" ELSE "timer"
           /\ pc' = IF t > PmMinSleep \/ (t = 0 /\ DeepAllowed) THEN "decide" ELSE "update"
  /\ UNCHANGED <<tasksEvents, timers, lag, halSleepPconValue, pwrVars, idx, sleepTimer, starts>>

\* Mutant: the sleep decision is not looked at again.
DecideBlindly ==
  /\ pc = "decide"
  /\ pc' = "armed"
  /\ sleepTimer' = IF timeout > MaxSleepLoop THEN MaxSleepLoop ELSE timeout
  /\ halSleepPconValue' = TRUE
  /\ UNCHANGED <<tasksEvents, timers, lag, pwrVars, idx, timeout, mode, starts>>

\* With interrupts off: unless one of them cleared halSleepPconValue, or the
\* MAC refuses, the sleep timer is set (never beyond maxSleepLoopTime), the
\* power mode prepared (which sets halSleepPconValue again), all interrupts
\* but the sleep timer's and the ports' masked, and interrupts enabled.
Decide ==
  /\ pc = "decide"
  /\ \/ /\ halSleepPconValue
        /\ pc' = "armed"
        /\ sleepTimer' = IF timeout > MaxSleepLoop THEN MaxSleepLoop ELSE timeout
        /\ halSleepPconValue' = TRUE
     \/ /\ pc' = "update"      \* cleared, or MAC_PwrOffReq refused
        /\ UNCHANGED <<sleepTimer, halSleepPconValue>>
  /\ UNCHANGED <<tasksEvents, timers, lag, pwrVars, idx, timeout, mode, starts>>

\* PCON = halSleepPconValue
SetSleepMode ==
  /\ pc = "armed"
  /\ pc' = IF halSleepPconValue THEN "asleep" ELSE "awake"
  /\ UNCHANGED <<tasksEvents, timers, lag, halSleepPconValue, pwrVars, idx, sleepVars, starts>>

\* Interrupts off, the masks restored, the MAC powered on, interrupts on.
WakeUp ==
  /\ pc = "awake"
  /\ pc' = "update"
  /\ sleepTimer' = 0
  /\ mode' = "off"
  /\ UNCHANGED <<tasksEvents, timers, lag, halSleepPconValue, pwrVars, idx, timeout, starts>>

-----------------------------------------------------------------------------
(* Time and interrupts.  Interrupts are off only inside single steps.       *)

Masked == pc \in {"armed", "asleep", "awake"}
Resumed == IF pc = "asleep" THEN "awake" ELSE pc

\* A millisecond passes; no clock runs in deep sleep.
Tick ==
  /\ IF pc = "asleep" THEN mode = "timer" /\ sleepTimer > 0 ELSE lag < MaxLag
  /\ lag' = lag + 1
  /\ sleepTimer' = IF sleepTimer > 0 THEN sleepTimer - 1 ELSE 0
  /\ UNCHANGED <<tasksEvents, timers, halSleepPconValue, pwrVars, pc, idx, timeout, mode, starts>>

\* halSleepTimerIsr
SleepTimerIsr ==
  /\ Masked /\ mode = "timer" /\ sleepTimer = 0
  /\ halSleepPconValue' = FALSE
  /\ pc' = Resumed
  /\ UNCHANGED <<tasksEvents, timers, lag, pwrVars, idx, sleepVars, starts>>

\* Mutant: the key interrupt does not call a decided sleep off.
KeyIsrKeepsSleepMode ==
  /\ build = "EB"
  /\ Start(AddTimer(timers, HalTask, Ev, Debounce))
  /\ pc' = Resumed
  /\ UNCHANGED <<tasksEvents, lag, halSleepPconValue, pwrVars, idx, sleepVars>>

\* halKeyPort0Isr, halKeyPort2Isr: the debounce timer is started.
KeyIsr ==
  /\ build = "EB"
  /\ Start(AddTimer(timers, HalTask, Ev, Debounce))
  /\ halSleepPconValue' = FALSE
  /\ pc' = Resumed
  /\ UNCHANGED <<tasksEvents, lag, pwrVars, idx, sleepVars>>

\* macMcuRfIsr, macMcuTimer2Isr, macMcuRfErrIsr: work for the MAC's task.
MacIsr ==
  /\ ~Masked
  /\ tasksEvents' = tasksEvents \cup {0}
  /\ halSleepPconValue' = FALSE
  /\ UNCHANGED <<timers, lag, pwrVars, pc, idx, sleepVars, starts>>

\* port0Isr of the ZNP's UART transport: HalUARTSuspend turned the CTS
\* interrupt on with the power mode prepared.
ZnpPort0Isr ==
  /\ build = "ZNP" /\ Masked
  /\ tasksEvents' = tasksEvents \cup {ZnpTask}
  /\ pc' = Resumed
  /\ UNCHANGED <<timers, lag, halSleepPconValue, pwrVars, idx, sleepVars, starts>>

-----------------------------------------------------------------------------
Loop ==
  \/ TimeUpdate \/ AllowSleep \/ Scan \/ Return
  \/ PowerConserve \/ ChooseTimeout \/ Decide \/ SetSleepMode \/ WakeUp

Handler ==
  \/ \E n \in Timeouts : HandlerStartTimer(n)
  \/ HandlerTaskState
  \/ HandlerDevice

Interrupt == SleepTimerIsr \/ KeyIsr \/ MacIsr \/ ZnpPort0Isr

Next == Loop \/ Handler \/ Tick \/ Interrupt

Spec == Init /\ [][Next]_vars

\* The processor keeps executing, time passes and the sleep timer's interrupt
\* is taken; nothing is assumed of the other interrupts.
FairSpec == Spec /\ WF_vars(Loop) /\ WF_vars(Tick) /\ WF_vars(SleepTimerIsr)

-----------------------------------------------------------------------------
(* Properties                                                               *)

Record == [task : Tasks, flag : {Ev, NoFlag}, timeout : Nat, reload : Nat]

\* Every variable keeps its type.
TypeOK ==
  /\ tasksEvents \subseteq Tasks
  /\ timers \in Seq(Record)
  /\ lag \in Nat
  /\ halSleepPconValue \in BOOLEAN
  /\ holding \subseteq Tasks
  /\ device \in {"always_on", "battery"}
  /\ pc \in {"update", "poll", "scan", "handler", "conserve", "timeout", "decide",
             "armed", "asleep", "awake"}
  /\ idx \in Tasks
  /\ timeout \in Nat
  /\ mode \in {"off", "timer", "deep"}
  /\ sleepTimer \in Nat
  /\ starts \in 0 .. MaxStarts
  /\ build \in Builds

\* The interrupt routines that do not call a decided sleep off: halSleep's
\* comment speaks of "an ISR (that could wake up from power mode)" without
\* exception, but the ZNP's port0Isr does not CLEAR_SLEEP_MODE.
SleepsOn == IF build = "ZNP" THEN {ZnpTask} ELSE {}

\* The processor never sleeps while an event waits to be handled, at whatever
\* point of the scan, the power manager or halSleep an interrupt set it, but
\* for the event of the ZNP's port interrupt.
NoWorkAsleep == pc = "asleep" => tasksEvents \subseteq SleepsOn

\* The processor does not sleep beyond the earliest timer: not one an interrupt
\* started after osal_next_timeout was asked, and never without the sleep timer.
NeverOversleeps ==
  pc = "asleep" =>
    \A i \in 1 .. Len(timers) :
      timers[i].flag = Ev => mode = "timer" /\ sleepTimer <= timers[i].timeout

\* The state is well formed and no sleep is too long.
SleepOK == TypeOK /\ NeverOversleeps

\* The processor sleeps only on battery with all tasks' agreement, also when a
\* task took it back since the last time.
SleepIsAgreed == pc = "asleep" => device = "battery" /\ holding = {}

\* "When the timer expires, the calling task will get the specified event"
\* (OSAL_Timers.c): sleeping does not lose a timer.
TimersFire ==
  \A t \in Tasks : (FindTimer(timers, t, Ev) # {}) ~> (t \in tasksEvents)
=============================================================================
