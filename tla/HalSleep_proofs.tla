--------------------------- MODULE HalSleep_proofs ---------------------------
(***************************************************************************)
(* Proofs about HalSleep, for any number of tasks, timers and timeouts.    *)
(***************************************************************************)
EXTENDS HalSleep, FiniteSetTheorems, FunctionTheorems, WellFoundedInduction, TLAPS

PCs == {"update", "poll", "scan", "handler", "conserve", "timeout", "decide",
        "armed", "asleep", "awake"}

\* The part of the type invariant the argument needs.
LoopType ==
  /\ tasksEvents \subseteq Tasks
  /\ halSleepPconValue \in BOOLEAN
  /\ pc \in PCs
  /\ idx \in Tasks
  /\ build \in {"EB", "ZNP"}

\* Where the run loop is past its scan, on the way to sleep.
GoingToSleep == {"conserve", "timeout", "decide", "armed", "asleep"}

\* As long as no interrupt has cleared halSleepPconValue, no event was set
\* behind the scan's back.
ScanInv ==
  /\ pc = "scan" /\ halSleepPconValue => \A t \in Tasks : t < idx => t \notin tasksEvents
  /\ pc \in GoingToSleep /\ halSleepPconValue => tasksEvents \subseteq SleepsOn
  /\ pc = "asleep" => halSleepPconValue

WorkInv == LoopType /\ ScanInv

\* Agreement once it was asked for, up to the end of the sleep.
AgreedInv ==
  /\ device \in {"always_on", "battery"}
  /\ pc \in {"timeout", "decide", "armed", "asleep"} => device = "battery" /\ holding = {}

-----------------------------------------------------------------------------
\* The invariant behind NoWorkAsleep is inductive in both builds.
LEMMA WorkStep ==
  ASSUME WorkInv, [Next]_vars
  PROVE  WorkInv'
<1> USE TasksAssumption, BuildAssumption DEF WorkInv, LoopType, PCs, Tasks, SleepsOn
<1>1. CASE Loop
  <2>1. CASE TimeUpdate
    BY <2>1 DEF TimeUpdate, ScanInv, GoingToSleep, Expired, pwrVars, sleepVars
  <2>2. CASE AllowSleep
    BY <2>2 DEF AllowSleep, ScanInv, GoingToSleep, pwrVars, sleepVars
  <2>3. CASE Scan
    <3> USE <2>3 DEF Scan
    <3>1. LoopType'
      BY DEF pwrVars, sleepVars
    <3>2. ScanInv'
      BY DEF ScanInv, GoingToSleep, pwrVars, sleepVars
    <3> QED BY <3>1, <3>2
  <2>4. CASE Return
    BY <2>4 DEF Return, ScanInv, GoingToSleep, pwrVars, sleepVars
  <2>5. CASE PowerConserve
    BY <2>5 DEF PowerConserve, ScanInv, GoingToSleep, pwrVars
  <2>6. CASE ChooseTimeout
    BY <2>6 DEF ChooseTimeout, ScanInv, GoingToSleep, pwrVars
  <2>7. CASE Decide
    BY <2>7 DEF Decide, ScanInv, GoingToSleep, pwrVars
  <2>8. CASE SetSleepMode
    BY <2>8 DEF SetSleepMode, ScanInv, GoingToSleep, pwrVars, sleepVars
  <2>9. CASE WakeUp
    BY <2>9 DEF WakeUp, ScanInv, GoingToSleep, pwrVars
  <2> QED BY <1>1, <2>1, <2>2, <2>3, <2>4, <2>5, <2>6, <2>7, <2>8, <2>9 DEF Loop
<1>2. CASE Handler
  BY <1>2 DEF Handler, HandlerStartTimer, HandlerTaskState, HandlerDevice,
              ScanInv, GoingToSleep, pwrVars, sleepVars
<1>3. CASE Tick
  BY <1>3 DEF Tick, ScanInv, GoingToSleep, pwrVars
<1>4. CASE Interrupt
  <2>1. CASE SleepTimerIsr
    BY <2>1 DEF SleepTimerIsr, Resumed, ScanInv, GoingToSleep, pwrVars, sleepVars
  <2>2. CASE KeyIsr
    BY <2>2 DEF KeyIsr, Resumed, ScanInv, GoingToSleep, pwrVars, sleepVars
  <2>3. CASE MacIsr
    <3>1. 0 \in Tasks
      OBVIOUS
    <3>2. pc' = pc /\ idx' = idx /\ build' = build /\ halSleepPconValue' = FALSE /\ tasksEvents' = tasksEvents \cup {0}
      BY <2>3 DEF MacIsr, pwrVars
    <3>3. pc # "asleep"
      BY <2>3 DEF MacIsr, Masked
    <3> QED BY <3>1, <3>2, <3>3 DEF ScanInv, GoingToSleep
  <2>4. CASE ZnpPort0Isr
    BY <2>4 DEF ZnpPort0Isr, Resumed, Masked, ScanInv, GoingToSleep, pwrVars, sleepVars
  <2> QED BY <1>4, <2>1, <2>2, <2>3, <2>4 DEF Interrupt
<1>5. CASE UNCHANGED vars
  BY <1>5 DEF vars, ScanInv, GoingToSleep
<1> QED BY <1>1, <1>2, <1>3, <1>4, <1>5 DEF Next

\* The processor never sleeps with an event waiting but the one that the ZNP's
\* port interrupt sets: every other interrupt anywhere between the scan and the
\* PCON write calls the sleep off.
THEOREM NothingWaitsAsleep == Spec => []NoWorkAsleep
<1>1. Init => WorkInv
  BY TasksAssumption, BuildAssumption
  DEF Init, WorkInv, LoopType, ScanInv, GoingToSleep, PCs, Tasks, SleepsOn
<1>2. WorkInv /\ [Next]_vars => WorkInv'
  BY WorkStep
<1>3. WorkInv => NoWorkAsleep
  BY DEF WorkInv, ScanInv, GoingToSleep, NoWorkAsleep, SleepsOn
<1> QED BY <1>1, <1>2, <1>3, PTL DEF Spec

-----------------------------------------------------------------------------
\* Sleep needs the device's and every task's consent, in every build: neither
\* an interrupt nor a handler can withdraw it between the test and the sleep.
THEOREM ConsentIsHonoured == Spec => []SleepIsAgreed
<1>1. Init => AgreedInv
  BY DEF Init, AgreedInv
<1>2. AgreedInv /\ [Next]_vars => AgreedInv'
  <2> SUFFICES ASSUME AgreedInv, [Next]_vars PROVE AgreedInv'
    OBVIOUS
  <2> USE DEF AgreedInv
  <2>1. CASE Loop
    <3>1. CASE PowerConserve
      BY <3>1 DEF PowerConserve, pwrVars
    <3>2. CASE TimeUpdate \/ AllowSleep \/ Scan \/ Return
      BY <3>2 DEF TimeUpdate, AllowSleep, Scan, Return, pwrVars, sleepVars
    <3>3. CASE ChooseTimeout \/ Decide \/ SetSleepMode \/ WakeUp
      BY <3>3 DEF ChooseTimeout, Decide, SetSleepMode, WakeUp, pwrVars, sleepVars
    <3> QED BY <2>1, <3>1, <3>2, <3>3 DEF Loop
  <2>2. CASE Handler
    BY <2>2 DEF Handler, HandlerStartTimer, HandlerTaskState, HandlerDevice, sleepVars, pwrVars
  <2>3. CASE Tick
    BY <2>3 DEF Tick, pwrVars
  <2>4. CASE Interrupt
    BY <2>4 DEF Interrupt, SleepTimerIsr, KeyIsr, MacIsr, ZnpPort0Isr, Resumed, pwrVars, sleepVars
  <2>5. CASE UNCHANGED vars
    BY <2>5 DEF vars, pwrVars
  <2> QED BY <2>1, <2>2, <2>3, <2>4, <2>5 DEF Next
<1>3. AgreedInv => SleepIsAgreed
  BY DEF AgreedInv, SleepIsAgreed
<1> QED BY <1>1, <1>2, <1>3, PTL DEF Spec
-----------------------------------------------------------------------------
(* What is left of a list at some of its positions.                        *)

\* The numbers of a finite set correspond to their ranks.
LEMMA Ranks ==
  ASSUME NEW S \in SUBSET Nat, IsFiniteSet(S)
  PROVE  /\ Cardinality(S) \in Nat
         /\ \A i \in S : Rank(S, i) \in 1 .. Cardinality(S) /\ Nth(S, Rank(S, i)) = i
         /\ \A k \in 1 .. Cardinality(S) : Nth(S, k) \in S /\ Rank(S, Nth(S, k)) = k
<1> DEFINE Upto(i) == {j \in S : j <= i}
           c == Cardinality(S)
<1>1. c \in Nat
  BY FS_CardinalityType
<1>2. ASSUME NEW i \in S
      PROVE  /\ IsFiniteSet(Upto(i)) /\ Rank(S, i) = Cardinality(Upto(i))
             /\ Rank(S, i) \in 1 .. c
  <2>1. IsFiniteSet(Upto(i)) /\ Cardinality(Upto(i)) <= c /\ Cardinality(Upto(i)) \in Nat
    <3>1. Upto(i) \in SUBSET S
      OBVIOUS
    <3> HIDE DEF Upto
    <3> QED
      BY <3>1, FS_Subset, FS_CardinalityType
  <2>2. Cardinality(Upto(i)) # 0
    <3>1. i \in Upto(i)
      OBVIOUS
    <3> HIDE DEF Upto
    <3> QED
      BY <2>1, <3>1, FS_EmptySet
  <2>3. Rank(S, i) = Cardinality(Upto(i))
    BY DEF Rank
  <2> HIDE DEF Upto
  <2> QED
    BY <1>1, <2>1, <2>2, <2>3
<1>3. ASSUME NEW i \in S, NEW j \in S, i < j
      PROVE  Rank(S, i) # Rank(S, j)
  <2>1. Upto(i) \in SUBSET Upto(j) /\ j \in Upto(j) /\ j \notin Upto(i)
    <3>1. \A k \in S : k \in Nat
      OBVIOUS
    <3>2. \A k \in S : k <= i => k <= j
      BY <1>3, <3>1
    <3>3. j <= j /\ ~(j <= i)
      BY <1>3, <3>1
    <3>4. Upto(i) \in SUBSET Upto(j)
      BY <3>2
    <3> QED
      BY <3>3, <3>4
  <2> HIDE DEF Upto
  <2>2. Upto(i) # Upto(j)
    BY <2>1
  <2> QED
    BY <1>2, <2>1, <2>2, FS_Subset
<1> DEFINE r == [i \in S |-> Rank(S, i)]
<1>4. r \in Injection(S, 1 .. c)
  <2>1. r \in [S -> 1 .. c]
    BY <1>2
  <2>2. \A i, j \in S : r[i] = r[j] => i = j
    <3> SUFFICES ASSUME NEW i \in S, NEW j \in S, i # j PROVE Rank(S, i) # Rank(S, j)
      OBVIOUS
    <3>1. i < j \/ j < i
      OBVIOUS
    <3> QED
      BY <1>3, <3>1
  <2> HIDE DEF r
  <2> QED
    BY <2>1, <2>2 DEF Injection, IsInjective
<1>5. IsFiniteSet(1 .. c) /\ Cardinality(1 .. c) = c
  <2>1. 1 \in Int /\ c \in Int /\ (1 > c => c = 0) /\ c - 1 + 1 = c
    BY <1>1
  <2> HIDE DEF c
  <2> QED
    BY <1>1, <2>1, FS_Interval
<1>6. r \in Surjection(S, 1 .. c)
  <2> HIDE DEF r
  <2> QED
    BY <1>4, <1>5, FS_Injection
<1>7. \A k \in 1 .. c : \E i \in S : Rank(S, i) = k
  <2>1. \A k \in 1 .. c : \E i \in S : r[i] = k
    <3> HIDE DEF r
    <3> QED
      BY <1>6 DEF Surjection
  <2> QED
    BY <2>1
<1>8. \A i, j \in S : Rank(S, i) = Rank(S, j) => i = j
  BY <1>4 DEF Injection, IsInjective
<1>9. \A k \in 1 .. c : Nth(S, k) \in S /\ Rank(S, Nth(S, k)) = k
  BY <1>7 DEF Nth
<1> HIDE DEF Upto, c, r
<1>10. ASSUME NEW i \in S PROVE Nth(S, Rank(S, i)) = i
  <2>1. Rank(S, i) \in 1 .. c
    BY <1>2
  <2>2. Nth(S, Rank(S, i)) \in S /\ Rank(S, Nth(S, Rank(S, i))) = Rank(S, i)
    BY <1>9, <2>1
  <2> QED
    BY <1>8, <2>2
<1> USE DEF c
<1> QED
  BY <1>1, <1>2, <1>9, <1>10

\* Every element of a selection is one of the selected.
LEMMA ElementsAmong ==
  ASSUME NEW S \in SUBSET Nat, IsFiniteSet(S), NEW q
  PROVE  /\ Len(Elements(q, S)) = Cardinality(S)
         /\ \A k \in 1 .. Cardinality(S) : \E i \in S : Elements(q, S)[k] = q[i]
<1> DEFINE c == Cardinality(S)
<1>1. c \in Nat /\ \A k \in 1 .. c : Nth(S, k) \in S
  BY Ranks
<1>2. Elements(q, S) = [k \in 1 .. c |-> q[Nth(S, k)]]
  BY DEF Elements
<1> HIDE DEF c
<1>3. Len(Elements(q, S)) = c
  BY <1>1, <1>2
<1>4. \A k \in 1 .. c : \E i \in S : Elements(q, S)[k] = q[i]
  BY <1>1, <1>2
<1> QED
  BY <1>3, <1>4 DEF c

-----------------------------------------------------------------------------
(***************************************************************************)
(* No sleep is longer than the earliest timer.                             *)
(***************************************************************************)

\* All timers of a list still have to run.
Running(list) == \A i \in 1 .. Len(list) : list[i].timeout > 0

\* No timer of the list runs out in less than n.
Covered(list, n) == \A i \in 1 .. Len(list) : n <= list[i].timeout

\* As long as no interrupt has called the sleep off, the timeout that
\* osal_next_timeout gave, and what halSleep makes of it, are still those of
\* the list: none of them stands for "no timer".
InTimeInv ==
  halSleepPconValue /\ timers # << >> =>
    /\ pc \in {"timeout", "decide"} => timeout > 0 /\ Covered(timers, timeout)
    /\ pc = "decide" => mode = "timer"
    /\ pc \in {"armed", "asleep"} => mode = "timer" /\ Covered(timers, sleepTimer)

SleepInv ==
  /\ TypeOK
  /\ Running(timers)
  /\ pc = "asleep" => halSleepPconValue
  /\ InTimeInv

\* No timer is started with 0, which osal_next_timeout could not tell from no
\* timer, and the constants of hal_key.c and OSAL_Timers.h are not 0 either.
NoZeroTimeouts == 0 \notin Timeouts /\ Debounce > 0 /\ MaxTimeout > 0

LEMMA Least ==
  ASSUME NEW S \in SUBSET Nat, S # {}
  PROVE  \E n \in S : \A m \in S : n <= m
<1>1. PICK n \in S : \A m \in S : ~(<<m, n>> \in OpToRel(<, Nat))
  BY WFMin, NatLessThanWellFounded
<1>2. \A m \in S : n \in Nat /\ m \in Nat /\ ~(m < n)
  BY <1>1 DEF OpToRel
<1> QED
  BY <1>2

\* osal_next_timeout with timers that all have to run.
LEMMA NextTimeoutIs ==
  ASSUME NEW list \in Seq(Record), list # << >>, Running(list), NEW max \in Nat, max > 0
  PROVE  NextTimeout(list, max) \in Nat /\ NextTimeout(list, max) > 0 /\ Covered(list, NextTimeout(list, max))
<1> DEFINE S == {max} \cup {list[i].timeout : i \in 1 .. Len(list)}
           Low(n) == n <= max /\ \A i \in 1 .. Len(list) : n <= list[i].timeout
<1>1. \A i \in 1 .. Len(list) : list[i].timeout \in Nat /\ list[i].timeout > 0
  <2>1. \A r \in Record : r.timeout \in Nat
    BY DEF Record
  <2>2. \A i \in 1 .. Len(list) : list[i] \in Record
    OBVIOUS
  <2> QED
    BY <2>1, <2>2 DEF Running
<1>2. S \in SUBSET Nat /\ S # {} /\ \A n \in S : n > 0
  BY <1>1
<1>3. \E n \in S : Low(n)
  <2>1. PICK n \in S : \A m \in S : n <= m
    <3> HIDE DEF S
    <3> QED
      BY <1>2, Least
  <2> QED
    BY <2>1
<1>4. NextTimeout(list, max) = CHOOSE n \in S : Low(n)
  BY DEF NextTimeout
<1> HIDE DEF S
<1>5. NextTimeout(list, max) \in S /\ Low(NextTimeout(list, max))
  <2> HIDE DEF Low
  <2> QED
    BY <1>3, <1>4
<1> QED
  BY <1>2, <1>5 DEF Covered

\* osalAddTimer with a timeout that has to run.
LEMMA AddTimerIs ==
  ASSUME NEW list \in Seq(Record), Running(list), NEW t \in Tasks, NEW n \in Nat, n > 0
  PROVE  AddTimer(list, t, Ev, n) \in Seq(Record) /\ Running(AddTimer(list, t, Ev, n))
<1> DEFINE new == AddTimer(list, t, Ev, n)
<1>1. Len(list) \in Nat /\ \A i \in 1 .. Len(list) : list[i] \in Record /\ list[i].timeout > 0
  BY DEF Running
<1>2. CASE FindTimer(list, t, Ev) # {}
  <2>1. new = [i \in 1 .. Len(list) |->
                 IF i \in FindTimer(list, t, Ev) THEN [list[i] EXCEPT !.timeout = n] ELSE list[i]]
    BY <1>2 DEF AddTimer
  <2>2. ASSUME NEW i \in 1 .. Len(list)
        PROVE  new[i] \in Record /\ new[i].timeout > 0
    <3>1. list[i] \in Record /\ list[i].timeout > 0
      BY <1>1
    <3>2. [list[i] EXCEPT !.timeout = n] \in Record /\ [list[i] EXCEPT !.timeout = n].timeout = n
      BY <3>1 DEF Record
    <3>3. new[i] = [list[i] EXCEPT !.timeout = n] \/ new[i] = list[i]
      BY <2>1
    <3> HIDE DEF new
    <3> QED
      BY <3>1, <3>2, <3>3
  <2>3. new \in Seq(Record) /\ Len(new) = Len(list)
    <3> HIDE DEF new
    <3>1. new \in [1 .. Len(list) -> Record]
      BY <2>1, <2>2
    <3> QED
      BY <1>1, <3>1
  <2> HIDE DEF new
  <2>4. Running(new)
    BY <2>2, <2>3 DEF Running
  <2> QED
    BY <2>3, <2>4 DEF new
<1>3. CASE FindTimer(list, t, Ev) = {}
  <2>1. PICK r : r = NewTimer(t, Ev, n)
    OBVIOUS
  <2>2. r \in Record /\ r.timeout = n
    BY <2>1 DEF NewTimer, Record
  <2>3. new = Append(list, r)
    BY <1>3, <2>1 DEF AddTimer
  <2> HIDE DEF new
  <2>4. new \in Seq(Record) /\ Len(new) = Len(list) + 1 /\ new[Len(list) + 1] = r
        /\ \A i \in 1 .. Len(list) : new[i] = list[i]
    BY <2>2, <2>3
  <2>5. Running(new)
    <3>1. ASSUME NEW i \in 1 .. Len(list) + 1 PROVE new[i].timeout > 0
      <4>1. CASE i = Len(list) + 1
        BY <2>2, <2>4, <4>1
      <4>2. CASE i \in 1 .. Len(list)
        BY <1>1, <2>4, <4>2
      <4> QED
        BY <1>1, <4>1, <4>2
    <3> QED
      BY <2>4, <3>1 DEF Running
  <2> QED
    BY <2>4, <2>5 DEF new
<1> QED
  BY <1>2, <1>3

\* osalTimerUpdate leaves the timers that still have to run.
LEMMA AfterUpdateIs ==
  ASSUME timers \in Seq(Record), NEW u \in Nat
  PROVE  AfterUpdate(u) \in Seq(Record) /\ Running(AfterUpdate(u))
<1> DEFINE elapsed == [i \in 1 .. Len(timers) |-> Updated(timers[i], u)]
           S == {i \in 1 .. Len(timers) : ~IsSpent(elapsed[i])}
<1>1. ASSUME NEW i \in 1 .. Len(timers)
      PROVE  Updated(timers[i], u) \in Record
  <2>1. PICK r \in Record : r = timers[i]
    OBVIOUS
  <2>2. r.timeout \in Nat /\ r.reload \in Nat
    BY DEF Record
  <2>3. Elapse(r.timeout, u) \in Nat
    BY <2>2 DEF Elapse
  <2>4. PICK n \in Nat : n = IF Reloads(r, u) THEN r.reload ELSE Elapse(r.timeout, u)
    BY <2>2, <2>3
  <2>5. Updated(r, u) = [r EXCEPT !.timeout = n]
    BY <2>4 DEF Updated
  <2> QED
    BY <2>1, <2>5 DEF Record
<1>2. S \in SUBSET Nat /\ IsFiniteSet(S) /\ Len(timers) \in Nat
  <2>1. PICK n \in Nat : n = Len(timers)
    OBVIOUS
  <2>2. IsFiniteSet(1 .. n) /\ 1 .. n \in SUBSET Nat
    BY FS_Interval
  <2>3. S \in SUBSET (1 .. n)
    BY <2>1
  <2> HIDE DEF S
  <2>4. IsFiniteSet(S)
    BY <2>2, <2>3, FS_Subset
  <2> QED
    BY <2>1, <2>2, <2>3, <2>4
<1>3. \A i \in S : elapsed[i] \in Record /\ elapsed[i].timeout > 0
  <2> SUFFICES ASSUME NEW i \in S PROVE elapsed[i] \in Record /\ elapsed[i].timeout > 0
    OBVIOUS
  <2>1. elapsed[i] \in Record
    BY <1>1
  <2>2. elapsed[i].timeout # 0
    BY DEF IsSpent
  <2>3. elapsed[i].timeout \in Nat
    BY <2>1 DEF Record
  <2> HIDE DEF elapsed
  <2> QED
    BY <2>1, <2>2, <2>3
<1>4. AfterUpdate(u) = Elements(elapsed, S)
  BY DEF AfterUpdate
<1> HIDE DEF elapsed, S
<1>5. PICK c \in Nat : c = Cardinality(S)
  BY <1>2, FS_CardinalityType
<1>6. Len(AfterUpdate(u)) = c /\ \A k \in 1 .. c : \E i \in S : AfterUpdate(u)[k] = elapsed[i]
  BY <1>2, <1>4, <1>5, ElementsAmong
<1>7. \A k \in 1 .. c : AfterUpdate(u)[k] \in Record /\ AfterUpdate(u)[k].timeout > 0
  BY <1>3, <1>6
<1>8. AfterUpdate(u) = [k \in 1 .. c |-> elapsed[Nth(S, k)]]
  BY <1>4, <1>5 DEF Elements
<1>9. AfterUpdate(u) \in Seq(Record)
  <2> HIDE DEF AfterUpdate
  <2>1. AfterUpdate(u) \in [1 .. c -> Record]
    BY <1>7, <1>8
  <2> QED
    BY <2>1
<1> QED
  BY <1>6, <1>7, <1>9 DEF Running
LEMMA SleepInit == Init => SleepInv
<1> SUFFICES ASSUME Init PROVE SleepInv
  OBVIOUS
<1>1. TypeOK
  BY TasksAssumption, TimesAssumption DEF Init, TypeOK, Tasks
<1>2. Running(timers)
  BY DEF Init, Running
<1> QED
  BY <1>1, <1>2 DEF Init, SleepInv, InTimeInv

\* Where the list stays and no sleep is under way there is nothing to show.
LEMMA SleepAway ==
  ASSUME SleepInv, timers' = timers, TypeOK',
         pc' \notin {"timeout", "decide", "armed", "asleep"}
  PROVE  SleepInv'
BY DEF SleepInv, Running, InTimeInv

\* The list, the timeouts and the power mode stay; a sleep may be called off.
LEMMA SleepStays ==
  ASSUME SleepInv, timers' = timers, timeout' = timeout, mode' = mode,
         sleepTimer' = sleepTimer, pc' = pc, TypeOK',
         halSleepPconValue' = halSleepPconValue \/ (halSleepPconValue' = FALSE /\ pc # "asleep")
  PROVE  SleepInv'
BY DEF SleepInv, Running, InTimeInv, Covered

\* A timer is started while the sleep is called off, or none is under way.
LEMMA SleepStarts ==
  ASSUME SleepInv, NEW t \in Tasks, NEW n \in Nat, n > 0, timers' = AddTimer(timers, t, Ev, n),
         timers' \in Seq(Record) => TypeOK',
         halSleepPconValue' = FALSE \/ pc' = "handler", pc' # "asleep"
  PROVE  SleepInv'
<1>1. timers' \in Seq(Record) /\ Running(timers)'
  <2>1. AddTimer(timers, t, Ev, n) \in Seq(Record) /\ Running(AddTimer(timers, t, Ev, n))
    BY AddTimerIs DEF SleepInv, TypeOK
  <2> QED
    BY <2>1 DEF Running
<1> QED
  BY <1>1 DEF SleepInv, InTimeInv

LEMMA SleepPass ==
  ASSUME SleepInv, TimeUpdate \/ AllowSleep \/ Scan \/ Return \/ WakeUp
  PROVE  SleepInv'
<1>1. CASE TimeUpdate
  <2>1. timers' \in Seq(Record) /\ Running(timers)'
    <3>1. CASE lag > 0
      <4>1. AfterUpdate(lag) \in Seq(Record) /\ Running(AfterUpdate(lag))
        BY AfterUpdateIs DEF SleepInv, TypeOK
      <4>2. timers' = AfterUpdate(lag)
        BY <1>1, <3>1 DEF TimeUpdate
      <4> QED
        BY <4>1, <4>2 DEF Running
    <3>2. CASE ~(lag > 0)
      BY <1>1, <3>2 DEF TimeUpdate, SleepInv, TypeOK, Running
    <3> QED
      BY <3>1, <3>2
  <2>2. tasksEvents' \subseteq Tasks
    BY <1>1 DEF TimeUpdate, SleepInv, TypeOK, Expired
  <2>3. TypeOK'
    BY <1>1, <2>1, <2>2 DEF TimeUpdate, SleepInv, TypeOK, pwrVars, sleepVars
  <2>4. pc' = "poll"
    BY <1>1 DEF TimeUpdate
  <2>5. InTimeInv'
    BY <2>4 DEF InTimeInv
  <2> QED
    BY <2>1, <2>3, <2>4, <2>5 DEF SleepInv
<1>2. CASE AllowSleep \/ Return \/ WakeUp
  <2>1. TypeOK'
    <3>1. CASE AllowSleep
      <4>1. 0 \in Tasks
        BY TasksAssumption DEF Tasks
      <4> QED
        BY <3>1, <4>1 DEF AllowSleep, SleepInv, TypeOK, pwrVars, sleepVars
    <3>2. CASE Return
      BY <3>2 DEF Return, SleepInv, TypeOK, pwrVars, sleepVars
    <3>3. CASE WakeUp
      BY <3>3 DEF WakeUp, SleepInv, TypeOK, pwrVars
    <3> QED
      BY <1>2, <3>1, <3>2, <3>3
  <2>2. timers' = timers /\ pc' \in {"scan", "update"}
    BY <1>2 DEF AllowSleep, Return, WakeUp
  <2> QED
    BY <2>1, <2>2, SleepAway
<1>3. CASE Scan
  <2>1. idx' \in Tasks /\ pc' \in {"handler", "scan", "conserve"}
    BY <1>3, TasksAssumption DEF Scan, SleepInv, TypeOK, Tasks
  <2>2. tasksEvents' \subseteq Tasks /\ timers' = timers
    BY <1>3 DEF Scan, SleepInv, TypeOK
  <2>3. TypeOK'
    BY <1>3, <2>1, <2>2 DEF Scan, SleepInv, TypeOK, pwrVars, sleepVars
  <2> QED
    BY <2>1, <2>2, <2>3, SleepAway
<1> QED
  BY <1>1, <1>2, <1>3

LEMMA SleepHandler ==
  ASSUME NoZeroTimeouts, SleepInv, Handler
  PROVE  SleepInv'
<1>1. ASSUME NEW n \in Timeouts, HandlerStartTimer(n)
      PROVE  SleepInv'
  <2>1. n \in Nat /\ n > 0
    BY TimesAssumption DEF NoZeroTimeouts
  <2>2. timers' = AddTimer(timers, idx, Ev, n) /\ pc' = "handler"
    BY <1>1 DEF HandlerStartTimer, Start
  <2>3. timers' \in Seq(Record) => TypeOK'
    BY <1>1, TimesAssumption DEF HandlerStartTimer, Start, SleepInv, TypeOK, pwrVars, sleepVars
  <2>4. PICK t \in Tasks : t = idx
    BY DEF SleepInv, TypeOK
  <2> QED
    BY <2>1, <2>2, <2>3, <2>4, SleepStarts
<1>2. CASE HandlerTaskState \/ HandlerDevice
  <2>1. TypeOK'
    BY <1>2 DEF HandlerTaskState, HandlerDevice, SleepInv, TypeOK, sleepVars
  <2> QED
    BY <1>2, <2>1, SleepAway DEF HandlerTaskState, HandlerDevice
<1> QED
  BY <1>1, <1>2 DEF Handler

LEMMA SleepConserve ==
  ASSUME NoZeroTimeouts, SleepInv, PowerConserve \/ ChooseTimeout \/ Decide \/ SetSleepMode
  PROVE  SleepInv'
<1>1. CASE PowerConserve
  <2>1. CASE device # "always_on" /\ holding = {}
    <3>1. timeout' = NextTimeout(timers, MaxTimeout) /\ timers' = timers /\ pc' = "timeout"
      BY <1>1, <2>1 DEF PowerConserve
    <3>2. timeout' \in Nat /\ (timers # << >> => timeout' > 0 /\ Covered(timers, timeout'))
      <4>1. CASE timers = << >>
        BY <3>1, <4>1 DEF NextTimeout
      <4>2. CASE timers # << >>
        <5>1. MaxTimeout \in Nat /\ MaxTimeout > 0 /\ timers \in Seq(Record) /\ Running(timers)
          BY TimesAssumption DEF NoZeroTimeouts, SleepInv, TypeOK
        <5> QED
          BY <3>1, <4>2, <5>1, NextTimeoutIs
      <4> QED
        BY <4>1, <4>2
    <3>3. TypeOK'
      BY <1>1, <3>1, <3>2 DEF PowerConserve, SleepInv, TypeOK, pwrVars
    <3> QED
      BY <3>1, <3>2, <3>3 DEF SleepInv, InTimeInv, Running, Covered
  <2>2. CASE ~(device # "always_on" /\ holding = {})
    <3>1. timeout' = timeout /\ timers' = timers /\ pc' = "update"
      BY <1>1, <2>2 DEF PowerConserve
    <3>2. TypeOK'
      BY <1>1, <3>1 DEF PowerConserve, SleepInv, TypeOK, pwrVars
    <3> QED
      BY <3>1, <3>2, SleepAway
  <2> QED
    BY <2>1, <2>2
<1>2. CASE ChooseTimeout
  <2>1. PICK macTimeout \in MacTimeouts :
          /\ timeout' = Lesser(timeout, macTimeout)
          /\ mode' = IF timeout' = 0 THEN "deep" ELSE "timer"
          /\ pc' \in {"decide", "update"}
    BY <1>2 DEF ChooseTimeout
  <2>2. timeout \in Nat /\ macTimeout \in Nat /\ pc = "timeout"
    BY <1>2, TimesAssumption DEF ChooseTimeout, SleepInv, TypeOK
  <2>3. timeout' \in Nat /\ (timeout > 0 => timeout' > 0 /\ timeout' <= timeout)
    BY <2>1, <2>2 DEF Lesser
  <2>4. /\ timers' = timers /\ halSleepPconValue' = halSleepPconValue
        /\ sleepTimer' = sleepTimer /\ mode' \in {"deep", "timer"}
    BY <1>2, <2>1 DEF ChooseTimeout
  <2>5. TypeOK'
    BY <1>2, <2>1, <2>3, <2>4 DEF ChooseTimeout, SleepInv, TypeOK, pwrVars
  <2>6. ASSUME halSleepPconValue, timers # << >>
        PROVE  timeout' > 0 /\ Covered(timers, timeout') /\ mode' = "timer"
    <3>1. timeout > 0 /\ Covered(timers, timeout)
      BY <2>2, <2>6 DEF SleepInv, InTimeInv
    <3>2. \A i \in 1 .. Len(timers) : timers[i].timeout \in Nat
      <4>1. \A r \in Record : r.timeout \in Nat
        BY DEF Record
      <4>2. \A i \in 1 .. Len(timers) : timers[i] \in Record
        BY DEF SleepInv, TypeOK
      <4> QED
        BY <4>1, <4>2
    <3>3. Covered(timers, timeout')
      BY <2>2, <2>3, <3>1, <3>2 DEF Covered
    <3> QED
      BY <2>1, <2>3, <3>1, <3>3
  <2> QED
    BY <2>1, <2>4, <2>5, <2>6 DEF SleepInv, InTimeInv, Running, Covered
<1>3. CASE Decide
  <2>1. CASE pc' = "update"
    <3>1. TypeOK'
      BY <1>3, <2>1, TimesAssumption DEF Decide, SleepInv, TypeOK, pwrVars
    <3> QED
      BY <1>3, <2>1, <3>1, SleepAway DEF Decide
  <2>2. CASE pc' # "update"
    <3>1. /\ pc = "decide" /\ pc' = "armed" /\ halSleepPconValue /\ halSleepPconValue' = TRUE
          /\ sleepTimer' = IF timeout > MaxSleepLoop THEN MaxSleepLoop ELSE timeout
      BY <1>3, <2>2 DEF Decide
    <3>2. timers' = timers /\ mode' = mode
      BY <1>3 DEF Decide
    <3>3. timeout \in Nat /\ MaxSleepLoop \in Nat
      BY TimesAssumption DEF SleepInv, TypeOK
    <3>4. sleepTimer' \in Nat /\ sleepTimer' <= timeout
      BY <3>1, <3>3
    <3>5. TypeOK'
      BY <1>3, <3>1, <3>4 DEF Decide, SleepInv, TypeOK, pwrVars
    <3>6. ASSUME timers # << >>
          PROVE  mode = "timer" /\ Covered(timers, sleepTimer')
      <4>1. mode = "timer" /\ Covered(timers, timeout)
        BY <3>1, <3>6 DEF SleepInv, InTimeInv
      <4>2. \A i \in 1 .. Len(timers) : timers[i].timeout \in Nat
        <5>1. \A r \in Record : r.timeout \in Nat
          BY DEF Record
        <5>2. \A i \in 1 .. Len(timers) : timers[i] \in Record
          BY DEF SleepInv, TypeOK
        <5> QED
          BY <5>1, <5>2
      <4> QED
        BY <3>3, <3>4, <4>1, <4>2 DEF Covered
    <3> QED
      BY <3>1, <3>2, <3>5, <3>6 DEF SleepInv, InTimeInv, Running, Covered
  <2> QED
    BY <2>1, <2>2
<1>4. CASE SetSleepMode
  <2>1. /\ pc = "armed" /\ pc' = IF halSleepPconValue THEN "asleep" ELSE "awake"
        /\ timers' = timers /\ halSleepPconValue' = halSleepPconValue
        /\ timeout' = timeout /\ mode' = mode /\ sleepTimer' = sleepTimer
    BY <1>4 DEF SetSleepMode, sleepVars
  <2>2. TypeOK'
    BY <1>4, <2>1 DEF SetSleepMode, SleepInv, TypeOK, pwrVars, sleepVars
  <2> QED
    BY <2>1, <2>2 DEF SleepInv, InTimeInv, Running, Covered
<1> QED
  BY <1>1, <1>2, <1>3, <1>4

\* The sleep timer never runs later than it was set.
LEMMA SleepTick ==
  ASSUME SleepInv, Tick
  PROVE  SleepInv'
<1>1. /\ timers' = timers /\ timeout' = timeout /\ mode' = mode /\ pc' = pc
      /\ halSleepPconValue' = halSleepPconValue
      /\ sleepTimer' = IF sleepTimer > 0 THEN sleepTimer - 1 ELSE 0
  BY DEF Tick
<1>2. sleepTimer \in Nat /\ sleepTimer' \in Nat /\ sleepTimer' <= sleepTimer
  BY <1>1 DEF SleepInv, TypeOK
<1>3. TypeOK'
  BY <1>1, <1>2 DEF Tick, SleepInv, TypeOK, pwrVars
<1>4. Covered(timers, sleepTimer) => Covered(timers, sleepTimer')
  <2>1. \A r \in Record : r.timeout \in Nat
    BY DEF Record
  <2>2. \A i \in 1 .. Len(timers) : timers[i] \in Record
    BY DEF SleepInv, TypeOK
  <2>3. \A i \in 1 .. Len(timers) : timers[i].timeout \in Nat
    BY <2>1, <2>2
  <2> QED
    BY <1>2, <2>3 DEF Covered
<1> QED
  BY <1>1, <1>3, <1>4 DEF SleepInv, InTimeInv, Running, Covered

LEMMA SleepInterrupt ==
  ASSUME NoZeroTimeouts, SleepInv, Interrupt
  PROVE  SleepInv'
<1>1. Resumed # "asleep" /\ Resumed \in PCs /\ (pc # "asleep" => Resumed = pc)
  BY DEF Resumed, SleepInv, TypeOK, PCs
<1>2. CASE SleepTimerIsr
  <2>1. TypeOK'
    BY <1>1, <1>2 DEF SleepTimerIsr, SleepInv, TypeOK, PCs, pwrVars, sleepVars
  <2>2. timers' = timers /\ halSleepPconValue' = FALSE /\ pc' # "asleep"
    BY <1>1, <1>2 DEF SleepTimerIsr
  <2>3. InTimeInv'
    BY <2>2 DEF InTimeInv
  <2>4. Running(timers)'
    BY <2>2 DEF SleepInv, Running
  <2> QED
    BY <2>1, <2>2, <2>3, <2>4 DEF SleepInv
<1>3. CASE KeyIsr
  <2>1. timers' = AddTimer(timers, HalTask, Ev, Debounce) /\ halSleepPconValue' = FALSE /\ pc' = Resumed
    BY <1>3 DEF KeyIsr, Start
  <2>2. timers' \in Seq(Record) => TypeOK'
    <3>1. starts' \in 0 .. MaxStarts
      BY <1>3, TimesAssumption DEF KeyIsr, Start, SleepInv, TypeOK
    <3>2. pc' \in PCs
      BY <1>1, <2>1
    <3> QED
      BY <1>3, <2>1, <3>1, <3>2 DEF KeyIsr, SleepInv, TypeOK, PCs, pwrVars, sleepVars
  <2>3. HalTask \in Tasks /\ Debounce \in Nat /\ Debounce > 0
    BY TasksAssumption, TimesAssumption DEF NoZeroTimeouts
  <2> QED
    BY <1>1, <2>1, <2>2, <2>3, SleepStarts
<1>4. CASE MacIsr
  <2>1. 0 \in Tasks
    BY TasksAssumption DEF Tasks
  <2>2. TypeOK'
    BY <1>4, <2>1 DEF MacIsr, SleepInv, TypeOK, pwrVars, sleepVars
  <2> QED
    BY <1>4, <2>2, SleepStays DEF MacIsr, Masked, sleepVars
<1>5. CASE ZnpPort0Isr
  <2>1. TypeOK'
    BY <1>1, <1>5, TasksAssumption DEF ZnpPort0Isr, SleepInv, TypeOK, PCs, pwrVars, sleepVars
  <2>2. CASE pc = "asleep"
    <3>1. pc' = "awake" /\ timers' = timers
      BY <1>5, <2>2 DEF ZnpPort0Isr, Resumed
    <3> QED
      BY <2>1, <3>1, SleepAway
  <2>3. CASE pc # "asleep"
    BY <1>1, <1>5, <2>1, <2>3, SleepStays DEF ZnpPort0Isr, sleepVars
  <2> QED
    BY <2>2, <2>3
<1> QED
  BY <1>2, <1>3, <1>4, <1>5 DEF Interrupt

LEMMA SleepStep ==
  ASSUME NoZeroTimeouts, SleepInv, [Next]_vars
  PROVE  SleepInv'
<1>1. CASE Next
  BY <1>1, SleepPass, SleepConserve, SleepHandler, SleepTick, SleepInterrupt DEF Next, Loop
<1>2. CASE UNCHANGED vars
  <2>1. TypeOK'
    BY <1>2 DEF vars, sleepVars, pwrVars, SleepInv, TypeOK
  <2> QED
    BY <1>2, <2>1, SleepStays DEF vars
<1> QED
  BY <1>1, <1>2

\* The processor never sleeps beyond its earliest timer, whatever interrupts
\* start timers behind the decision to sleep, for any timeouts but 0.
THEOREM NothingIsOverslept ==
  ASSUME NoZeroTimeouts
  PROVE  Spec => []SleepOK
<1>1. Init => SleepInv
  BY SleepInit
<1>2. SleepInv /\ [Next]_vars => SleepInv'
  BY SleepStep
<1>3. SleepInv => SleepOK
  <2> SUFFICES ASSUME SleepInv, pc = "asleep", NEW i \in 1 .. Len(timers)
               PROVE  mode = "timer" /\ sleepTimer <= timers[i].timeout
    BY DEF SleepOK, SleepInv, NeverOversleeps
  <2>1. timers # << >>
    OBVIOUS
  <2> QED
    BY <2>1 DEF SleepInv, InTimeInv, Covered
<1> QED
  BY <1>1, <1>2, <1>3, PTL DEF Spec
=============================================================================
