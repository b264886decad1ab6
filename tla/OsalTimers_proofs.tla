-------------------------- MODULE OsalTimers_proofs --------------------------
(***************************************************************************)
(* Proofs about OsalTimers, for any tasks, flags and timeouts, any room    *)
(* for timers, and any time between two readings of the clock.             *)
(***************************************************************************)
EXTENDS OsalTimers, SequenceTheorems, TLAPS

LEMMA Sizes ==
  /\ NoFlag \notin Flags /\ IsrTask \in Tasks /\ IsrFlag \in Flags
  /\ Timeouts \subseteq Nat /\ MaxTimers \in Nat /\ MaxLag \in Nat /\ MaxStarts \in Nat
BY NoFlagAssumption, IsrTimerAssumption, TimeoutsAssumption, BoundsAssumption

HistRec == [asked : Nat, age : Nat, charge : Nat]

-----------------------------------------------------------------------------
(***************************************************************************)
(* Lists of timer records.                                                 *)
(***************************************************************************)

\* No two live records are of one timer.
Unique(list) ==
  \A i, j \in 1 .. Len(list) :
    i # j /\ list[i].flag # NoFlag =>
      <<list[i].task, list[i].flag>> # <<list[j].task, list[j].flag>>

None(list, t, f) == \A i \in 1 .. Len(list) : ~IsTimer(list[i], t, f)

\* new is list with the timer of t and f at p given the timeout n.
Given(list, new, t, f, n, p) ==
  /\ new \in Seq(Record) /\ p \in 1 .. Len(new)
  /\ IsTimer(new[p], t, f) /\ new[p].timeout = n
  /\ FindTimer(new, t, f) = {p}
  /\ \A i \in 1 .. Len(new) :
       i # p => i <= Len(list) /\ new[i] = list[i] /\ ~IsTimer(new[i], t, f)
  /\ \/ Len(new) = Len(list)
     \/ Len(new) = Len(list) + 1 /\ p = Len(new) /\ FindTimer(list, t, f) = {}

\* The fields of a record.
LEMMA RecordFields ==
  ASSUME NEW r \in Record, NEW n \in Nat
  PROVE  /\ [r EXCEPT !.timeout = n] \in Record
         /\ [r EXCEPT !.timeout = n].timeout = n
         /\ \A t, f : IsTimer([r EXCEPT !.timeout = n], t, f) <=> IsTimer(r, t, f)
         /\ [r EXCEPT !.reload = n] \in Record
         /\ [r EXCEPT !.reload = n].timeout = r.timeout
         /\ \A t, f : IsTimer([r EXCEPT !.reload = n], t, f) <=> IsTimer(r, t, f)
         /\ [r EXCEPT !.flag = NoFlag] \in Record
         /\ [r EXCEPT !.flag = NoFlag].flag = NoFlag
BY DEF Record, IsTimer

\* A live timer is found where it is.
LEMMA Found ==
  ASSUME NEW list \in Seq(Record), Unique(list), NEW t \in Tasks, NEW f \in Flags
  PROVE  /\ \A p \in 1 .. Len(list) : IsTimer(list[p], t, f) => FindTimer(list, t, f) = {p}
         /\ FindTimer(list, t, f) = {} => None(list, t, f)
         /\ \A p \in FindTimer(list, t, f) :
              p \in 1 .. Len(list) /\ IsTimer(list[p], t, f)
<1>1. \A i, j \in 1 .. Len(list) :
        IsTimer(list[i], t, f) /\ IsTimer(list[j], t, f) => i = j
  BY Sizes DEF Unique, IsTimer
<1>2. ASSUME NEW p \in 1 .. Len(list), IsTimer(list[p], t, f)
      PROVE  FindTimer(list, t, f) = {p}
  <2>1. \A j \in 1 .. p - 1 : j \in 1 .. Len(list) /\ j # p
    OBVIOUS
  <2> QED
    BY <1>1, <1>2, <2>1 DEF FindTimer
<1>3. \A p \in FindTimer(list, t, f) : p \in 1 .. Len(list) /\ IsTimer(list[p], t, f)
  BY DEF FindTimer
<1> QED
  BY <1>2, <1>3 DEF None

LEMMA NewTimerType ==
  ASSUME NEW t \in Tasks, NEW f \in Flags, NEW n \in Nat
  PROVE  NewTimer(t, f, n) \in Record /\ IsTimer(NewTimer(t, f, n), t, f)
         /\ NewTimer(t, f, n).timeout = n
BY DEF NewTimer, Record, IsTimer

\* osalAddTimer.
LEMMA AddTimerGives ==
  ASSUME NEW list \in Seq(Record), Unique(list),
         NEW t \in Tasks, NEW f \in Flags, NEW n \in Nat
  PROVE  \E p \in Nat : Given(list, AddTimer(list, t, f, n), t, f, n, p)
<1> DEFINE new == AddTimer(list, t, f, n)
<1>1. CASE FindTimer(list, t, f) # {}
  <2>1. PICK p \in 1 .. Len(list) : IsTimer(list[p], t, f) /\ FindTimer(list, t, f) = {p}
    BY <1>1, Found
  <2>2. new = [i \in 1 .. Len(list) |->
                 IF i = p THEN [list[i] EXCEPT !.timeout = n] ELSE list[i]]
    BY <1>1, <2>1 DEF AddTimer
  <2>3. /\ [list[p] EXCEPT !.timeout = n] \in Record
        /\ [list[p] EXCEPT !.timeout = n].timeout = n
        /\ IsTimer([list[p] EXCEPT !.timeout = n], t, f)
    BY <2>1, ElementOfSeq, RecordFields
  <2>4. /\ new \in Seq(Record) /\ Len(new) = Len(list)
        /\ new[p] = [list[p] EXCEPT !.timeout = n]
        /\ \A i \in 1 .. Len(list) : i # p => new[i] = list[i]
    BY <2>2, <2>3
  <2>5. IsTimer(new[p], t, f) /\ new[p].timeout = n
    BY <2>3, <2>4
  <2> HIDE DEF new
  <2>6. \A i \in 1 .. Len(new) : i # p => ~IsTimer(new[i], t, f)
    BY <2>1, <2>4, Sizes DEF Unique, IsTimer
  <2>7. FindTimer(new, t, f) = {p}
    BY <2>4, <2>5, <2>6 DEF FindTimer
  <2>8. Given(list, new, t, f, n, p)
    BY <2>4, <2>5, <2>6, <2>7 DEF Given
  <2> QED
    BY <2>8 DEF new
<1>2. CASE FindTimer(list, t, f) = {}
  <2> DEFINE p == Len(list) + 1
  <2>1. new = Append(list, NewTimer(t, f, n)) /\ None(list, t, f)
    BY <1>2, Found DEF AddTimer
  <2>2. NewTimer(t, f, n) \in Record
    BY NewTimerType
  <2>3. /\ new \in Seq(Record) /\ Len(new) = p /\ new[p] = NewTimer(t, f, n)
        /\ \A i \in 1 .. Len(list) : new[i] = list[i]
    BY <2>1, <2>2, AppendProperties
  <2>4. IsTimer(new[p], t, f) /\ new[p].timeout = n
    BY <2>3, NewTimerType
  <2>5. \A i \in 1 .. Len(new) : i # p => i <= Len(list) /\ ~IsTimer(new[i], t, f)
    BY <2>1, <2>3 DEF None
  <2> HIDE DEF new
  <2>6. FindTimer(new, t, f) = {p}
    BY <2>3, <2>4, <2>5 DEF FindTimer
  <2>7. Given(list, new, t, f, n, p)
    BY <1>2, <2>3, <2>4, <2>5, <2>6 DEF Given
  <2> QED
    BY <2>7 DEF new
<1> QED
  BY <1>1, <1>2

\* osal_start_reload_timer.
LEMMA AddReloadTimerGives ==
  ASSUME NEW list \in Seq(Record), Unique(list),
         NEW t \in Tasks, NEW f \in Flags, NEW n \in Nat
  PROVE  \E p \in Nat : Given(list, AddReloadTimer(list, t, f, n), t, f, n, p)
<1> DEFINE added == AddTimer(list, t, f, n)
           new == AddReloadTimer(list, t, f, n)
<1>1. PICK p \in Nat : Given(list, added, t, f, n, p)
  BY AddTimerGives
<1>2. new = [i \in 1 .. Len(added) |->
               IF i \in FindTimer(added, t, f) THEN [added[i] EXCEPT !.reload = n] ELSE added[i]]
  BY DEF AddReloadTimer
<1> HIDE DEF added, new
<1>3. /\ added \in Seq(Record) /\ p \in 1 .. Len(added)
      /\ IsTimer(added[p], t, f) /\ added[p].timeout = n /\ FindTimer(added, t, f) = {p}
  BY <1>1 DEF Given
<1> DEFINE loaded == [added[p] EXCEPT !.reload = n]
<1>4. loaded \in Record /\ loaded.timeout = n /\ IsTimer(loaded, t, f)
  BY <1>3, ElementOfSeq, RecordFields
<1>5. /\ new \in Seq(Record) /\ Len(new) = Len(added) /\ new[p] = loaded
      /\ \A i \in 1 .. Len(added) : i # p => new[i] = added[i]
  <2>1. new = [i \in 1 .. Len(added) |-> IF i = p THEN loaded ELSE added[i]]
    BY <1>2, <1>3
  <2> HIDE DEF loaded
  <2> QED
    BY <1>3, <1>4, <2>1
<1>6. IsTimer(new[p], t, f) /\ new[p].timeout = n
  BY <1>4, <1>5
<1>7. \A i \in 1 .. Len(new) :
        i # p => i <= Len(list) /\ new[i] = list[i] /\ ~IsTimer(new[i], t, f)
  BY <1>1, <1>5 DEF Given
<1>8. FindTimer(new, t, f) = {p}
  BY <1>3, <1>5, <1>6, <1>7 DEF FindTimer
<1>9. \/ Len(new) = Len(list)
      \/ Len(new) = Len(list) + 1 /\ p = Len(new) /\ FindTimer(list, t, f) = {}
  BY <1>1, <1>5 DEF Given
<1>10. Given(list, new, t, f, n, p)
  BY <1>3, <1>5, <1>6, <1>7, <1>8, <1>9 DEF Given
<1> QED
  BY <1>10 DEF new

\* osalDeleteTimer.
LEMMA DeleteTimerGives ==
  ASSUME NEW list \in Seq(Record), Unique(list),
         NEW t \in Tasks, NEW f \in Flags, FindTimer(list, t, f) # {}
  PROVE  LET new == DeleteTimer(list, t, f)
         IN  /\ new \in Seq(Record) /\ Len(new) = Len(list) /\ None(new, t, f)
             /\ \A i \in 1 .. Len(list) : new[i] = list[i] \/ new[i].flag = NoFlag
<1> DEFINE new == DeleteTimer(list, t, f)
<1>1. PICK p \in 1 .. Len(list) : IsTimer(list[p], t, f) /\ FindTimer(list, t, f) = {p}
  BY Found
<1>2. new = [i \in 1 .. Len(list) |->
               IF i = p THEN [list[i] EXCEPT !.flag = NoFlag] ELSE list[i]]
  BY <1>1 DEF DeleteTimer
<1> DEFINE gone == [list[p] EXCEPT !.flag = NoFlag]
<1>3. gone \in Record /\ gone.flag = NoFlag
  BY ElementOfSeq, RecordFields
<1> HIDE DEF gone
<1>4. /\ new \in Seq(Record) /\ Len(new) = Len(list) /\ new[p] = gone
      /\ \A i \in 1 .. Len(list) : i # p => new[i] = list[i]
  <2>1. new = [i \in 1 .. Len(list) |-> IF i = p THEN gone ELSE list[i]]
    BY <1>2 DEF gone
  <2> HIDE DEF new
  <2> QED
    BY <1>3, <2>1
<1> HIDE DEF new
<1>5. None(new, t, f)
  BY <1>1, <1>3, <1>4, Sizes DEF None, IsTimer, Unique
<1> QED
  BY <1>3, <1>4, <1>5 DEF new

\* osalTimerUpdate takes a record out.
LEMMA RemoveTimerGives ==
  ASSUME NEW S, NEW list \in Seq(S), NEW p \in 1 .. Len(list),
         NEW new, new = RemoveTimer(list, p)
  PROVE  /\ new \in Seq(S) /\ Len(new) = Len(list) - 1
         /\ \A j \in 1 .. Len(new) :
              /\ j < p => new[j] = list[j]
              /\ j >= p => new[j] = list[j + 1] /\ j + 1 \in 1 .. Len(list)
BY DEF RemoveTimer
-----------------------------------------------------------------------------
(***************************************************************************)
(* The inductive invariant.                                                *)
(***************************************************************************)

\* A record and its history, with "due" still to be taken off.
Fits(rec, h, due) ==
  rec.flag # NoFlag =>
    /\ rec.timeout + h.age <= h.asked + due
    /\ h.asked + due <= rec.timeout + h.age + h.charge

\* A record that is spent.
Ripe(rec, h) == rec.flag # NoFlag => h.asked <= h.age + h.charge

Types ==
  /\ timers \in Seq(Record) /\ hist \in Seq(HistRec) /\ Len(hist) = Len(timers)
  /\ freeTimer \in Seq(Record) /\ freeHist \in Seq(HistRec)
  /\ Len(freeHist) = Len(freeTimer) /\ Len(freeTimer) = IF pc = "free" THEN 1 ELSE 0
  /\ tasksEvents \subseteq Keys /\ stopped \subseteq Keys
  /\ lag \in 0 .. MaxLag /\ elapsed \in 0 .. MaxLag /\ starts \in 0 .. MaxStarts
  /\ pc \in {"idle", "update", "walk", "free"} /\ pos \in Nat
  /\ pc = "update" => pos = 1
  /\ pc \in {"walk", "free"} => pos \in 0 .. Len(timers)

Accurate == \A i \in 1 .. Len(timers) : Fits(timers[i], hist[i], DueAt(i))
FreeRipe == \A i \in 1 .. Len(freeTimer) : Ripe(freeTimer[i], freeHist[i])

\* A stopped timer has no record that could set its event.
StoppedGone ==
  \A k \in stopped : None(timers, k[1], k[2]) /\ None(freeTimer, k[1], k[2])

TimerInv == Types /\ UniqueTimers /\ Accurate /\ FreeRipe /\ StoppedGone

LEMMA UniqueIs == UniqueTimers <=> Unique(timers) /\ Len(timers) + Len(freeTimer) <= MaxTimers
BY DEF UniqueTimers, Unique

LEMMA DueType == ASSUME Types, NEW i \in Nat PROVE DueAt(i) \in Nat
BY Sizes DEF Types, DueAt

LEMMA DueStays ==
  ASSUME UNCHANGED <<lag, pc, pos, elapsed>>
  PROVE  \A i : DueAt(i)' = DueAt(i)
BY DEF DueAt

\* The fields of a record and its history.
LEMMA Numbers ==
  ASSUME Types, NEW i \in 1 .. Len(timers)
  PROVE  /\ timers[i] \in Record /\ timers[i].timeout \in Nat /\ timers[i].reload \in Nat
         /\ timers[i].task \in Tasks /\ timers[i].flag \in Flags \union {NoFlag}
         /\ hist[i] \in HistRec
         /\ hist[i].asked \in Nat /\ hist[i].age \in Nat /\ hist[i].charge \in Nat
<1>1. timers[i] \in Record /\ hist[i] \in HistRec
  BY ElementOfSeq DEF Types
<1> QED
  BY <1>1 DEF Record, HistRec

LEMMA InitOK == Init => TimerInv
<1> SUFFICES ASSUME Init PROVE TimerInv
  OBVIOUS
<1>1. Types
  BY Sizes DEF Init, Types
<1>2. UniqueTimers /\ Accurate /\ FreeRipe /\ StoppedGone
  BY Sizes DEF Init, UniqueTimers, Accurate, FreeRipe, StoppedGone
<1> QED
  BY <1>1, <1>2 DEF TimerInv

\* A timer is given a timeout, at any moment of a walk.
LEMMA GivenStep ==
  ASSUME TimerInv, NEW list, NEW t \in Tasks, NEW f \in Flags, NEW n \in Nat, NEW p \in Nat,
         Given(timers, list, t, f, n, p), StartWith(list, t, f, n)
  PROVE  TimerInv'
<1>1. /\ Types /\ Unique(timers) /\ Len(timers) + Len(freeTimer) <= MaxTimers
      /\ Accurate /\ FreeRipe /\ StoppedGone
  BY UniqueIs DEF TimerInv
<1>2. /\ timers' = list /\ stopped' = stopped \ {<<t, f>>} /\ starts' = starts + 1
      /\ starts < MaxStarts /\ RoomFor(t, f)
      /\ UNCHANGED <<tasksEvents, lag, pc, elapsed, pos, freeTimer, freeHist>>
  BY DEF StartWith, walkVars
<1>3. /\ list \in Seq(Record) /\ p \in 1 .. Len(list) /\ IsTimer(list[p], t, f)
      /\ list[p].timeout = n /\ FindTimer(list, t, f) = {p}
      /\ \A i \in 1 .. Len(list) :
           i # p => i <= Len(timers) /\ list[i] = timers[i] /\ ~IsTimer(list[i], t, f)
  BY DEF Given
<1>4. Len(list) \in {Len(timers), Len(timers) + 1} /\ Len(timers) \in Nat /\ Len(list) \in Nat
  BY <1>1, <1>3, LenProperties DEF Given, Types
<1>5. \A i \in 1 .. Len(list) :
        hist'[i] = IF i = p \/ i > Len(hist) THEN History(n, i) ELSE hist[i]
  BY <1>3 DEF StartWith
<1>6. \A i \in 1 .. Len(list) : hist'[i] = IF i = p THEN History(n, i) ELSE hist[i]
  BY <1>1, <1>3, <1>5 DEF Types
<1>7. \A i \in 1 .. Len(list) : History(n, i) \in HistRec
  BY <1>1, DueType DEF History, HistRec
<1>8. hist' \in Seq(HistRec) /\ Len(hist') = Len(list)
  <2>1. \A i \in 1 .. Len(list) :
          (IF i \in FindTimer(list, t, f) \/ i > Len(hist) THEN History(n, i) ELSE hist[i])
            \in HistRec
    BY <1>1, <1>3, <1>4, <1>7, ElementOfSeq DEF Types
  <2> QED
    BY <1>4, <2>1 DEF StartWith
<1>9. Types'
  <2>1. starts' \in 0 .. MaxStarts
    BY <1>1, <1>2, Sizes DEF Types
  <2>2. pc' \in {"walk", "free"} => pos' \in 0 .. Len(timers')
    BY <1>1, <1>2, <1>4 DEF Types
  <2>3. /\ timers' \in Seq(Record) /\ hist' \in Seq(HistRec) /\ Len(hist') = Len(timers')
        /\ stopped' \subseteq Keys
    BY <1>1, <1>2, <1>3, <1>8 DEF Types
  <2> QED
    BY <1>1, <1>2, <2>1, <2>2, <2>3 DEF Types
<1>10. UniqueTimers'
  <2>1. Unique(list)
    <3> SUFFICES ASSUME NEW i \in 1 .. Len(list), NEW j \in 1 .. Len(list), i # j,
                        list[i].flag # NoFlag
                 PROVE  <<list[i].task, list[i].flag>> # <<list[j].task, list[j].flag>>
      BY DEF Unique
    <3>1. CASE i = p \/ j = p
      BY <1>3, <3>1 DEF IsTimer
    <3>2. CASE i # p /\ j # p
      BY <1>1, <1>3, <1>4, <3>2 DEF Unique
    <3> QED
      BY <3>1, <3>2
  <2>2. Len(list) + Len(freeTimer) <= MaxTimers
    <3>1. Len(freeTimer) \in Nat
      BY <1>1, LenProperties DEF Types
    <3> QED
      BY <1>1, <1>2, <1>4, <3>1, Sizes DEF Given, RoomFor
  <2> QED
    BY <1>2, <2>1, <2>2 DEF UniqueTimers, Unique
<1>11. Accurate'
  <2> SUFFICES ASSUME NEW i \in 1 .. Len(list)
               PROVE  Fits(list[i], hist'[i], DueAt(i))
    BY <1>2, DueStays DEF Accurate
  <2>1. CASE i = p
    <3>1. DueAt(i) \in Nat
      BY <1>1, DueType
    <3>2. hist'[i].asked = n /\ hist'[i].age = 0 /\ hist'[i].charge = DueAt(i)
      <4>1. hist'[i] = History(n, i)
        BY <1>6, <2>1
      <4> QED
        BY <4>1 DEF History
    <3> QED
      BY <1>3, <2>1, <3>1, <3>2 DEF Fits
  <2>2. CASE i # p
    BY <1>1, <1>3, <1>4, <1>6, <2>2 DEF Accurate
  <2> QED
    BY <2>1, <2>2
<1>12. FreeRipe'
  BY <1>1, <1>2 DEF FreeRipe
<1>13. StoppedGone'
  <2> SUFFICES ASSUME NEW k \in stopped' PROVE None(list, k[1], k[2]) /\ None(freeTimer, k[1], k[2])
    BY <1>2 DEF StoppedGone
  <2>1. k \in stopped /\ k # <<t, f>> /\ k = <<k[1], k[2]>>
    BY <1>1, <1>2 DEF Types, Keys
  <2>2. None(timers, k[1], k[2]) /\ None(freeTimer, k[1], k[2])
    BY <1>1, <2>1 DEF StoppedGone
  <2>3. ~IsTimer(list[p], k[1], k[2])
    BY <1>3, <2>1 DEF IsTimer
  <2> QED
    BY <1>3, <1>4, <2>2, <2>3 DEF None
<1> QED
  BY <1>9, <1>10, <1>11, <1>12, <1>13 DEF TimerInv
LEMMA StartTimerStep ==
  ASSUME TimerInv, NEW t \in Tasks, NEW f \in Flags, NEW n \in Timeouts,
         \/ StartTimer(t, f, n) \/ StartReloadTimer(t, f, n)
         \/ t = IsrTask /\ f = IsrFlag /\ IsrStartTimer(n)
  PROVE  TimerInv'
<1>1. timers \in Seq(Record) /\ Unique(timers) /\ n \in Nat
  BY UniqueIs, Sizes DEF TimerInv, Types
<1>2. CASE StartWith(AddTimer(timers, t, f, n), t, f, n)
  BY <1>1, <1>2, AddTimerGives, GivenStep
<1>3. CASE StartWith(AddReloadTimer(timers, t, f, n), t, f, n)
  BY <1>1, <1>3, AddReloadTimerGives, GivenStep
<1> QED
  BY <1>2, <1>3 DEF StartTimer, StartReloadTimer, IsrStartTimer

LEMMA StopTimerStep ==
  ASSUME TimerInv, NEW t \in Tasks, NEW f \in Flags, StopTimer(t, f)
  PROVE  TimerInv'
<1> DEFINE list == DeleteTimer(timers, t, f)
<1>1. /\ Types /\ Unique(timers) /\ Len(timers) + Len(freeTimer) <= MaxTimers
      /\ Accurate /\ FreeRipe /\ StoppedGone
  BY UniqueIs DEF TimerInv
<1>2. /\ pc = "idle" /\ FindTimer(timers, t, f) # {} /\ timers' = list
      /\ stopped' = stopped \cup {<<t, f>>}
      /\ UNCHANGED <<tasksEvents, lag, pc, elapsed, pos, freeTimer, freeHist, hist, starts>>
  BY DEF StopTimer, walkVars
<1>3. /\ list \in Seq(Record) /\ Len(list) = Len(timers) /\ None(list, t, f)
      /\ \A i \in 1 .. Len(timers) : list[i] = timers[i] \/ list[i].flag = NoFlag
  BY <1>1, <1>2, DeleteTimerGives DEF Types
<1> HIDE DEF list
<1>4. Types'
  BY <1>1, <1>2, <1>3 DEF Types, Keys
<1>5. UniqueTimers'
  <2>1. Unique(list)
    BY <1>1, <1>3 DEF Unique
  <2> QED
    BY <1>1, <1>2, <1>3, <2>1 DEF UniqueTimers, Unique
<1>6. Accurate'
  <2>1. \A i \in 1 .. Len(list) : Fits(list[i], hist[i], DueAt(i))
    BY <1>1, <1>3 DEF Accurate, Fits
  <2> QED
    BY <1>2, <2>1, DueStays DEF Accurate
<1>7. FreeRipe'
  BY <1>1, <1>2 DEF FreeRipe
<1>8. StoppedGone'
  <2>1. None(freeTimer, t, f)
    BY <1>1, <1>2 DEF None, Types
  <2>2. \A k \in stopped : k[2] # NoFlag
    BY <1>1, Sizes DEF Types, Keys
  <2>3. \A k \in stopped : None(list, k[1], k[2])
    BY <1>1, <1>3, <2>2 DEF StoppedGone, None, IsTimer
  <2>4. \A k \in stopped : None(freeTimer, k[1], k[2])
    BY <1>1 DEF StoppedGone
  <2> QED
    BY <1>2, <1>3, <2>1, <2>3, <2>4 DEF StoppedGone
<1> QED
  BY <1>4, <1>5, <1>6, <1>7, <1>8 DEF TimerInv

\* A step that leaves the timers, the clock and the walk alone.
LEMMA ListStays ==
  ASSUME TimerInv, tasksEvents' \subseteq Keys,
         UNCHANGED <<timers, lag, walkVars, hist, stopped, starts>>
  PROVE  TimerInv'
<1>1. UNCHANGED <<timers, lag, pc, elapsed, pos, freeTimer, freeHist, hist, stopped, starts>>
  BY DEF walkVars
<1>2. Types'
  BY <1>1 DEF TimerInv, Types
<1>3. UniqueTimers' /\ FreeRipe' /\ StoppedGone'
  BY <1>1 DEF TimerInv, UniqueTimers, FreeRipe, StoppedGone
<1>4. Accurate'
  BY <1>1, DueStays DEF TimerInv, Accurate
<1> QED
  BY <1>2, <1>3, <1>4 DEF TimerInv

LEMMA DeliverStep ==
  ASSUME TimerInv, NEW k \in Keys, Deliver(k)
  PROVE  TimerInv'
<1>1. tasksEvents' \subseteq Keys
  BY DEF Deliver, TimerInv, Types
<1> QED
  BY <1>1, ListStays DEF Deliver

LEMMA OlderFields ==
  ASSUME NEW h \in HistRec
  PROVE  LET new == [h EXCEPT !.age = @ + 1]
         IN  /\ new \in HistRec /\ new.asked = h.asked /\ new.charge = h.charge
             /\ new.age = h.age + 1 /\ h.age \in Nat /\ h.asked \in Nat /\ h.charge \in Nat
BY DEF HistRec

LEMMA OlderGives ==
  ASSUME NEW hs \in Seq(HistRec)
  PROVE  /\ Older(hs) \in Seq(HistRec) /\ Len(Older(hs)) = Len(hs)
         /\ \A i \in 1 .. Len(hs) :
              /\ Older(hs)[i].asked = hs[i].asked /\ Older(hs)[i].charge = hs[i].charge
              /\ Older(hs)[i].age = hs[i].age + 1
<1>1. \A i \in 1 .. Len(hs) : hs[i] \in HistRec
  BY ElementOfSeq
<1>2. \A i \in 1 .. Len(hs) : [hs[i] EXCEPT !.age = @ + 1] \in HistRec
  BY <1>1, OlderFields
<1>3. Older(hs) \in Seq(HistRec) /\ Len(Older(hs)) = Len(hs)
  BY <1>2 DEF Older
<1>4. ASSUME NEW i \in 1 .. Len(hs)
      PROVE  Older(hs)[i] = [hs[i] EXCEPT !.age = @ + 1]
  BY DEF Older
<1> QED
  BY <1>1, <1>3, <1>4, OlderFields

LEMMA FitsOlder ==
  ASSUME NEW rec, NEW h, NEW new, NEW due \in Nat, rec.timeout \in Nat,
         h.asked \in Nat, h.age \in Nat, h.charge \in Nat, Fits(rec, h, due),
         new.asked = h.asked, new.charge = h.charge, new.age = h.age + 1
  PROVE  Fits(rec, new, due + 1)
BY DEF Fits

LEMMA TickStep ==
  ASSUME TimerInv, Tick
  PROVE  TimerInv'
<1>1. Types /\ UniqueTimers /\ Accurate /\ FreeRipe /\ StoppedGone
  BY DEF TimerInv
<1>2. /\ lag < MaxLag /\ lag' = lag + 1 /\ hist' = Older(hist) /\ freeHist' = Older(freeHist)
      /\ UNCHANGED <<timers, tasksEvents, pc, elapsed, pos, freeTimer, stopped, starts>>
  BY DEF Tick
<1>3. /\ hist' \in Seq(HistRec) /\ Len(hist') = Len(hist)
      /\ freeHist' \in Seq(HistRec) /\ Len(freeHist') = Len(freeHist)
  BY <1>1, <1>2, OlderGives DEF Types
<1>4. Types'
  <2>1. lag' \in 0 .. MaxLag
    BY <1>1, <1>2, Sizes DEF Types
  <2> QED
    BY <1>1, <1>2, <1>3, <2>1 DEF Types
<1>5. UniqueTimers' /\ StoppedGone'
  BY <1>1, <1>2 DEF UniqueTimers, StoppedGone
<1>6. Accurate'
  <2> SUFFICES ASSUME NEW i \in 1 .. Len(timers)
               PROVE  Fits(timers[i], hist'[i], DueAt(i)')
    BY <1>2 DEF Accurate
  <2>1. DueAt(i)' = DueAt(i) + 1
    BY <1>1, <1>2, Sizes DEF DueAt, Types
  <2>2. /\ hist'[i].asked = hist[i].asked /\ hist'[i].charge = hist[i].charge
        /\ hist'[i].age = hist[i].age + 1
    BY <1>1, <1>2, OlderGives DEF Types
  <2>3. DueAt(i) \in Nat
    BY <1>1, DueType
  <2>4. Fits(timers[i], hist[i], DueAt(i))
    BY <1>1 DEF Accurate
  <2>5. /\ timers[i].timeout \in Nat
        /\ hist[i].asked \in Nat /\ hist[i].age \in Nat /\ hist[i].charge \in Nat
    BY <1>1, Numbers
  <2> QED
    BY <2>1, <2>2, <2>3, <2>4, <2>5, FitsOlder
<1>7. FreeRipe'
  <2> SUFFICES ASSUME NEW i \in 1 .. Len(freeTimer)
               PROVE  Ripe(freeTimer[i], freeHist'[i])
    BY <1>2 DEF FreeRipe
  <2>1. /\ freeHist'[i].asked = freeHist[i].asked /\ freeHist'[i].charge = freeHist[i].charge
        /\ freeHist'[i].age = freeHist[i].age + 1
    BY <1>1, <1>2, OlderGives DEF Types
  <2>2. freeHist[i] \in HistRec
    BY <1>1, ElementOfSeq DEF Types
  <2>3. Ripe(freeTimer[i], freeHist[i])
    BY <1>1 DEF FreeRipe
  <2> QED
    BY <2>1, <2>2, <2>3 DEF Ripe, HistRec
<1> QED
  BY <1>4, <1>5, <1>6, <1>7 DEF TimerInv
LEMMA ReadClockStep ==
  ASSUME TimerInv, ReadClock
  PROVE  TimerInv'
<1>1. Types /\ UniqueTimers /\ Accurate /\ FreeRipe /\ StoppedGone
  BY DEF TimerInv
<1>2. /\ pc = "idle" /\ elapsed' = lag /\ lag' = 0 /\ pc' = "update" /\ pos' = 1
      /\ UNCHANGED <<timers, tasksEvents, freeTimer, freeHist, hist, stopped, starts>>
  BY DEF ReadClock
<1>3. Types'
  BY <1>1, <1>2, Sizes DEF Types
<1>4. UniqueTimers' /\ FreeRipe' /\ StoppedGone'
  BY <1>1, <1>2 DEF UniqueTimers, FreeRipe, StoppedGone
<1>5. \A i \in 1 .. Len(timers) : DueAt(i)' = DueAt(i)
  BY <1>1, <1>2, Sizes DEF DueAt, Types
<1>6. Accurate'
  BY <1>1, <1>2, <1>5 DEF Accurate
<1> QED
  BY <1>3, <1>4, <1>6 DEF TimerInv

LEMMA BeginWalkStep ==
  ASSUME TimerInv, BeginWalk
  PROVE  TimerInv'
<1>1. Types /\ UniqueTimers /\ Accurate /\ FreeRipe /\ StoppedGone
  BY DEF TimerInv
<1>2. /\ pc = "update" /\ pc' = "walk" /\ pos' = IF timers = << >> THEN 0 ELSE 1
      /\ UNCHANGED <<timers, tasksEvents, lag, elapsed, freeTimer, freeHist, hist, stopped, starts>>
  BY DEF BeginWalk
<1>3. timers = << >> \/ Len(timers) > 0
  BY <1>1, EmptySeq DEF Types
<1>4. Types'
  BY <1>1, <1>2, <1>3 DEF Types
<1>5. UniqueTimers' /\ FreeRipe' /\ StoppedGone'
  BY <1>1, <1>2 DEF UniqueTimers, FreeRipe, StoppedGone
<1>6. \A i \in 1 .. Len(timers) : DueAt(i)' = DueAt(i)
  BY <1>1, <1>2, <1>3 DEF DueAt, Types
<1>7. Accurate'
  BY <1>1, <1>2, <1>6 DEF Accurate
<1> QED
  BY <1>4, <1>5, <1>7 DEF TimerInv

LEMMA EndWalkStep ==
  ASSUME TimerInv, EndWalk
  PROVE  TimerInv'
<1>1. Types /\ UniqueTimers /\ Accurate /\ FreeRipe /\ StoppedGone
  BY DEF TimerInv
<1>2. /\ pc = "walk" /\ pos = 0 /\ pc' = "idle" /\ elapsed' = 0
      /\ UNCHANGED <<timers, tasksEvents, lag, pos, freeTimer, freeHist, hist, stopped, starts>>
  BY DEF EndWalk
<1>3. Types'
  BY <1>1, <1>2, Sizes DEF Types
<1>4. UniqueTimers' /\ FreeRipe' /\ StoppedGone'
  BY <1>1, <1>2 DEF UniqueTimers, FreeRipe, StoppedGone
<1>5. \A i \in 1 .. Len(timers) : DueAt(i)' = DueAt(i)
  BY <1>2 DEF DueAt
<1>6. Accurate'
  BY <1>1, <1>2, <1>5 DEF Accurate
<1> QED
  BY <1>3, <1>4, <1>6 DEF TimerInv

LEMMA FreeTimerStep ==
  ASSUME TimerInv, FreeTimer
  PROVE  TimerInv'
<1>1. Types /\ UniqueTimers /\ Accurate /\ FreeRipe /\ StoppedGone
  BY DEF TimerInv
<1>2. /\ pc = "free" /\ pc' = "walk" /\ freeTimer' = << >> /\ freeHist' = << >>
      /\ UNCHANGED <<timers, lag, elapsed, pos, hist, stopped, starts>>
  BY DEF FreeTimer
<1>3. freeTimer[1] \in Record /\ Len(freeTimer) = 1
  <2>1. freeTimer \in Seq(Record) /\ Len(freeTimer) = 1
    BY <1>1, <1>2 DEF Types
  <2> QED
    BY <2>1, ElementOfSeq
<1>4. tasksEvents' \subseteq Keys
  BY <1>1, <1>3 DEF FreeTimer, Types, Record, Keys
<1>5. Types'
  BY <1>1, <1>2, <1>4 DEF Types
<1>6. Len(freeTimer') <= Len(freeTimer) /\ Len(timers) \in Nat
  BY <1>1, <1>2, <1>3 DEF Types
<1>7. UniqueTimers'
  <2>1. Len(timers) + 1 <= MaxTimers
    BY <1>1, <1>3 DEF UniqueTimers
  <2>2. Len(freeTimer') = 0
    BY <1>2
  <2>3. Len(timers) + Len(freeTimer') <= MaxTimers
    BY <1>6, <2>1, <2>2, Sizes
  <2> QED
    BY <1>1, <1>2, <2>3 DEF UniqueTimers
<1>8. FreeRipe' /\ StoppedGone'
  BY <1>1, <1>2 DEF FreeRipe, StoppedGone, None
<1>9. \A i \in 1 .. Len(timers) : DueAt(i)' = DueAt(i)
  BY <1>2 DEF DueAt
<1>10. Accurate'
  BY <1>1, <1>2, <1>9 DEF Accurate
<1> QED
  BY <1>5, <1>7, <1>8, <1>10 DEF TimerInv
-----------------------------------------------------------------------------
(***************************************************************************)
(* One record of the walk.                                                 *)
(***************************************************************************)

LEMMA UpdatedGives ==
  ASSUME NEW r \in Record, NEW u \in Nat
  PROVE  LET new == Updated(r, u)
         IN  /\ new \in Record /\ \A t, f : IsTimer(new, t, f) <=> IsTimer(r, t, f)
             /\ new.flag = r.flag /\ new.task = r.task /\ new.reload = r.reload
             /\ Reloads(r, u) => new.timeout = r.reload /\ r.reload # 0 /\ r.flag # NoFlag
             /\ ~Reloads(r, u) => new.timeout = Elapse(r.timeout, u)
             /\ r.timeout <= u => Elapse(r.timeout, u) = 0
             /\ r.timeout > u => Elapse(r.timeout, u) = r.timeout - u /\ ~Reloads(r, u)
<1>1. Elapse(r.timeout, u) \in Nat /\ r.reload \in Nat /\ r.timeout \in Nat
  BY DEF Record, Elapse
<1>2. /\ r.timeout <= u => Elapse(r.timeout, u) = 0
      /\ r.timeout > u => Elapse(r.timeout, u) = r.timeout - u /\ Elapse(r.timeout, u) # 0
  BY <1>1 DEF Elapse
<1> DEFINE n == IF Reloads(r, u) THEN r.reload ELSE Elapse(r.timeout, u)
<1>3. n \in Nat /\ Updated(r, u) = [r EXCEPT !.timeout = n]
  BY <1>1 DEF Updated
<1>4. Reloads(r, u) <=> Elapse(r.timeout, u) = 0 /\ r.reload # 0 /\ r.flag # NoFlag
  BY DEF Reloads
<1>5. /\ Reloads(r, u) => n = r.reload
      /\ ~Reloads(r, u) => n = Elapse(r.timeout, u)
  OBVIOUS
<1> HIDE DEF n
<1>6. /\ Updated(r, u) \in Record /\ Updated(r, u).timeout = n
      /\ Updated(r, u).flag = r.flag /\ Updated(r, u).task = r.task
      /\ Updated(r, u).reload = r.reload
  BY <1>3 DEF Record
<1> QED
  BY <1>2, <1>4, <1>5, <1>6 DEF IsTimer
\* What is still due in the walk, before and behind its position.
LEMMA DueInWalk ==
  ASSUME pc \in {"walk", "free"}, NEW i \in Nat, pos \in Nat
  PROVE  DueAt(i) = IF pos # 0 /\ i >= pos THEN lag + elapsed ELSE lag + 0
BY DEF DueAt

\* What a record and its history are when the time that passed is taken off.
LEMMA FitsUpdated ==
  ASSUME NEW r \in Record, NEW h \in HistRec, NEW u \in Nat, NEW l \in Nat,
         Fits(r, h, l + u)
  PROVE  /\ ~IsSpent(Updated(r, u)) /\ ~Reloads(r, u) => Fits(Updated(r, u), h, l)
         /\ IsSpent(Updated(r, u)) => Ripe(Updated(r, u), h) /\ ~Reloads(r, u)
         /\ \A g : g = [asked |-> Updated(r, u).timeout, age |-> l, charge |-> 0]
              => g \in HistRec /\ Fits(Updated(r, u), g, l)
<1> DEFINE new == Updated(r, u)
<1>1. /\ r.timeout \in Nat /\ r.reload \in Nat
      /\ h.asked \in Nat /\ h.age \in Nat /\ h.charge \in Nat
  BY DEF Record, HistRec
<1>2. /\ new \in Record /\ new.flag = r.flag /\ new.timeout \in Nat
      /\ Reloads(r, u) => new.timeout = r.reload /\ r.reload # 0 /\ r.flag # NoFlag
      /\ ~Reloads(r, u) => new.timeout = Elapse(r.timeout, u)
      /\ r.timeout <= u => Elapse(r.timeout, u) = 0
      /\ r.timeout > u => Elapse(r.timeout, u) = r.timeout - u /\ ~Reloads(r, u)
  BY UpdatedGives DEF Record
<1> HIDE DEF new
<1>3. ~IsSpent(new) /\ ~Reloads(r, u) => Fits(new, h, l)
  <2> SUFFICES ASSUME ~IsSpent(new), ~Reloads(r, u), r.flag # NoFlag
               PROVE  Fits(new, h, l)
    BY <1>2 DEF Fits
  <2>1. new.timeout # 0
    BY DEF IsSpent
  <2>2. new.timeout = r.timeout - u /\ r.timeout > u
    BY <1>1, <1>2, <2>1
  <2>3. /\ r.timeout + h.age <= h.asked + (l + u)
        /\ h.asked + (l + u) <= r.timeout + h.age + h.charge
    BY DEF Fits
  <2> QED
    BY <1>1, <2>2, <2>3 DEF Fits
<1>4. IsSpent(new) => Ripe(new, h) /\ ~Reloads(r, u)
  <2> SUFFICES ASSUME IsSpent(new) PROVE Ripe(new, h) /\ ~Reloads(r, u)
    OBVIOUS
  <2>1. CASE r.flag = NoFlag
    BY <1>2, <2>1 DEF Ripe
  <2>2. CASE r.flag # NoFlag
    <3>1. new.timeout = 0
      BY <1>2, <2>2 DEF IsSpent
    <3>2. ~Reloads(r, u) /\ r.timeout <= u
      BY <1>1, <1>2, <3>1
    <3>3. h.asked + (l + u) <= r.timeout + h.age + h.charge
      BY <2>2 DEF Fits
    <3>4. h.asked <= h.age + h.charge
      BY <1>1, <3>2, <3>3
    <3> QED
      BY <3>2, <3>4 DEF Ripe
  <2> QED
    BY <2>1, <2>2
<1>5. ASSUME NEW g, g = [asked |-> new.timeout, age |-> l, charge |-> 0]
      PROVE  g \in HistRec /\ Fits(new, g, l)
  BY <1>2, <1>5 DEF HistRec, Fits
<1> QED
  BY <1>3, <1>4, <1>5 DEF new

LEMMA UpdateTimerStep ==
  ASSUME TimerInv, UpdateTimer
  PROVE  TimerInv'
<1> DEFINE r == timers[pos]  rec == Updated(r, elapsed)  due == Reloads(r, elapsed)
<1>1. Types /\ UniqueTimers /\ Accurate /\ FreeRipe /\ StoppedGone /\ Unique(timers)
  BY UniqueIs DEF TimerInv
<1>2. /\ pc = "walk" /\ pos # 0 /\ UNCHANGED <<lag, elapsed, stopped, starts>>
      /\ tasksEvents' = IF due THEN tasksEvents \cup {<<rec.task, rec.flag>>} ELSE tasksEvents
  BY DEF UpdateTimer
<1>3. /\ pos \in 1 .. Len(timers) /\ Len(timers) \in Nat /\ elapsed \in Nat /\ lag \in Nat
      /\ Len(freeTimer) = 0
  BY <1>1, <1>2, LenProperties, Sizes DEF Types
<1>4. r \in Record /\ hist[pos] \in HistRec /\ rec \in Record
      /\ (\A t, f : IsTimer(rec, t, f) <=> IsTimer(r, t, f))
      /\ rec.flag = r.flag /\ rec.task = r.task
      /\ (due => r.flag # NoFlag)
  BY <1>1, <1>3, Numbers, UpdatedGives
<1>5. tasksEvents' \subseteq Keys
  BY <1>1, <1>2, <1>4 DEF Types, Keys, Record
<1>6. \A i \in 1 .. Len(timers) : DueAt(i) = IF i >= pos THEN lag + elapsed ELSE lag
  BY <1>2, <1>3, DueInWalk
<1>7. Fits(r, hist[pos], lag + elapsed)
  BY <1>1, <1>3, <1>6 DEF Accurate
<1>8. /\ ~IsSpent(rec) /\ ~due => Fits(rec, hist[pos], lag)
      /\ IsSpent(rec) => Ripe(rec, hist[pos])
      /\ \A g : g = [asked |-> rec.timeout, age |-> lag, charge |-> 0]
           => g \in HistRec /\ Fits(rec, g, lag)
  BY <1>3, <1>4, <1>7, FitsUpdated
<1>9. CASE IsSpent(rec)
  <2>1. /\ timers' = RemoveTimer(timers, pos) /\ hist' = RemoveTimer(hist, pos)
        /\ freeTimer' = <<rec>> /\ freeHist' = <<hist[pos]>> /\ pc' = "free"
        /\ pos' = IF pos = Len(timers) THEN 0 ELSE pos
    BY <1>9 DEF UpdateTimer, NextPos
  <2>2. /\ timers' \in Seq(Record) /\ Len(timers') = Len(timers) - 1
        /\ \A j \in 1 .. Len(timers') :
             /\ j < pos => timers'[j] = timers[j]
             /\ j >= pos => timers'[j] = timers[j + 1] /\ j + 1 \in 1 .. Len(timers)
    <3>1. timers \in Seq(Record)
      BY <1>1 DEF Types
    <3> HIDE DEF r, rec, due
    <3> QED
      BY <1>3, <2>1, <3>1, RemoveTimerGives
  <2>3. /\ hist' \in Seq(HistRec) /\ Len(hist') = Len(timers')
        /\ \A j \in 1 .. Len(timers') :
             /\ j < pos => hist'[j] = hist[j]
             /\ j >= pos => hist'[j] = hist[j + 1]
    <3>1. pos \in 1 .. Len(hist) /\ hist \in Seq(HistRec) /\ Len(hist) = Len(timers)
      BY <1>1, <1>3 DEF Types
    <3> HIDE DEF r, rec, due
    <3>2. /\ hist' \in Seq(HistRec) /\ Len(hist') = Len(hist) - 1
          /\ \A j \in 1 .. Len(hist') :
               /\ j < pos => hist'[j] = hist[j]
               /\ j >= pos => hist'[j] = hist[j + 1] /\ j + 1 \in 1 .. Len(hist)
      BY <2>1, <3>1, RemoveTimerGives
    <3> QED
      BY <2>2, <3>1, <3>2
  <2> HIDE DEF r, rec, due
  <2>4. /\ freeTimer' \in Seq(Record) /\ Len(freeTimer') = 1 /\ freeTimer'[1] = rec
        /\ freeHist' \in Seq(HistRec) /\ Len(freeHist') = 1 /\ freeHist'[1] = hist[pos]
    BY <1>4, <2>1
  <2>5. pos' \in 0 .. Len(timers')
    BY <1>3, <2>1, <2>2
  <2>6. Types'
    BY <1>1, <1>2, <1>5, <2>1, <2>2, <2>3, <2>4, <2>5 DEF Types
  <2>7. UniqueTimers'
    <3>1. Unique(timers')
      <4> SUFFICES ASSUME NEW i \in 1 .. Len(timers'), NEW j \in 1 .. Len(timers'), i # j,
                          timers'[i].flag # NoFlag
                   PROVE  <<timers'[i].task, timers'[i].flag>>
                            # <<timers'[j].task, timers'[j].flag>>
        BY DEF Unique
      <4>1. PICK a \in 1 .. Len(timers) :
              timers'[i] = timers[a] /\ a = IF i < pos THEN i ELSE i + 1
        BY <1>3, <2>2
      <4>2. PICK b \in 1 .. Len(timers) :
              timers'[j] = timers[b] /\ b = IF j < pos THEN j ELSE j + 1
        BY <1>3, <2>2
      <4>3. a # b
        BY <1>3, <2>2, <4>1, <4>2
      <4> QED
        BY <1>1, <4>1, <4>2, <4>3 DEF Unique
    <3>2. Len(timers') + Len(freeTimer') <= MaxTimers
      BY <1>1, <1>3, <2>2, <2>4, UniqueIs, Sizes
    <3> QED
      BY <3>1, <3>2 DEF UniqueTimers, Unique
  <2>8. Accurate'
    <3> SUFFICES ASSUME NEW j \in 1 .. Len(timers')
                 PROVE  Fits(timers'[j], hist'[j], DueAt(j)')
      BY DEF Accurate
    <3>1. DueAt(j)' = IF j >= pos THEN lag + elapsed ELSE lag
      <4>1. DueAt(j)' = IF pos' # 0 /\ j >= pos' THEN lag + elapsed ELSE lag + 0
        BY <1>2, <2>1 DEF DueAt
      <4> QED
        BY <1>3, <2>1, <2>2, <4>1
    <3>2. CASE j < pos
      <4>1. DueAt(j) = lag /\ DueAt(j)' = lag /\ j \in 1 .. Len(timers)
        BY <1>3, <1>6, <2>2, <3>1, <3>2
      <4> QED
        BY <1>1, <2>2, <2>3, <3>2, <4>1 DEF Accurate
    <3>3. CASE j >= pos
      <4>1. DueAt(j + 1) = lag + elapsed /\ DueAt(j)' = lag + elapsed
        BY <1>3, <1>6, <2>2, <3>1, <3>3
      <4> QED
        BY <1>1, <2>2, <2>3, <3>3, <4>1 DEF Accurate
    <3> QED
      BY <1>3, <3>2, <3>3
  <2>9. FreeRipe'
    BY <1>8, <1>9, <2>4 DEF FreeRipe
  <2>10. StoppedGone'
    <3>1. ASSUME NEW k \in stopped
          PROVE  None(timers', k[1], k[2]) /\ None(freeTimer', k[1], k[2])
      <4>1. None(timers, k[1], k[2])
        BY <1>1 DEF StoppedGone
      <4>2. ~IsTimer(rec, k[1], k[2])
        BY <1>3, <1>4, <4>1 DEF None, r
      <4> QED
        BY <1>3, <2>2, <2>4, <4>1, <4>2 DEF None
    <3> QED
      BY <1>2, <3>1 DEF StoppedGone
  <2> QED
    BY <2>6, <2>7, <2>8, <2>9, <2>10 DEF TimerInv
<1>10. CASE ~IsSpent(rec)
  <2> DEFINE g == IF due THEN [asked |-> rec.timeout, age |-> lag, charge |-> 0] ELSE hist[pos]
  <2>1. /\ timers' = [timers EXCEPT ![pos] = rec]
        /\ hist' = IF due
                     THEN [hist EXCEPT ![pos] = [asked |-> rec.timeout, age |-> lag, charge |-> 0]]
                     ELSE hist
        /\ pos' = IF pos = Len(timers) THEN 0 ELSE pos + 1
        /\ UNCHANGED <<pc, freeTimer, freeHist>>
    BY <1>10 DEF UpdateTimer, NextPos
  <2>2. g \in HistRec /\ Fits(rec, g, lag)
    BY <1>4, <1>8, <1>10
  <2>3. /\ hist' \in Seq(HistRec) /\ Len(hist') = Len(timers) /\ hist'[pos] = g
        /\ \A j \in 1 .. Len(timers) : j # pos => hist'[j] = hist[j]
    <3>1. hist \in Seq(HistRec) /\ Len(hist) = Len(timers)
      BY <1>1 DEF Types
    <3>2. CASE due
      <4>1. hist' = [hist EXCEPT ![pos] = g]
        BY <2>1, <3>2
      <4> HIDE DEF g
      <4> QED
        BY <1>3, <2>2, <3>1, <4>1, ExceptSeq
    <3>3. CASE ~due
      BY <2>1, <3>1, <3>3
    <3> QED
      BY <3>2, <3>3
  <2> HIDE DEF g, r, rec, due
  <2>4. /\ timers' \in Seq(Record) /\ Len(timers') = Len(timers) /\ timers'[pos] = rec
        /\ \A j \in 1 .. Len(timers) : j # pos => timers'[j] = timers[j]
    <3>1. timers \in Seq(Record)
      BY <1>1 DEF Types
    <3> QED
      BY <1>3, <1>4, <2>1, <3>1, ExceptSeq
  <2>5. Types'
    <3>1. pos' \in 0 .. Len(timers')
      <4>1. pos' = (IF pos = Len(timers) THEN 0 ELSE pos + 1) /\ Len(timers') = Len(timers)
        BY <2>1, <2>4
      <4> QED
        BY <1>3, <4>1
    <3> QED
      BY <1>1, <1>2, <1>5, <2>1, <2>3, <2>4, <3>1 DEF Types
  <2>6. UniqueTimers'
    <3>1. \A j \in 1 .. Len(timers) :
            timers'[j].task = timers[j].task /\ timers'[j].flag = timers[j].flag
      BY <1>3, <1>4, <2>4 DEF r
    <3>2. Unique(timers')
      BY <1>1, <2>4, <3>1 DEF Unique
    <3> QED
      BY <1>1, <2>1, <2>4, <3>2 DEF UniqueTimers, Unique
  <2>7. Accurate'
    <3> SUFFICES ASSUME NEW j \in 1 .. Len(timers)
                 PROVE  Fits(timers'[j], hist'[j], DueAt(j)')
      BY <2>4 DEF Accurate
    <3>1. DueAt(j)' = IF j > pos THEN lag + elapsed ELSE lag
      <4>1. DueAt(j)' = IF pos' # 0 /\ j >= pos' THEN lag + elapsed ELSE lag + 0
        BY <1>2, <2>1 DEF DueAt
      <4> QED
        BY <1>3, <2>1, <4>1
    <3>2. CASE j = pos
      BY <1>3, <2>2, <2>3, <2>4, <3>1, <3>2
    <3>3. CASE j # pos
      <4>1. DueAt(j)' = DueAt(j)
        BY <1>3, <1>6, <3>1, <3>3
      <4> QED
        BY <1>1, <2>3, <2>4, <3>3, <4>1 DEF Accurate
    <3> QED
      BY <3>2, <3>3
  <2>8. FreeRipe'
    BY <1>1, <2>1 DEF FreeRipe
  <2>9. StoppedGone'
    <3>1. ASSUME NEW k \in stopped
          PROVE  None(timers', k[1], k[2]) /\ None(freeTimer, k[1], k[2])
      <4>1. None(timers, k[1], k[2]) /\ None(freeTimer, k[1], k[2])
        BY <1>1 DEF StoppedGone
      <4>2. ~IsTimer(rec, k[1], k[2])
        BY <1>3, <1>4, <4>1 DEF None, r
      <4> QED
        BY <1>3, <2>4, <4>1, <4>2 DEF None
    <3> QED
      BY <1>2, <2>1, <3>1 DEF StoppedGone
  <2> QED
    BY <2>5, <2>6, <2>7, <2>8, <2>9 DEF TimerInv
<1> QED
  BY <1>9, <1>10
-----------------------------------------------------------------------------
(***************************************************************************)
(* The theorems.                                                           *)
(***************************************************************************)

LEMMA NextStep == TimerInv /\ [Next]_vars => TimerInv'
<1> SUFFICES ASSUME TimerInv, [Next]_vars PROVE TimerInv'
  OBVIOUS
<1>1. CASE TimeUpdate
  BY <1>1, ReadClockStep, BeginWalkStep, UpdateTimerStep, FreeTimerStep, EndWalkStep
  DEF TimeUpdate
<1>2. CASE Tick
  BY <1>2, TickStep
<1>3. ASSUME NEW t \in Tasks, NEW f \in Flags, NEW n \in Timeouts,
             StartTimer(t, f, n) \/ StartReloadTimer(t, f, n)
      PROVE  TimerInv'
  BY <1>3, StartTimerStep
<1>4. ASSUME NEW t \in Tasks, NEW f \in Flags, StopTimer(t, f) PROVE TimerInv'
  BY <1>4, StopTimerStep
<1>5. ASSUME NEW n \in Timeouts, IsrStartTimer(n) PROVE TimerInv'
  BY <1>5, StartTimerStep, Sizes
<1>6. ASSUME NEW k \in Keys, Deliver(k) PROVE TimerInv'
  BY <1>6, DeliverStep
<1>7. CASE UNCHANGED vars
  <2>1. UNCHANGED <<timers, tasksEvents, lag, walkVars, hist, stopped, starts>>
    BY <1>7 DEF vars
  <2>2. tasksEvents' \subseteq Keys
    BY <2>1 DEF TimerInv, Types
  <2> QED
    BY <2>1, <2>2, ListStays
<1> QED
  BY <1>1, <1>2, <1>3, <1>4, <1>5, <1>6, <1>7 DEF Next

\* The event of a stopped timer is set by no step.
LEMMA StoppedStaysQuiet ==
  ASSUME TimerInv, [Next]_vars, NEW k \in stopped, k \in tasksEvents'
  PROVE  k \in tasksEvents
<1>1. /\ None(timers, k[1], k[2]) /\ None(freeTimer, k[1], k[2])
      /\ Types /\ k = <<k[1], k[2]>>
  BY DEF TimerInv, StoppedGone, Types, Keys
<1>2. CASE UpdateTimer
  <2> DEFINE r == timers[pos]  rec == Updated(r, elapsed)
  <2>1. tasksEvents' \subseteq tasksEvents \cup {<<rec.task, rec.flag>>}
    BY <1>2 DEF UpdateTimer
  <2>2. pos \in 1 .. Len(timers) /\ elapsed \in Nat /\ r \in Record
    BY <1>1, <1>2, ElementOfSeq, Sizes DEF UpdateTimer, Types
  <2>3. ~IsTimer(r, k[1], k[2])
    BY <1>1, <2>2 DEF None
  <2>4. rec.task = r.task /\ rec.flag = r.flag
    BY <2>2, UpdatedGives
  <2> HIDE DEF r, rec
  <2> QED
    BY <1>1, <2>1, <2>3, <2>4 DEF IsTimer
<1>3. CASE FreeTimer
  <2> DEFINE rec == freeTimer[1]
  <2>1. tasksEvents' \subseteq tasksEvents \cup {<<rec.task, rec.flag>>}
    BY <1>3 DEF FreeTimer
  <2>2. ~IsTimer(rec, k[1], k[2])
    BY <1>1, <1>3 DEF None, FreeTimer, Types
  <2> HIDE DEF rec
  <2> QED
    BY <1>1, <2>1, <2>2 DEF IsTimer
<1>4. CASE ~UpdateTimer /\ ~FreeTimer
  <2>1. tasksEvents' \subseteq tasksEvents
    BY <1>4 DEF Next, TimeUpdate, ReadClock, BeginWalk, EndWalk, Tick, StartTimer,
       StartReloadTimer, IsrStartTimer, StartWith, StopTimer, Deliver, vars
  <2> QED
    BY <2>1
<1> QED
  BY <1>2, <1>3, <1>4

LEMMA InvariantHolds == Spec => []TimerInv
BY InitOK, NextStep, PTL DEF Spec

\* The list of timers names no timer twice, fits the heap's room, and the walk
\* of osalTimerUpdate stays on it, whatever interrupts and handlers start and
\* stop between its steps.
THEOREM ListIsWellFormed == Spec => []ListOK
<1>1. TimerInv => ListOK
  BY DEF TimerInv, Types, ListOK, TypeOK
<1> QED
  BY <1>1, InvariantHolds, PTL

\* What is left of a timer is what it was given less the time since, but for
\* the unread time before it was started, which is charged to it once: no walk
\* takes the same time off twice, or misses a record (osalTimerUpdate).
THEOREM TimersStayAccurate == Spec => []TimersAccurate
<1>1. TimerInv => TimersAccurate
  <2> SUFFICES ASSUME TimerInv PROVE TimersAccurate
    OBVIOUS
  <2>1. \A i \in 1 .. Len(timers) : Fits(timers[i], hist[i], DueAt(i))
    BY DEF TimerInv, Accurate
  <2>2. \A i \in 1 .. Len(freeTimer) : Ripe(freeTimer[i], freeHist[i])
    BY DEF TimerInv, FreeRipe
  <2> QED
    BY <2>1, <2>2 DEF Fits, Ripe, TimersAccurate
<1> QED
  BY <1>1, InvariantHolds, PTL

\* osal_stop_timerEx with SUCCESS prevents the event until the next start, also
\* from the middle of a walk that an interrupt's start has changed.
THEOREM StopPrevents == Spec => StopIsFinal
<1>1. TimerInv /\ [Next]_vars =>
        [\A k \in stopped : k \in stopped' /\ k \in tasksEvents' => k \in tasksEvents]_vars
  BY StoppedStaysQuiet
<1> QED
  BY <1>1, InvariantHolds, PTL DEF Spec, StopIsFinal
=============================================================================
