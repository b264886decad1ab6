--------------------------- MODULE OsalTimerList ---------------------------
(***************************************************************************)
(* The list of timer records of Components/osal/common/OSAL_Timers.c: what *)
(* its functions compute, as operators on the sequence of records that C   *)
(* links from timerHead.  A record with flag NoFlag (event_flag == 0) has  *)
(* been deleted and waits for osalTimerUpdate to unlink it.                *)
(***************************************************************************)
EXTENDS Naturals, Sequences

CONSTANT NoFlag     \* event_flag 0

\* A live timer of task t for flag f.
IsTimer(rec, t, f) == rec.task = t /\ rec.flag = f

\* osalFindTimer: the position of the first match, as a set.
FindTimer(list, t, f) ==
  {i \in 1 .. Len(list) :
     IsTimer(list[i], t, f) /\ \A j \in 1 .. i - 1 : ~IsTimer(list[j], t, f)}

NewTimer(t, f, n) == [task |-> t, flag |-> f, timeout |-> n, reload |-> 0]

\* Mutant: an existing timer is not looked for.
AddTimerAlways(list, t, f, n) == Append(list, NewTimer(t, f, n))

\* osalAddTimer: an existing timer only gets a new timeout (and keeps its
\* reload value); a new one goes to the end of the list.
AddTimer(list, t, f, n) ==
  IF FindTimer(list, t, f) # {}
    THEN [i \in 1 .. Len(list) |->
            IF i \in FindTimer(list, t, f) THEN [list[i] EXCEPT !.timeout = n] ELSE list[i]]
    ELSE Append(list, NewTimer(t, f, n))

\* osal_start_reload_timer: the reload value is loaded as well.
AddReloadTimer(list, t, f, n) ==
  LET added == AddTimer(list, t, f, n)
  IN  [i \in 1 .. Len(added) |->
         IF i \in FindTimer(added, t, f) THEN [added[i] EXCEPT !.reload = n] ELSE added[i]]

\* osalDeleteTimer on the timer osal_stop_timerEx found.
DeleteTimer(list, t, f) ==
  [i \in 1 .. Len(list) |->
     IF i \in FindTimer(list, t, f) THEN [list[i] EXCEPT !.flag = NoFlag] ELSE list[i]]

\* osalTimerUpdate, one record: the time that passed is taken off, and a
\* periodic timer that reached zero is reloaded.
Elapse(n, u) == IF n <= u THEN 0 ELSE n - u
Reloads(rec, u) == Elapse(rec.timeout, u) = 0 /\ rec.reload # 0 /\ rec.flag # NoFlag
Updated(rec, u) ==
  [rec EXCEPT !.timeout = IF Reloads(rec, u) THEN rec.reload ELSE Elapse(rec.timeout, u)]

\* The records osalTimerUpdate takes out of the list.
IsSpent(rec) == rec.timeout = 0 \/ rec.flag = NoFlag

RemoveTimer(list, i) ==
  [j \in 1 .. Len(list) - 1 |-> IF j < i THEN list[j] ELSE list[j + 1]]

\* osal_next_timeout: the smallest timeout (deleted records count), or zero
\* if there is no timer.
NextTimeout(list, max) ==
  IF list = << >> THEN 0
  ELSE CHOOSE n \in {max} \cup {list[i].timeout : i \in 1 .. Len(list)} :
         n <= max /\ \A i \in 1 .. Len(list) : n <= list[i].timeout
=============================================================================
