------------------------------ MODULE NvStore ------------------------------
(***************************************************************************)
(* What Components/osal/mcu/cc2530/OSAL_Nv.c promises: a store of items    *)
(* in which one operation at a time takes effect at once or, if the power  *)
(* or the flash fails, perhaps not at all, and an operation that has       *)
(* returned with success has taken effect and is never undone.             *)
(***************************************************************************)
EXTENDS Naturals

CONSTANTS Ids, Values, Missing

VARIABLES
  store,    \* the value of every item, or Missing
  pending,  \* the operation under way: at most one <<id, value>>
  mode      \* "off" (and starting), "idle" or "busy"

vars == <<store, pending, mode>>

Init == store = [id \in Ids |-> Missing] /\ pending = {} /\ mode = "off"

Start == mode = "off" /\ mode' = "idle" /\ UNCHANGED <<store, pending>>

Begin(id, v) ==
  /\ mode = "idle" /\ mode' = "busy"
  /\ pending' \in {{<<id, v>>}, {}}
  /\ UNCHANGED store

Take(id, v) ==
  /\ <<id, v>> \in pending
  /\ store' = [store EXCEPT ![id] = v]
  /\ UNCHANGED <<pending, mode>>

\* The operation has failed and will have no effect any more.
Fail == mode = "busy" /\ pending' = {} /\ UNCHANGED <<store, mode>>

\* With success an operation returns only when it has taken effect.
Return ==
  /\ mode = "busy" /\ mode' = "idle"
  /\ \A p \in pending : store[p[1]] = p[2]
  /\ pending' = {}
  /\ UNCHANGED store

PowerFail == mode' = "off" /\ pending' = {} /\ UNCHANGED store

Next ==
  \/ Start \/ Fail \/ Return \/ PowerFail
  \/ \E id \in Ids, v \in Values \cup {Missing} : Begin(id, v) \/ Take(id, v)

Spec == Init /\ [][Next]_vars
=============================================================================
