------------------------------ MODULE Allocator ----------------------------
(***************************************************************************)
(* What a heap of two parts promises: a block it hands out lies in one of  *)
(* them, apart from all blocks that are in use, and stays where it is and  *)
(* as long as it is until it is given back.                                *)
(***************************************************************************)
EXTENDS Integers

CONSTANT Areas   \* the parts, as pairs of a first address and the one after the last

VARIABLE inUse   \* a function from the blocks in use to their lengths

Blocks == DOMAIN inUse

Apart(a, l) == \A b \in Blocks : b + inUse[b] <= a \/ a + l <= b

Within(a, l) == \E area \in Areas : area[1] <= a /\ a + l <= area[2]

Init == Blocks = {}

Alloc(a, l) ==
  /\ Apart(a, l) /\ Within(a, l)
  /\ inUse' = [b \in Blocks \cup {a} |-> IF b = a THEN l ELSE inUse[b]]

Free(a) == inUse' = [b \in Blocks \ {a} |-> inUse[b]]

Next == \/ \E a \in DOMAIN inUse' : Alloc(a, inUse'[a])
        \/ \E a \in Blocks : Free(a)

Spec == Init /\ [][Next]_inUse
=============================================================================
