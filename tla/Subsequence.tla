---------------------------- MODULE Subsequence ----------------------------
(***************************************************************************)
(* What is left of a sequence at some of its positions, in the same order. *)
(* SelectSeq selects as well; here a selection is a function of its set of *)
(* positions and not a recursion over the sequence, so that what a change  *)
(* of the sequence or of the set does to it can be proved.                 *)
(***************************************************************************)
EXTENDS Naturals, Sequences, FiniteSets

\* Which one of the numbers of S the number i is, counted from the least.
Rank(S, i) == Cardinality({j \in S : j <= i})

Nth(S, k) == CHOOSE i \in S : Rank(S, i) = k

\* The elements of q at the positions in S.
Elements(q, S) == [k \in 1 .. Cardinality(S) |-> q[Nth(S, k)]]
=============================================================================
