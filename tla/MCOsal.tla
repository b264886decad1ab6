------------------------------ MODULE MCOsal ------------------------------
(* Instance of Osal for TLC. *)
EXTENDS Osal, TLC

CONSTANTS b1, b2, b3

Symmetry == Permutations({b1, b2, b3})
=============================================================================
