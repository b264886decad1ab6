------------------------------ MODULE Install -------------------------------
(***************************************************************************)
(* What the boot loader promises: a device that is up may stage a new      *)
(* version and commit itself to it; that is one step, whatever happens to  *)
(* the power, and a device that is down comes up again with the version it *)
(* is committed to.                                                        *)
(***************************************************************************)
CONSTANTS Versions, First
VARIABLES
  version,  \* the version the device is committed to
  staged,   \* the version it could commit to, or "none"
  up        \* the device is running

Init == version = First /\ staged = "none" /\ up = TRUE

Stage == up /\ staged' \in Versions \cup {"none"} /\ UNCHANGED <<version, up>>
Commit ==
  /\ up /\ staged # "none" /\ version' = staged
  /\ up' = FALSE /\ staged' = "none"
Down == up /\ up' = FALSE /\ staged' = "none" /\ UNCHANGED version
Up == ~up /\ up' = TRUE /\ UNCHANGED <<version, staged>>

Next == Stage \/ Commit \/ Down \/ Up

vars == <<version, staged, up>>
Steps == Init /\ [][Next]_vars

\* A device that is down does not stay down.
Spec == Steps /\ WF_vars(Up)
=============================================================================
