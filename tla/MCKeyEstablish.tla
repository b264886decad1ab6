--------------------------- MODULE MCKeyEstablish --------------------------
(* The trust centre e, and two devices that establish keys with it: one    *)
(* twice, both ends at once, two devices at once, and the trust centre as  *)
(* the responder of one and the initiator of the other.                    *)
EXTENDS KeyEstablish, TLC

CONSTANTS a, b, e

MCDevices == {a, b, e}
MCPlans == {<<a, e>> :> 2,
            <<a, e>> :> 1 @@ <<e, a>> :> 1,
            <<a, e>> :> 1 @@ <<b, e>> :> 1,
            <<a, e>> :> 1 @@ <<e, b>> :> 1}
=============================================================================
