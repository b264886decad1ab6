----------------------------- MODULE MCMacRadio -----------------------------
(* Frames for the runs of MacRadio. *)
EXTENDS MacRadio

AckFrame(match) == [ack |-> TRUE, ackReq |-> FALSE, match |-> match, crcOK |-> TRUE, payload |-> 0]
DataFrame(ackReq, crcOK, payload) ==
  [ack |-> FALSE, ackReq |-> ackReq, match |-> FALSE, crcOK |-> crcOK, payload |-> payload]

SomeFrames == {AckFrame(TRUE), AckFrame(FALSE), DataFrame(TRUE, TRUE, 1),
               DataFrame(TRUE, FALSE, 0), DataFrame(FALSE, TRUE, 0)}
=============================================================================
