------------------------------ MODULE Mailbox ------------------------------
(***************************************************************************)
(* What osal_msg_send and osal_msg_receive promise to tasks: every task    *)
(* has a mailbox, a message goes into one mailbox, stays there until its   *)
(* task takes it, and leaves in the order it came.                         *)
(***************************************************************************)
EXTENDS Sequences

CONSTANTS Tasks, Msgs

VARIABLE mail

Init == mail = [t \in Tasks |-> << >>]

Put(t, m) ==
  /\ \A u \in Tasks : \A i \in DOMAIN mail[u] : mail[u][i] # m
  /\ mail' = [mail EXCEPT ![t] = Append(@, m)]

Take(t) ==
  /\ mail[t] # << >>
  /\ mail' = [mail EXCEPT ![t] = Tail(@)]

Next == \E t \in Tasks : Take(t) \/ \E m \in Msgs : Put(t, m)

Spec == Init /\ [][Next]_mail
=============================================================================
