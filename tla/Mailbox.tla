------------------------------ MODULE Mailbox ------------------------------
(***************************************************************************)
(* What message passing promises: every thread has a mailbox of at most    *)
(* Capacity messages, which are received in the order they were accepted,  *)
(* none lost, none twice; a new thread starts with an empty one.           *)
(***************************************************************************)
EXTENDS Integers, Sequences

CONSTANTS Owners, Messages, Capacity

VARIABLE mail

Init == mail = [o \in Owners |-> <<>>]

Accept(o, m) == Len(mail[o]) < Capacity /\ mail' = [mail EXCEPT ![o] = Append(@, m)]
Receive(o) == mail[o] # <<>> /\ mail' = [mail EXCEPT ![o] = Tail(@)]
NewOwner(o) == mail' = [mail EXCEPT ![o] = <<>>]

Next == \E o \in Owners : Receive(o) \/ NewOwner(o) \/ \E m \in Messages : Accept(o, m)

Spec == Init /\ [][Next]_mail
=============================================================================
