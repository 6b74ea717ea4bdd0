----------------------------- MODULE LossyQueue -----------------------------
(***************************************************************************)
(* What an event channel promises: events are taken in the order they were *)
(* put, at most Capacity are kept, and when there is no room the oldest is *)
(* given up for the newest.                                                *)
(***************************************************************************)
EXTENDS Integers, Sequences

CONSTANTS Names, Values, Capacity

VARIABLE queue

Init == queue = [n \in Names |-> <<>>]

Put(n, v) ==
    queue' = [queue EXCEPT ![n] = Append(IF Len(@) = Capacity THEN Tail(@) ELSE @, v)]

Take(n) ==
    /\ queue[n] # <<>>
    /\ queue' = [queue EXCEPT ![n] = Tail(@)]

Next == \E n \in Names : Take(n) \/ \E v \in Values : Put(n, v)

Spec == Init /\ [][Next]_queue
=============================================================================
