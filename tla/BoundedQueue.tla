---------------------------- MODULE BoundedQueue -----------------------------
(***************************************************************************)
(* What the users of a Ringbuffer rely on: a queue of at most "capacity"   *)
(* items, first in first out, that refuses what it cannot do.              *)
(***************************************************************************)
EXTENDS Naturals, Sequences

CONSTANTS capacity, Items,
          Refused   \* the outcome of a push on a full and a pop on an empty queue

VARIABLES queue,    \* the items, oldest first
          outcome   \* what the last operation returned

queuevars == <<queue, outcome>>

Init == queue = <<>> /\ outcome = Refused

Put(x) ==
    IF Len(queue) = capacity
    THEN outcome' = Refused /\ UNCHANGED queue
    ELSE outcome' = x /\ queue' = Append(queue, x)

Take ==
    IF queue = <<>>
    THEN outcome' = Refused /\ UNCHANGED queue
    ELSE outcome' = Head(queue) /\ queue' = Tail(queue)

Next == Take \/ \E x \in Items : Put(x)

Spec == Init /\ [][Next]_queuevars
=============================================================================
