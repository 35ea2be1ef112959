----------------------------- MODULE Ringbuffer ------------------------------
(***************************************************************************)
(* ring_buffer.hpp: an array with a head, a tail and a size, and the       *)
(* iterator over it, as functions of a ring.                               *)
(***************************************************************************)
EXTENDS Integers, Sequences, FiniteSets

CONSTANTS capacity, Items,
          Unset    \* what a slot holds that was never written

ASSUME RingAssumption == capacity \in Nat \ {0}

Slots == 0 .. capacity - 1

Rings == [buffer : [Slots -> Items \cup {Unset}], head : Slots, tail : Slots, size : 0 .. capacity]

EmptyRing == [buffer |-> [s \in Slots |-> Unset], head |-> 0, tail |-> 0, size |-> 0]

is_empty(r) == r.size = 0

is_full(r) == r.size = capacity

NextSlot(s) == (s + 1) % capacity

\* push, once the ring is known not to be full.
Pushed(r, x) ==
    [buffer |-> [r.buffer EXCEPT ![r.tail] = x],
     head   |-> r.head,
     tail   |-> NextSlot(r.tail),
     size   |-> r.size + 1]

\* pop, once the ring is known not to be empty; the item stays in its slot.
Popped(r) == [r EXCEPT !.head = NextSlot(@), !.size = @ - 1]

Front(r) == r.buffer[r.head]

-----------------------------------------------------------------------------
(* The iterator *)

\* The slot k behind the head.
SlotAt(r, k) == (r.head + k) % capacity

\* An iterator that has been incremented k times from begin().
IteratorAt(r, k) == [index |-> SlotAt(r, k), count |-> k]

IteratorEnd(r) == [index |-> r.tail, count |-> r.size]

\* Variant: iterators are compared by index only.
VisitsByIndex(r) ==
    {k \in 0 .. 2 * capacity : \A j \in 0 .. k : IteratorAt(r, j).index # IteratorEnd(r).index}

\* How often the body of "for (it = begin(); it != end(); ++it)" runs; a count
\* beyond every possible one stands for a loop that does not end.
Visits(r) == {k \in 0 .. 2 * capacity : \A j \in 0 .. k : IteratorAt(r, j) # IteratorEnd(r)}

-----------------------------------------------------------------------------
\* The items of a ring, oldest first.
Contents(r) == [i \in 1 .. r.size |-> r.buffer[SlotAt(r, i - 1)]]

\* Head, tail and size agree: with any two of them wrong by one the ring would
\* lose an item, or the iterator would miss its end.
Consistent(r) ==
    /\ r \in Rings
    /\ r.tail = SlotAt(r, r.size)
    /\ \A i \in 1 .. r.size : r.buffer[SlotAt(r, i - 1)] \in Items
=============================================================================
