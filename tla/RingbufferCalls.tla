------------------------- MODULE RingbufferCalls --------------------------
(***************************************************************************)
(* A ring whose push and pop are called one after the other, as they are   *)
(* everywhere, under the mutex that goes with the ring.                    *)
(***************************************************************************)
EXTENDS LatestQueryIDs

CONSTANT Refused   \* std::runtime_error has been thrown

VARIABLES ring, result

ringvars == <<ring, result>>

RingInit == ring = EmptyRing /\ result = Refused

\* Variant: the test for a full ring is one too late.
PushLate(x) ==
    IF ring.size > capacity
    THEN result' = Refused /\ UNCHANGED ring
    ELSE result' = x /\ ring' = Pushed(ring, x)

Push(x) ==
    IF is_full(ring)
    THEN result' = Refused /\ UNCHANGED ring
    ELSE result' = x /\ ring' = Pushed(ring, x)

Pop ==
    IF is_empty(ring)
    THEN result' = Refused /\ UNCHANGED ring
    ELSE result' = Front(ring) /\ ring' = Popped(ring)

RingNext == Pop \/ \E x \in Items : Push(x)

RingSpec == RingInit /\ [][RingNext]_ringvars

-----------------------------------------------------------------------------
(* Properties *)

\* What push and pop leave behind is a ring they can go on with.
RingConsistent == Consistent(ring)

\* The loop of isDuplicateQueryID makes one round per item and ends, for a full
\* ring too, where begin() and end() have the same index (ring_buffer.hpp:78),
\* and it finds an item if and only if the ring holds it.
IteratorVisitsTheItems ==
    /\ Cardinality(Visits(ring)) = ring.size
    /\ \A x \in Items :
          isDuplicateQueryID(ring, x) <=> \E i \in 1 .. ring.size : Contents(ring)[i] = x

\* appendQueryID keeps the last ids, as many as there is room for: of a full
\* ring it drops the oldest one only, so that an id is known until "capacity"
\* others have come.
WindowSlides ==
    \A x \in Items :
        LET ids == Contents(ring)
            appended == appendQueryID(ring, x)
        IN  /\ Consistent(appended)
            /\ Contents(appended) = Append(IF Len(ids) = capacity THEN Tail(ids) ELSE ids, x)

\* The ring is a bounded queue.
Queue == INSTANCE BoundedQueue WITH queue <- Contents(ring), outcome <- result

ImplementsQueue == Queue!Spec
=============================================================================
