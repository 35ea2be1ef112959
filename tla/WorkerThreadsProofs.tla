------------------------- MODULE WorkerThreadsProofs -------------------------
(***************************************************************************)
(* For every capacity: push and pop keep a ring consistent and do to its   *)
(* contents what a queue does, the iterator visits the contents, and a     *)
(* ring implements a bounded queue.                                        *)
(*                                                                         *)
(* For any number of workers, calls, shared memory results and slots: the  *)
(* notifications of the two condition variables are enough, a worker's pop *)
(* never throws, nothing is used after cleanup_shared_memory, and what the *)
(* threads do with pendingResponses are pushes and pops of a bounded queue.*)
(***************************************************************************)
EXTENDS WorkerThreads, FiniteSetTheorems, SequenceTheorems, TLAPS

(* The ring: slots *)

LEMMA ModuloBelow ==
    ASSUME NEW a \in Nat, NEW c \in Nat \ {0}, a < c
    PROVE  a % c = a
BY SMT

LEMMA ModuloAbove ==
    ASSUME NEW a \in Nat, NEW c \in Nat \ {0}, c <= a, a < 2 * c
    PROVE  a % c = a - c
BY SMT

\* Behind the head come the slots up to the end of the array, then the others.
LEMMA SlotAtValue ==
    ASSUME NEW r \in Rings, NEW k \in 0 .. capacity
    PROVE  /\ SlotAt(r, k) \in Slots
           /\ r.head + k < capacity => SlotAt(r, k) = r.head + k
           /\ r.head + k >= capacity => SlotAt(r, k) = r.head + k - capacity
<1>1. r.head \in Slots
  BY DEF Rings
<1>2. capacity \in Nat \ {0} /\ r.head \in Nat /\ r.head < capacity /\ k \in Nat /\ k <= capacity
  BY <1>1, RingAssumption DEF Slots
<1>3. CASE r.head + k < capacity
  <2>1. (r.head + k) % capacity = r.head + k
    BY <1>2, <1>3, ModuloBelow
  <2> QED BY <1>2, <1>3, <2>1 DEF SlotAt, Slots
<1>4. CASE r.head + k >= capacity
  <2>1. r.head + k < 2 * capacity
    BY <1>2
  <2>2. (r.head + k) % capacity = r.head + k - capacity
    BY <1>2, <1>4, <2>1, ModuloAbove
  <2> QED BY <1>2, <1>4, <2>2 DEF SlotAt, Slots
<1> QED BY <1>2, <1>3, <1>4

\* Two slots of one ring are the same only if they are as far from the head.
LEMMA SlotsDiffer ==
    ASSUME NEW r \in Rings, NEW j \in 0 .. capacity - 1, NEW k \in 0 .. capacity - 1,
           SlotAt(r, j) = SlotAt(r, k)
    PROVE  j = k
<1>1. r.head \in Slots
  BY DEF Rings
<1>2. j \in 0 .. capacity /\ k \in 0 .. capacity
  BY RingAssumption
<1> QED BY <1>1, <1>2, SlotAtValue, RingAssumption DEF Slots

\* The slot behind slot k is slot k + 1.
LEMMA NextSlotAt ==
    ASSUME NEW r \in Rings, NEW k \in 0 .. capacity - 1
    PROVE  /\ NextSlot(SlotAt(r, k)) = SlotAt(r, k + 1)
           /\ NextSlot(SlotAt(r, k)) \in Slots
<1>1. r.head \in Slots /\ capacity \in Nat \ {0}
  BY RingAssumption DEF Rings
<1>2. k \in 0 .. capacity /\ k + 1 \in 0 .. capacity
  BY <1>1
<1>3. SlotAt(r, k) \in Slots /\ SlotAt(r, k + 1) \in Slots
  BY <1>2, SlotAtValue
<1>4. CASE SlotAt(r, k) + 1 < capacity
  <2>1. NextSlot(SlotAt(r, k)) = SlotAt(r, k) + 1
    BY <1>1, <1>3, <1>4, ModuloBelow DEF NextSlot, Slots
  <2> QED BY <1>1, <1>2, <1>3, <1>4, <2>1, SlotAtValue DEF Slots
<1>5. CASE SlotAt(r, k) + 1 = capacity
  <2>1. NextSlot(SlotAt(r, k)) = 0
    BY <1>1, <1>3, <1>5, ModuloAbove DEF NextSlot, Slots
  <2> QED BY <1>1, <1>2, <1>3, <1>5, <2>1, SlotAtValue DEF Slots
<1> QED BY <1>1, <1>3, <1>4, <1>5 DEF Slots

-----------------------------------------------------------------------------
(* The ring: contents *)

\* The contents of a consistent ring are a sequence of items.
LEMMA ContentsType ==
    ASSUME NEW r, Consistent(r)
    PROVE  /\ Contents(r) \in Seq(Items)
           /\ Len(Contents(r)) = r.size
           /\ \A i \in 1 .. r.size : Contents(r)[i] = r.buffer[SlotAt(r, i - 1)]
           /\ r.size \in Nat
<1>1. r.size \in Nat
  BY RingAssumption DEF Consistent, Rings
<1> QED BY <1>1, IsASeq DEF Contents, Consistent

\* The empty ring is consistent and has no contents.
LEMMA EmptyRingConsistent == Consistent(EmptyRing) /\ Contents(EmptyRing) = <<>>
<1>1. EmptyRing \in Rings
  BY RingAssumption DEF EmptyRing, Rings, Slots
<1>2. SlotAt(EmptyRing, 0) = 0
  BY <1>1, SlotAtValue, RingAssumption DEF EmptyRing
<1>3. Consistent(EmptyRing)
  BY <1>1, <1>2 DEF Consistent, EmptyRing
<1> QED BY <1>3, ContentsType, EmptySeq DEF EmptyRing

\* push appends.
LEMMA PushAppends ==
    ASSUME NEW r, Consistent(r), ~is_full(r), NEW x \in Items
    PROVE  /\ Consistent(Pushed(r, x))
           /\ Contents(Pushed(r, x)) = Append(Contents(r), x)
<1> DEFINE p == Pushed(r, x)
<1>1. /\ r \in Rings /\ r.size \in 0 .. capacity - 1 /\ r.head \in Slots /\ r.tail \in Slots
      /\ r.tail = SlotAt(r, r.size) /\ r.buffer \in [Slots -> Items \cup {Unset}]
  BY RingAssumption DEF Consistent, is_full, Rings
<1>2. /\ p.head = r.head /\ p.size = r.size + 1 /\ p.tail = SlotAt(r, r.size + 1)
      /\ p.buffer = [r.buffer EXCEPT ![r.tail] = x]
  BY <1>1, NextSlotAt DEF Pushed
<1>3. p.tail \in Slots
  BY <1>1, NextSlotAt DEF Pushed
<1>4. p \in Rings
  BY <1>1, <1>3, RingAssumption DEF Pushed, Rings
<1>5. ASSUME NEW k \in 0 .. capacity
      PROVE  SlotAt(p, k) = SlotAt(r, k)
  BY <1>2 DEF SlotAt
<1>6. ASSUME NEW i \in 1 .. r.size
      PROVE  p.buffer[SlotAt(p, i - 1)] = r.buffer[SlotAt(r, i - 1)]
  <2>1. i - 1 \in 0 .. capacity - 1 /\ r.size \in 0 .. capacity - 1 /\ i - 1 # r.size
    BY <1>1, RingAssumption
  <2>2. SlotAt(r, i - 1) # r.tail
    BY <1>1, <2>1, SlotsDiffer
  <2>3. i - 1 \in 0 .. capacity
    BY <2>1, RingAssumption
  <2> QED BY <1>1, <1>2, <1>5, <2>2, <2>3, SlotAtValue
<1>7. p.buffer[SlotAt(p, r.size)] = x
  <2>1. r.size \in 0 .. capacity
    BY <1>1, RingAssumption
  <2> QED BY <1>1, <1>2, <1>5, <2>1
<1>8. ASSUME NEW i \in 1 .. p.size
      PROVE  p.buffer[SlotAt(p, i - 1)] = IF i <= r.size THEN r.buffer[SlotAt(r, i - 1)] ELSE x
  <2>1. CASE i \in 1 .. r.size
    BY <1>6, <2>1
  <2>2. CASE i = r.size + 1
    <3>1. i - 1 = r.size /\ ~(i <= r.size)
      BY <1>1, <2>2
    <3> QED BY <1>7, <3>1
  <2> QED BY <1>1, <1>2, <2>1, <2>2
<1>9. Consistent(p)
  <2>1. p.tail = SlotAt(p, p.size)
    <3>1. r.size + 1 \in 0 .. capacity
      BY <1>1, RingAssumption
    <3> QED BY <1>2, <1>5, <3>1
  <2>2. ASSUME NEW i \in 1 .. p.size
        PROVE  p.buffer[SlotAt(p, i - 1)] \in Items
    <3>1. i <= r.size => i \in 1 .. r.size
      BY <1>1, <1>2
    <3> QED BY <1>8, <3>1 DEF Consistent
  <2> QED BY <1>4, <2>1, <2>2 DEF Consistent
<1>10. Contents(p) = Append(Contents(r), x)
  <2>1. /\ Contents(p) \in Seq(Items) /\ Len(Contents(p)) = r.size + 1
        /\ \A i \in 1 .. r.size + 1 : Contents(p)[i] = p.buffer[SlotAt(p, i - 1)]
    BY <1>2, <1>9, ContentsType
  <2>2. /\ Contents(r) \in Seq(Items) /\ Len(Contents(r)) = r.size
        /\ \A i \in 1 .. r.size : Contents(r)[i] = r.buffer[SlotAt(r, i - 1)]
    BY ContentsType
  <2>3. /\ Append(Contents(r), x) \in Seq(Items)
        /\ Len(Append(Contents(r), x)) = r.size + 1
        /\ \A i \in 1 .. r.size + 1 :
              Append(Contents(r), x)[i] = IF i <= r.size THEN Contents(r)[i] ELSE x
    BY <1>1, <2>2
  <2>4. \A i \in 1 .. r.size + 1 : Contents(p)[i] = Append(Contents(r), x)[i]
    BY <1>1, <1>2, <1>8, <2>1, <2>2, <2>3
  <2> QED BY <2>1, <2>3, <2>4, SeqEqual
<1> QED BY <1>9, <1>10

\* pop takes the first item off.
LEMMA PopTakesFirst ==
    ASSUME NEW r, Consistent(r), ~is_empty(r)
    PROVE  /\ Consistent(Popped(r))
           /\ Contents(Popped(r)) = Tail(Contents(r))
           /\ Contents(r) # <<>>
           /\ Front(r) = Head(Contents(r))
<1> DEFINE p == Popped(r)
<1>1. /\ r \in Rings /\ r.size \in 1 .. capacity /\ r.head \in Slots /\ r.tail \in Slots
      /\ r.tail = SlotAt(r, r.size) /\ r.buffer \in [Slots -> Items \cup {Unset}]
  BY RingAssumption DEF Consistent, is_empty, Rings
<1>2. SlotAt(r, 0) = r.head
  <2>1. 0 \in 0 .. capacity /\ r.head + 0 = r.head /\ r.head < capacity
    BY <1>1, RingAssumption DEF Slots
  <2> QED BY <1>1, <2>1, SlotAtValue
<1>3. NextSlot(r.head) = SlotAt(r, 1) /\ NextSlot(r.head) \in Slots
  <2>1. 0 \in 0 .. capacity - 1
    BY RingAssumption
  <2> QED BY <1>1, <1>2, <2>1, NextSlotAt
<1>4. /\ p.head = SlotAt(r, 1) /\ p.size = r.size - 1 /\ p.tail = r.tail /\ p.buffer = r.buffer
      /\ p \in Rings
  <2>1. r.size - 1 \in 0 .. capacity
    BY <1>1, RingAssumption
  <2>2. p \in Rings
    BY <1>1, <1>3, <2>1 DEF Popped, Rings
  <2>3. p.head = NextSlot(r.head) /\ p.size = r.size - 1 /\ p.tail = r.tail /\ p.buffer = r.buffer
    BY <1>1 DEF Popped, Rings
  <2> QED BY <1>3, <2>2, <2>3
<1>5. ASSUME NEW k \in 0 .. capacity - 1
      PROVE  SlotAt(p, k) = SlotAt(r, k + 1)
  <2> DEFINE h == r.head
  <2>1. /\ k \in 0 .. capacity /\ k + 1 \in 0 .. capacity /\ 1 \in 0 .. capacity
        /\ capacity \in Nat /\ h \in Nat /\ h < capacity
    BY <1>1, RingAssumption DEF Slots
  <2>2. /\ h + 1 < capacity => p.head = h + 1
        /\ h + 1 >= capacity => p.head = h + 1 - capacity
    BY <1>1, <1>4, <2>1, SlotAtValue
  <2>3. /\ p.head + k < capacity => SlotAt(p, k) = p.head + k
        /\ p.head + k >= capacity => SlotAt(p, k) = p.head + k - capacity
    BY <1>4, <2>1, SlotAtValue
  <2>4. /\ h + (k + 1) < capacity => SlotAt(r, k + 1) = h + (k + 1)
        /\ h + (k + 1) >= capacity => SlotAt(r, k + 1) = h + (k + 1) - capacity
    BY <1>1, <2>1, SlotAtValue
  <2> HIDE DEF h
  <2>5. CASE h + 1 < capacity
    BY <2>1, <2>2, <2>3, <2>4, <2>5
  <2>6. CASE h + 1 >= capacity
    <3>1. h + 1 = capacity /\ p.head = 0
      BY <2>1, <2>2, <2>6
    <3>2. SlotAt(r, k + 1) = k
      BY <2>1, <2>4, <3>1
    <3>3. SlotAt(p, k) = k
      BY <2>1, <2>3, <3>1
    <3> QED BY <3>2, <3>3
  <2> QED BY <2>1, <2>5, <2>6
<1>6. ASSUME NEW i \in 1 .. p.size
      PROVE  /\ i + 1 \in 1 .. r.size
             /\ p.buffer[SlotAt(p, i - 1)] = r.buffer[SlotAt(r, i)]
             /\ i = (i + 1) - 1
  <2>1. i - 1 \in 0 .. capacity - 1 /\ (i - 1) + 1 = i /\ i + 1 \in 1 .. r.size
    BY <1>1, <1>4, RingAssumption
  <2> QED BY <1>4, <1>5, <2>1
<1>7. Consistent(p)
  <2>1. p.tail = SlotAt(p, p.size)
    <3>1. r.size - 1 \in 0 .. capacity - 1 /\ (r.size - 1) + 1 = r.size
      BY <1>1, RingAssumption
    <3> QED BY <1>1, <1>4, <1>5, <3>1
  <2>2. ASSUME NEW i \in 1 .. p.size
        PROVE  p.buffer[SlotAt(p, i - 1)] \in Items
    BY <1>6 DEF Consistent
  <2> QED BY <1>4, <2>1, <2>2 DEF Consistent
<1>8. /\ Contents(r) \in Seq(Items) /\ Len(Contents(r)) = r.size
      /\ \A i \in 1 .. r.size : Contents(r)[i] = r.buffer[SlotAt(r, i - 1)]
  BY ContentsType
<1>9. Contents(r) # <<>>
  BY <1>1, <1>8, EmptySeq
<1>10. Contents(p) = Tail(Contents(r))
  <2>1. /\ Contents(p) \in Seq(Items) /\ Len(Contents(p)) = r.size - 1
        /\ \A i \in 1 .. r.size - 1 : Contents(p)[i] = p.buffer[SlotAt(p, i - 1)]
    BY <1>4, <1>7, ContentsType
  <2>2. /\ Tail(Contents(r)) \in Seq(Items) /\ Len(Tail(Contents(r))) = r.size - 1
        /\ \A i \in 1 .. r.size - 1 : Tail(Contents(r))[i] = Contents(r)[i + 1]
    BY <1>8, <1>9, HeadTailProperties
  <2>3. \A i \in 1 .. r.size - 1 : Contents(p)[i] = Tail(Contents(r))[i]
    BY <1>4, <1>6, <1>8, <2>1, <2>2
  <2> QED BY <2>1, <2>2, <2>3, SeqEqual
<1>11. Front(r) = Head(Contents(r))
  <2>1. Head(Contents(r)) = Contents(r)[1] /\ 1 \in 1 .. r.size /\ 1 - 1 = 0
    BY <1>1, <1>8, <1>9
  <2> QED BY <1>2, <1>8, <2>1 DEF Front
<1> QED BY <1>7, <1>9, <1>10, <1>11

\* The iterator of a consistent ring is incremented once per item.
LEMMA VisitsTheItems ==
    ASSUME NEW r, Consistent(r)
    PROVE  Visits(r) = 0 .. r.size - 1
<1>1. /\ r \in Rings /\ r.size \in 0 .. capacity /\ r.tail = SlotAt(r, r.size)
      /\ capacity \in Nat \ {0}
  BY RingAssumption DEF Consistent, Rings
<1>2. \A k \in Nat : IteratorAt(r, k) = IteratorEnd(r) <=> k = r.size
  BY <1>1 DEF IteratorAt, IteratorEnd
<1>3. Visits(r) = {k \in 0 .. 2 * capacity : \A j \in 0 .. k : j # r.size}
  BY <1>1, <1>2 DEF Visits
<1> QED BY <1>1, <1>3

-----------------------------------------------------------------------------
(* The ring: push and pop *)

\* Push and pop leave a consistent ring behind.
THEOREM RingStaysConsistent == RingSpec => []RingConsistent
<1>1. RingInit => RingConsistent
  BY EmptyRingConsistent DEF RingInit, RingConsistent
<1>2. RingConsistent /\ [RingNext]_ringvars => RingConsistent'
  <2> SUFFICES ASSUME RingConsistent, [RingNext]_ringvars
               PROVE  RingConsistent'
    OBVIOUS
  <2>1. CASE Pop
    BY <2>1, PopTakesFirst DEF Pop, RingConsistent
  <2>2. ASSUME NEW x \in Items, Push(x)
        PROVE  RingConsistent'
    BY <2>2, PushAppends DEF Push, RingConsistent
  <2>3. CASE UNCHANGED ringvars
    BY <2>3 DEF ringvars, RingConsistent
  <2> QED BY <2>1, <2>2, <2>3 DEF RingNext
<1> QED BY <1>1, <1>2, PTL DEF RingSpec

\* The loop of isDuplicateQueryID sees every item and ends.
THEOREM IteratorIsComplete == RingSpec => []IteratorVisitsTheItems
<1>1. RingConsistent => IteratorVisitsTheItems
  <2> SUFFICES ASSUME Consistent(ring)
               PROVE  IteratorVisitsTheItems
    BY DEF RingConsistent
  <2>1. ring.size \in Nat /\ \A i \in 1 .. ring.size : Contents(ring)[i] = ring.buffer[SlotAt(ring, i - 1)]
    BY ContentsType
  <2>2. Visits(ring) = 0 .. ring.size - 1
    BY VisitsTheItems
  <2>3. Cardinality(Visits(ring)) = ring.size
    BY <2>1, <2>2, FS_Interval
  <2>4. ASSUME NEW x
        PROVE  isDuplicateQueryID(ring, x) <=> \E i \in 1 .. ring.size : Contents(ring)[i] = x
    <3>1. ASSUME NEW k \in 0 .. ring.size - 1, ring.buffer[SlotAt(ring, k)] = x
          PROVE  \E i \in 1 .. ring.size : Contents(ring)[i] = x
      <4>1. k + 1 \in 1 .. ring.size /\ (k + 1) - 1 = k
        BY <2>1
      <4> QED BY <2>1, <3>1, <4>1
    <3>2. ASSUME NEW i \in 1 .. ring.size, Contents(ring)[i] = x
          PROVE  \E k \in 0 .. ring.size - 1 : ring.buffer[SlotAt(ring, k)] = x
      <4>1. i - 1 \in 0 .. ring.size - 1
        BY <2>1
      <4> QED BY <2>1, <3>2, <4>1
    <3>3. isDuplicateQueryID(ring, x) <=> \E k \in 0 .. ring.size - 1 : ring.buffer[SlotAt(ring, k)] = x
      <4>1. is_empty(ring) => 0 .. ring.size - 1 = {}
        BY DEF is_empty
      <4> QED BY <2>2, <4>1 DEF isDuplicateQueryID
    <3> QED BY <3>1, <3>2, <3>3
  <2> QED BY <2>3, <2>4 DEF IteratorVisitsTheItems
<1> QED BY <1>1, RingStaysConsistent, PTL

\* A window of any size slides by one.
THEOREM WindowAlwaysSlides == RingSpec => []WindowSlides
<1>1. RingConsistent => WindowSlides
  <2> SUFFICES ASSUME Consistent(ring), NEW x \in Items
               PROVE  /\ Consistent(appendQueryID(ring, x))
                      /\ Contents(appendQueryID(ring, x)) =
                            Append(IF Len(Contents(ring)) = capacity
                                   THEN Tail(Contents(ring)) ELSE Contents(ring), x)
    BY DEF RingConsistent, WindowSlides
  <2>1. Len(Contents(ring)) = ring.size
    BY ContentsType
  <2>2. CASE is_full(ring)
    <3>1. ~is_empty(ring) /\ ~is_full(Popped(ring))
      BY <2>2, RingAssumption DEF is_full, is_empty, Consistent, Rings, Popped
    <3>2. Consistent(Popped(ring)) /\ Contents(Popped(ring)) = Tail(Contents(ring))
      BY <3>1, PopTakesFirst
    <3>3. appendQueryID(ring, x) = Pushed(Popped(ring), x)
      BY <2>2 DEF appendQueryID
    <3> QED BY <2>1, <2>2, <3>1, <3>2, <3>3, PushAppends DEF is_full
  <2>3. CASE ~is_full(ring)
    <3>1. appendQueryID(ring, x) = Pushed(ring, x)
      BY <2>3 DEF appendQueryID
    <3> QED BY <2>1, <2>3, <3>1, PushAppends DEF is_full
  <2> QED BY <2>2, <2>3
<1> QED BY <1>1, RingStaysConsistent, PTL

\* A ring is a bounded queue.
THEOREM RingImplementsQueue == RingSpec => ImplementsQueue
<1>1. RingInit => Queue!Init
  BY EmptyRingConsistent DEF RingInit, Queue!Init
<1>2. RingConsistent /\ [RingNext]_ringvars => [Queue!Next]_(Queue!queuevars)
  <2> SUFFICES ASSUME Consistent(ring), [RingNext]_ringvars
               PROVE  [Queue!Next]_(Queue!queuevars)
    BY DEF RingConsistent
  <2>1. Len(Contents(ring)) = ring.size /\ Contents(ring) \in Seq(Items)
    BY ContentsType
  <2>2. CASE Pop
    <3>1. CASE is_empty(ring)
      <4>1. Contents(ring) = <<>>
        BY <2>1, <3>1, EmptySeq DEF is_empty
      <4> QED BY <2>2, <3>1, <4>1 DEF Pop, Queue!Next, Queue!Take
    <3>2. CASE ~is_empty(ring)
      BY <2>2, <3>2, PopTakesFirst DEF Pop, Queue!Next, Queue!Take
    <3> QED BY <3>1, <3>2
  <2>3. ASSUME NEW x \in Items, Push(x)
        PROVE  Queue!Put(x)
    BY <2>1, <2>3, PushAppends DEF Push, Queue!Put, is_full
  <2>4. CASE UNCHANGED ringvars
    BY <2>4 DEF ringvars, Queue!queuevars
  <2> QED BY <2>2, <2>3, <2>4 DEF RingNext, Queue!Next
<1> QED BY <1>1, <1>2, RingStaysConsistent, PTL DEF RingSpec, ImplementsQueue, Queue!Spec

-----------------------------------------------------------------------------
(* The threads: the invariant *)

\* The workers of a pool that sleep, and those that will take an item before they can.
Asleep(W, p) == {w \in W : p[w] = "waiting"}

Awake(W, p) == {w \in W : p[w] \in {"lock", "woken", "take"}}

\* A pool whose ring is r, its mutex m, and whose workers W are at p and work on t:
\* who has tested the predicate holds the mutex, so that what the test has found
\* still holds; and the awake are enough for the items.
PoolOK(W, r, m, p, t, stop) ==
    /\ Consistent(r)
    /\ DOMAIN p = W /\ DOMAIN t = W
    /\ \A w \in W : p[w] \in {"wait", "take"} => m = w
    /\ \A w \in W : p[w] = "work" => t[w] \in Items
    /\ ~stop =>
          /\ \A w \in W : p[w] = "wait" => is_empty(r)
          /\ \A w \in W : p[w] = "take" => ~is_empty(r)
          /\ Asleep(W, p) # {} => r.size <= Cardinality(Awake(W, p))

PoolsOK ==
    /\ PoolOK(Workers, ring, mutex, pc, taken, worker_stop_flag)
    /\ PoolOK(RequestWorkers, requests, request_mutex, request_pc, request_taken, worker_stop_flag)

\* The threads that only push.
PushersOK ==
    /\ calls \subseteq Queries \cup Received
    /\ main_holds \in Queries => request_mutex = Main
    /\ main_holds \in Received => mutex = Main
    /\ shm_results \subseteq ShmResults
    /\ shm_pc = "push" => shm_taken \in Items

AllEnded ==
    /\ \A w \in Workers : pc[w] = "ended"
    /\ \A w \in RequestWorkers : request_pc[w] = "ended"
    /\ shm_pc = "ended"

StopOK ==
    /\ ~shared_memory_manager => handler = "exit"
    /\ handler \in {"cleanup", "exit"} => AllEnded

Inv == PoolsOK /\ PushersOK /\ TerminatesOnlyWhenFull /\ StopOK

-----------------------------------------------------------------------------
(* What a step does to a pool *)

LEMMA AwakeFacts ==
    ASSUME NEW W, IsFiniteSet(W), NEW p, NEW w \in W
    PROVE  /\ IsFiniteSet(Awake(W, p)) /\ Cardinality(Awake(W, p)) \in Nat
           /\ w \notin Awake(W, p) => Cardinality(Awake(W, p) \cup {w}) = Cardinality(Awake(W, p)) + 1
           /\ w \in Awake(W, p) => Cardinality(Awake(W, p) \ {w}) = Cardinality(Awake(W, p)) - 1
<1>1. IsFiniteSet(Awake(W, p))
  BY FS_Subset DEF Awake
<1> QED BY <1>1, FS_CardinalityType, FS_AddElement, FS_RemoveElement

LEMMA RingSize == \A r : Consistent(r) => r.size \in Nat
BY ContentsType

\* A worker at "lock" or "woken" tests the predicate.
LEMMA PoolTests ==
    ASSUME NEW W, NEW r, NEW m, NEW p, NEW t, NEW stop, PoolOK(W, r, m, p, t, stop), m \notin W,
           NEW w \in W, NEW q, q = [p EXCEPT ![w] = IF ~is_empty(r) \/ stop THEN "take" ELSE "wait"],
           IsFiniteSet(W)
    PROVE  PoolOK(W, r, w, q, t, stop)
<1>1. /\ DOMAIN q = W /\ q[w] = (IF ~is_empty(r) \/ stop THEN "take" ELSE "wait")
      /\ \A v \in W \ {w} : q[v] = p[v]
      /\ \A v \in W : p[v] \notin {"wait", "take"}
  BY DEF PoolOK
<1>2. ASSUME ~stop, Asleep(W, q) # {} PROVE r.size <= Cardinality(Awake(W, q))
  <2>1. CASE is_empty(r)
    <3>1. Cardinality(Awake(W, q)) \in Nat
      BY AwakeFacts
    <3> QED BY <2>1, <3>1 DEF is_empty
  <2>2. CASE ~is_empty(r)
    <3>1. Asleep(W, q) \subseteq Asleep(W, p) /\ Awake(W, q) = Awake(W, p) \cup {w}
      BY <1>1, <2>2 DEF Asleep, Awake
    <3>2. r.size <= Cardinality(Awake(W, p)) /\ r.size \in Nat
      BY <1>2, <3>1, RingSize DEF PoolOK
    <3>3. Cardinality(Awake(W, p)) \in Nat
          /\ Cardinality(Awake(W, q)) \in {Cardinality(Awake(W, p)), Cardinality(Awake(W, p)) + 1}
      <4>1. Cardinality(Awake(W, p)) \in Nat /\ Cardinality(Awake(W, q)) \in Nat
        BY AwakeFacts
      <4>2. CASE w \in Awake(W, p)
        <5>1. Awake(W, q) = Awake(W, p)
          BY <3>1, <4>2
        <5> QED BY <4>1, <5>1
      <4>3. CASE w \notin Awake(W, p)
        <5>1. Cardinality(Awake(W, p) \cup {w}) = Cardinality(Awake(W, p)) + 1
          BY <4>3, AwakeFacts
        <5> QED BY <3>1, <4>1, <5>1
      <4> QED BY <4>2, <4>3
    <3> QED BY <3>2, <3>3
  <2> QED BY <2>1, <2>2
<1> QED BY <1>1, <1>2 DEF PoolOK

\* It goes to sleep, and releases the mutex.
LEMMA PoolWaits ==
    ASSUME NEW W, NEW r, NEW m, NEW p, NEW t, NEW stop, PoolOK(W, r, m, p, t, stop),
           NEW w \in W, p[w] = "wait", NEW q, q = [p EXCEPT ![w] = "waiting"], NEW n, IsFiniteSet(W)
    PROVE  PoolOK(W, r, n, q, t, stop)
<1>1. /\ DOMAIN q = W /\ q[w] = "waiting" /\ \A v \in W \ {w} : q[v] = p[v]
      /\ m = w /\ \A v \in W \ {w} : p[v] \notin {"wait", "take"}
  BY DEF PoolOK
<1>2. ~stop => r.size <= Cardinality(Awake(W, q))
  <2>1. Cardinality(Awake(W, q)) \in Nat
    BY AwakeFacts
  <2> QED BY <2>1 DEF PoolOK, is_empty
<1> QED BY <1>1, <1>2 DEF PoolOK

\* It takes an item, or ends.
LEMMA PoolTakes ==
    ASSUME NEW W, NEW r, NEW m, NEW p, NEW t, NEW stop, PoolOK(W, r, m, p, t, stop),
           NEW w \in W, p[w] = "take", NEW n, NEW q, NEW u, NEW s, IsFiniteSet(W),
           IF stop
           THEN q = [p EXCEPT ![w] = "ended"] /\ u = t /\ s = r
           ELSE q = [p EXCEPT ![w] = "work"] /\ u = [t EXCEPT ![w] = Front(r)] /\ s = Popped(r)
    PROVE  PoolOK(W, s, n, q, u, stop)
<1>1. /\ DOMAIN q = W /\ \A v \in W \ {w} : q[v] = p[v]
      /\ q[w] = (IF stop THEN "ended" ELSE "work")
      /\ m = w /\ \A v \in W \ {w} : p[v] \notin {"wait", "take"}
  BY DEF PoolOK
<1>2. CASE stop
  BY <1>1, <1>2 DEF PoolOK
<1>3. CASE ~stop
  <2>1. Consistent(r) /\ ~is_empty(r)
    BY <1>3 DEF PoolOK
  <2>2. Consistent(s) /\ Front(r) \in Items /\ s.size = r.size - 1
    <3>1. Consistent(Popped(r)) /\ Front(r) = Head(Contents(r)) /\ Contents(r) # <<>> /\ Contents(r) \in Seq(Items)
      BY <2>1, PopTakesFirst, ContentsType
    <3>2. Front(r) \in Items
      BY <3>1
    <3>3. Popped(r).size = r.size - 1
      BY <2>1 DEF Popped, Consistent, Rings
    <3> QED BY <1>3, <3>1, <3>2, <3>3
  <2>3. DOMAIN u = W /\ u[w] = Front(r) /\ \A v \in W \ {w} : u[v] = t[v]
    BY <1>3 DEF PoolOK
  <2>4. ASSUME Asleep(W, q) # {} PROVE s.size <= Cardinality(Awake(W, q))
    <3>1. Asleep(W, q) = Asleep(W, p) /\ Awake(W, q) = Awake(W, p) \ {w} /\ w \in Awake(W, p)
      BY <1>1, <1>3 DEF Asleep, Awake
    <3>2. r.size <= Cardinality(Awake(W, p)) /\ r.size \in Nat
      BY <1>3, <2>1, <2>4, <3>1, RingSize DEF PoolOK
    <3>3. Cardinality(Awake(W, q)) = Cardinality(Awake(W, p)) - 1 /\ Cardinality(Awake(W, p)) \in Nat
      BY <3>1, AwakeFacts
    <3> QED BY <2>2, <3>2, <3>3
  <2> QED BY <1>1, <1>3, <2>2, <2>3, <2>4 DEF PoolOK
<1> QED BY <1>2, <1>3

\* One that worked, or slept, comes back to the mutex.
LEMMA PoolWakes ==
    ASSUME NEW W, NEW r, NEW m, NEW p, NEW t, NEW stop, PoolOK(W, r, m, p, t, stop),
           NEW w \in W, p[w] \in {"work", "waiting"},
           NEW q, DOMAIN q = W, q[w] \in {"lock", "woken"}, \A v \in W \ {w} : q[v] = p[v],
           NEW u, DOMAIN u = W, \A v \in W \ {w} : u[v] = t[v], IsFiniteSet(W)
    PROVE  /\ PoolOK(W, r, m, q, u, stop)
           /\ Cardinality(Awake(W, q)) = Cardinality(Awake(W, p)) + 1
<1>2. Asleep(W, q) \subseteq Asleep(W, p) /\ Awake(W, q) = Awake(W, p) \cup {w} /\ w \notin Awake(W, p)
  BY DEF Asleep, Awake
<1>3. Cardinality(Awake(W, q)) = Cardinality(Awake(W, p)) + 1 /\ Cardinality(Awake(W, p)) \in Nat
  BY <1>2, AwakeFacts
<1>4. ~stop /\ Asleep(W, q) # {} => r.size <= Cardinality(Awake(W, q))
  <2>1. ~stop /\ Asleep(W, q) # {} => r.size <= Cardinality(Awake(W, p)) /\ r.size \in Nat
    BY <1>2, RingSize DEF PoolOK
  <2>2. PICK a, b : a = Cardinality(Awake(W, p)) /\ b = Cardinality(Awake(W, q))
    OBVIOUS
  <2>3. a \in Nat /\ b = a + 1
    BY <1>3, <2>2
  <2>4. \A n \in Nat : n <= a => n <= b
    BY <2>3
  <2> QED BY <2>1, <2>2, <2>4
<1> QED BY <1>3, <1>4 DEF PoolOK

\* A thread that holds the mutex pushes, and notifies one that sleeps.
LEMMA PoolPushes ==
    ASSUME NEW W, NEW r, NEW m, NEW p, NEW t, NEW stop, PoolOK(W, r, m, p, t, stop), m \notin W,
           NEW x \in Items, ~is_full(r), NEW q, NEW n, n \notin W, IsFiniteSet(W),
           \/ \E w \in Asleep(W, p) : q = [p EXCEPT ![w] = "woken"]
           \/ Asleep(W, p) = {} /\ q = p
    PROVE  PoolOK(W, Pushed(r, x), n, q, t, stop)
<1>1. Consistent(Pushed(r, x)) /\ r.size \in Nat /\ Pushed(r, x).size = r.size + 1
  BY PushAppends, RingSize DEF PoolOK, Pushed
<1>2. ~is_empty(Pushed(r, x)) /\ \A v \in W : p[v] \notin {"wait", "take"}
  BY <1>1 DEF is_empty, PoolOK
<1>3. CASE Asleep(W, p) = {} /\ q = p
  BY <1>1, <1>2, <1>3 DEF PoolOK
<1>4. ASSUME NEW w \in Asleep(W, p), q = [p EXCEPT ![w] = "woken"] PROVE PoolOK(W, Pushed(r, x), n, q, t, stop)
  <2>1. w \in W /\ p[w] = "waiting"
    BY DEF Asleep
  <2>2. PoolOK(W, r, m, q, t, stop) /\ Cardinality(Awake(W, q)) = Cardinality(Awake(W, p)) + 1
    <3>1. /\ DOMAIN q = W /\ q[w] = "woken" /\ \A v \in W \ {w} : q[v] = p[v]
          /\ DOMAIN t = W
      BY <1>4, <2>1 DEF PoolOK
    <3> QED BY <2>1, <3>1, PoolWakes
  <2>3. ~stop => r.size <= Cardinality(Awake(W, p)) /\ Cardinality(Awake(W, p)) \in Nat
    BY <2>1, AwakeFacts DEF PoolOK
  <2>4. \A v \in W : q[v] \notin {"wait", "take"}
    BY <1>2, <1>4 DEF PoolOK
  <2>5. ~stop => Pushed(r, x).size <= Cardinality(Awake(W, q))
    BY <1>1, <2>2, <2>3
  <2> QED BY <1>1, <1>2, <2>2, <2>4, <2>5 DEF PoolOK
<1> QED BY <1>3, <1>4

\* So it is whether or not there is room.
LEMMA PoolAfterPush ==
    ASSUME NEW W, NEW r, NEW m, NEW p, NEW t, NEW stop, PoolOK(W, r, m, p, t, stop), m \notin W,
           NEW x \in Items, NEW q, NEW n, n \notin W, IsFiniteSet(W), NEW s,
           IF is_full(r) THEN s = r ELSE s = Pushed(r, x),
           IF is_full(r)
           THEN q = p
           ELSE \/ \E w \in Asleep(W, p) : q = [p EXCEPT ![w] = "woken"]
                \/ Asleep(W, p) = {} /\ q = p
    PROVE  PoolOK(W, s, n, q, t, stop)
<1>1. CASE is_full(r)
  BY <1>1 DEF PoolOK
<1>2. CASE ~is_full(r)
  BY <1>2, PoolPushes
<1> QED BY <1>1, <1>2

\* The mutex passes between threads that are not workers, all are notified, a
\* worker ends as the flag is up, or the flag is set.
LEMMA PoolStays ==
    ASSUME NEW W, NEW r, NEW m, NEW p, NEW t, NEW stop, PoolOK(W, r, m, p, t, stop)
    PROVE  /\ \A n : m \notin W => PoolOK(W, r, n, p, t, stop)
           /\ PoolOK(W, r, m, [w \in W |-> IF w \in Asleep(W, p) THEN "woken" ELSE p[w]], t, stop)
           /\ stop => \A w \in W : PoolOK(W, r, m, [p EXCEPT ![w] = "ended"], t, stop)
           /\ PoolOK(W, r, m, p, t, TRUE)
BY DEF PoolOK, Asleep

-----------------------------------------------------------------------------
(* The pools in every step *)

LEMMA PoolsAfter ==
    PoolsOK' <=> /\ PoolOK(Workers, ring', mutex', pc', taken', worker_stop_flag')
                 /\ PoolOK(RequestWorkers, requests', request_mutex', request_pc', request_taken',
                           worker_stop_flag')
BY DEF PoolsOK, PoolOK, Consistent, Rings, Slots, SlotAt, is_empty, Asleep, Awake

\* The rings of the two pools are the same class.
LEMMA SameRings ==
    \A r, x : /\ Requests!is_empty(r) = is_empty(r) /\ Requests!is_full(r) = is_full(r)
              /\ Requests!Pushed(r, x) = Pushed(r, x) /\ Requests!Popped(r) = Popped(r)
              /\ Requests!Front(r) = Front(r)
BY DEF is_empty, is_full, Pushed, Popped, Front, NextSlot, Requests!is_empty, Requests!is_full,
       Requests!Pushed, Requests!Popped, Requests!Front, Requests!NextSlot

\* What does not touch a pool leaves it as it was.
LEMMA PoolsUntouched ==
    /\ PoolsOK /\ UNCHANGED <<requestpool, worker_stop_flag>> =>
          PoolOK(RequestWorkers, requests', request_mutex', request_pc', request_taken', worker_stop_flag')
    /\ PoolsOK /\ UNCHANGED <<responsepool, worker_stop_flag>> =>
          PoolOK(Workers, ring', mutex', pc', taken', worker_stop_flag')
BY DEF PoolsOK, requestpool, responsepool

\* A push onto the ring of the response workers, by a thread that has its mutex or takes it.
LEMMA PushesResponse ==
    ASSUME PoolsOK, NEW x \in Items, PushItem(x), mutex \notin Workers, mutex' \notin Workers,
           UNCHANGED <<taken, worker_stop_flag>>
    PROVE  PoolOK(Workers, ring', mutex', pc', taken', worker_stop_flag')
<1>1. IF is_full(ring) THEN ring' = ring ELSE ring' = Pushed(ring, x)
  BY DEF PushItem, Push
<1>2. IF is_full(ring)
      THEN pc' = pc
      ELSE \/ \E w \in Asleep(Workers, pc) : pc' = [pc EXCEPT ![w] = "woken"]
           \/ Asleep(Workers, pc) = {} /\ pc' = pc
  BY DEF PushItem, NotifyOne, GoesTo, Waiting, Asleep
<1>3. PoolOK(Workers, ring', mutex', pc', taken, worker_stop_flag)
  BY <1>1, <1>2, PoolAfterPush, ThreadsAssumption DEF PoolsOK
<1> QED BY <1>3

\* A push onto the ring of the request workers.
LEMMA PushesRequest ==
    ASSUME PoolsOK, NEW x \in Items, Requests!PushItem(x),
           request_mutex \notin RequestWorkers, request_mutex' \notin RequestWorkers,
           UNCHANGED <<request_taken, worker_stop_flag>>
    PROVE  PoolOK(RequestWorkers, requests', request_mutex', request_pc', request_taken', worker_stop_flag')
<1>1. IF is_full(requests) THEN requests' = requests ELSE requests' = Pushed(requests, x)
  BY SameRings DEF Requests!PushItem, Requests!Push
<1>2. IF is_full(requests)
      THEN request_pc' = request_pc
      ELSE \/ \E w \in Asleep(RequestWorkers, request_pc) : request_pc' = [request_pc EXCEPT ![w] = "woken"]
           \/ Asleep(RequestWorkers, request_pc) = {} /\ request_pc' = request_pc
  BY SameRings DEF Requests!PushItem, Requests!NotifyOne, Requests!GoesTo, Requests!Waiting, Asleep
<1>3. PoolOK(RequestWorkers, requests', request_mutex', request_pc', request_taken, worker_stop_flag)
  BY <1>1, <1>2, PoolAfterPush, ThreadsAssumption DEF PoolsOK
<1> QED BY <1>3

\* A response worker between its items.
LEMMA ResponseWorkerWaits ==
    ASSUME PoolsOK, NEW w \in Workers, End(w) \/ Test(w) \/ Wait(w) \/ Take(w)
    PROVE  PoolOK(Workers, ring', mutex', pc', taken', worker_stop_flag')
<1> USE ThreadsAssumption DEF PoolsOK
<1>1. CASE End(w)
  BY <1>1, PoolStays DEF End, GoesTo
<1>2. CASE Test(w)
  <2>1. mutex \notin Workers
    BY <1>2 DEF Test
  <2>2. pc' = [pc EXCEPT ![w] = IF ~is_empty(ring) \/ worker_stop_flag THEN "take" ELSE "wait"]
        /\ mutex' = w /\ UNCHANGED <<ring, taken, worker_stop_flag>>
    BY <1>2 DEF Test, GoesTo
  <2> QED BY <2>1, <2>2, PoolTests
<1>3. CASE Wait(w)
  <2>1. pc[w] = "wait" /\ pc' = [pc EXCEPT ![w] = "waiting"] /\ UNCHANGED <<ring, taken, worker_stop_flag>>
    BY <1>3 DEF Wait, GoesTo
  <2> QED BY <2>1, PoolWaits
<1>4. CASE Take(w)
  <2>1. ~worker_stop_flag => ~is_empty(ring)
    BY <1>4 DEF Take, PoolOK
  <2>2. /\ pc[w] = "take" /\ UNCHANGED worker_stop_flag
        /\ IF worker_stop_flag
           THEN pc' = [pc EXCEPT ![w] = "ended"] /\ taken' = taken /\ ring' = ring
           ELSE pc' = [pc EXCEPT ![w] = "work"] /\ taken' = [taken EXCEPT ![w] = Front(ring)]
                /\ ring' = Popped(ring)
    BY <1>4, <2>1 DEF Take, GoesTo, Pop
  <2>3. PoolOK(Workers, ring', mutex', pc', taken', worker_stop_flag)
    BY <2>2, PoolTakes
  <2> QED BY <2>2, <2>3
<1> QED BY <1>1, <1>2, <1>3, <1>4

\* A request worker between its items.
LEMMA RequestWorkerWaits ==
    ASSUME PoolsOK, NEW w \in RequestWorkers,
           Requests!End(w) \/ Requests!Test(w) \/ Requests!Wait(w) \/ Requests!Take(w)
    PROVE  PoolOK(RequestWorkers, requests', request_mutex', request_pc', request_taken', worker_stop_flag')
<1> USE ThreadsAssumption DEF PoolsOK
<1>1. CASE Requests!End(w)
  BY <1>1, PoolStays DEF Requests!End, Requests!GoesTo
<1>2. CASE Requests!Test(w)
  <2>1. request_mutex \notin RequestWorkers
    BY <1>2 DEF Requests!Test
  <2>2. request_pc' = [request_pc EXCEPT ![w] = IF ~is_empty(requests) \/ worker_stop_flag THEN "take" ELSE "wait"]
        /\ request_mutex' = w /\ UNCHANGED <<requests, request_taken, worker_stop_flag>>
    BY <1>2, SameRings DEF Requests!Test, Requests!GoesTo
  <2> QED BY <2>1, <2>2, PoolTests
<1>3. CASE Requests!Wait(w)
  <2>1. /\ request_pc[w] = "wait" /\ request_pc' = [request_pc EXCEPT ![w] = "waiting"]
        /\ UNCHANGED <<requests, request_taken, worker_stop_flag>>
    BY <1>3 DEF Requests!Wait, Requests!GoesTo
  <2> QED BY <2>1, PoolWaits
<1>4. CASE Requests!Take(w)
  <2>1. ~worker_stop_flag => ~is_empty(requests)
    BY <1>4 DEF Requests!Take, PoolOK
  <2>2. /\ request_pc[w] = "take" /\ UNCHANGED worker_stop_flag
        /\ IF worker_stop_flag
           THEN request_pc' = [request_pc EXCEPT ![w] = "ended"] /\ request_taken' = request_taken
                /\ requests' = requests
           ELSE request_pc' = [request_pc EXCEPT ![w] = "work"]
                /\ request_taken' = [request_taken EXCEPT ![w] = Front(requests)]
                /\ requests' = Popped(requests)
    BY <1>4, <2>1, SameRings DEF Requests!Take, Requests!GoesTo, Requests!Pop
  <2>3. PoolOK(RequestWorkers, requests', request_mutex', request_pc', request_taken', worker_stop_flag)
    BY <2>2, PoolTakes
  <2> QED BY <2>2, <2>3
<1> QED BY <1>1, <1>2, <1>3, <1>4

\* A worker comes back from its item, or from its sleep without a notification.
LEMMA WorkersComeBack ==
    ASSUME PoolsOK
    PROVE  /\ \A w \in Workers : WorkDone(w) \/ WakeSpuriously(w) =>
                 PoolOK(Workers, ring', mutex', pc', taken', worker_stop_flag')
           /\ \A w \in RequestWorkers : Requests!WorkDone(w) \/ Requests!WakeSpuriously(w) =>
                 PoolOK(RequestWorkers, requests', request_mutex', request_pc', request_taken', worker_stop_flag')
<1> USE ThreadsAssumption DEF PoolsOK
<1>1. ASSUME NEW w \in Workers, WorkDone(w) \/ WakeSpuriously(w)
      PROVE  PoolOK(Workers, ring', mutex', pc', taken', worker_stop_flag')
  <2>1. /\ pc[w] \in {"work", "waiting"}
        /\ DOMAIN pc' = Workers /\ pc'[w] \in {"lock", "woken"} /\ \A v \in Workers \ {w} : pc'[v] = pc[v]
        /\ DOMAIN taken' = Workers /\ \A v \in Workers \ {w} : taken'[v] = taken[v]
        /\ UNCHANGED <<ring, mutex, worker_stop_flag>>
    BY <1>1 DEF WorkDone, WakeSpuriously, Waiting, GoesTo, PoolOK
  <2> QED BY <2>1, PoolWakes
<1>2. ASSUME NEW w \in RequestWorkers, Requests!WorkDone(w) \/ Requests!WakeSpuriously(w)
      PROVE  PoolOK(RequestWorkers, requests', request_mutex', request_pc', request_taken', worker_stop_flag')
  <2>1. /\ request_pc[w] \in {"work", "waiting"}
        /\ DOMAIN request_pc' = RequestWorkers /\ request_pc'[w] \in {"lock", "woken"}
        /\ \A v \in RequestWorkers \ {w} : request_pc'[v] = request_pc[v]
        /\ DOMAIN request_taken' = RequestWorkers
        /\ \A v \in RequestWorkers \ {w} : request_taken'[v] = request_taken[v]
        /\ UNCHANGED <<requests, request_mutex, worker_stop_flag>>
    BY <1>2 DEF Requests!WorkDone, Requests!WakeSpuriously, Requests!Waiting, Requests!GoesTo, PoolOK
  <2> QED BY <2>1, PoolWakes
<1> QED BY <1>1, <1>2

LEMMA PoolsStep == Inv /\ [Next]_vars => PoolsOK'
<1> DEFINE After ==
             /\ PoolOK(Workers, ring', mutex', pc', taken', worker_stop_flag')
             /\ PoolOK(RequestWorkers, requests', request_mutex', request_pc', request_taken',
                       worker_stop_flag')
<1> SUFFICES ASSUME Inv, [Next]_vars
             PROVE  After
  BY PoolsAfter
<1> USE ThreadsAssumption
<1>0. PoolsOK /\ PushersOK
  BY DEF Inv
<1>1. ASSUME NEW x \in calls, ReceiveCall(x)
      PROVE  After
  <2>1. mutex' = mutex \/ mutex \notin Workers
    BY <1>1 DEF ReceiveCall
  <2>2. request_mutex' = request_mutex \/ request_mutex \notin RequestWorkers
    BY <1>1 DEF ReceiveCall
  <2> QED BY <1>0, <1>1, <2>1, <2>2, PoolStays DEF ReceiveCall, PoolsOK, signal
<1>2. CASE PushRequest
  <2>1. main_holds \in Items /\ Requests!PushItem(main_holds)
        /\ request_mutex \notin RequestWorkers /\ request_mutex' \notin RequestWorkers
        /\ UNCHANGED <<request_taken, worker_stop_flag, responsepool>>
    BY <1>0, <1>2 DEF PushRequest, PushersOK, signal
  <2> QED BY <1>0, <2>1, PushesRequest, PoolsUntouched
<1>3. CASE PushReceived
  <2>1. main_holds \in Items /\ PushItem(main_holds)
        /\ mutex \notin Workers /\ mutex' \notin Workers
        /\ UNCHANGED <<taken, worker_stop_flag, requestpool>>
    BY <1>0, <1>3 DEF PushReceived, PushersOK, signal
  <2> QED BY <1>0, <2>1, PushesResponse, PoolsUntouched
<1>4. CASE WriteCompleted
  BY <1>0, <1>4, PoolsUntouched DEF WriteCompleted, signal
<1>5. ASSUME NEW w \in RequestWorkers, WaitForRequest(w)
      PROVE  After
  <2>1. Requests!End(w) \/ Requests!Test(w) \/ Requests!Wait(w) \/ Requests!Take(w)
    BY <1>5 DEF WaitForRequest
  <2>2. UNCHANGED <<responsepool, worker_stop_flag>>
    BY <1>5 DEF WaitForRequest, Requests!End, Requests!Test, Requests!Wait, Requests!Take
  <2> QED BY <1>0, <2>1, <2>2, RequestWorkerWaits, PoolsUntouched
<1>6. ASSUME NEW w \in RequestWorkers, AddResponse(w)
      PROVE  After
  <2>1. Requests!WorkDone(w) /\ request_taken[w] \in Items /\ PushItem(request_taken[w])
        /\ mutex \notin Workers /\ mutex' \notin Workers /\ UNCHANGED <<taken, worker_stop_flag>>
    BY <1>0, <1>6 DEF AddResponse, Requests!WorkDone, PoolsOK, PoolOK
  <2> QED BY <1>0, <2>1, PushesResponse, WorkersComeBack
<1>7. ASSUME NEW w \in Workers, WaitForResponse(w)
      PROVE  After
  <2>1. End(w) \/ Test(w) \/ Wait(w) \/ Take(w)
    BY <1>7 DEF WaitForResponse
  <2>2. UNCHANGED <<requestpool, worker_stop_flag>>
    BY <1>7 DEF WaitForResponse, End, Test, Wait, Take
  <2> QED BY <1>0, <2>1, <2>2, ResponseWorkerWaits, PoolsUntouched
<1>8. ASSUME NEW w \in Workers, HandleResponse(w)
      PROVE  After
  <2>1. WorkDone(w) /\ UNCHANGED <<requestpool, worker_stop_flag>>
    BY <1>8 DEF HandleResponse, WorkDone
  <2> QED BY <1>0, <2>1, WorkersComeBack, PoolsUntouched
<1>9. CASE EndShm
  BY <1>0, <1>9, PoolsUntouched DEF EndShm, signal
<1>10. ASSUME NEW x \in shm_results, Poll(x)
       PROVE  After
  BY <1>0, <1>10, PoolsUntouched DEF Poll, signal
<1>11. CASE PushShmResult
  <2>1. shm_taken \in Items /\ PushItem(shm_taken) /\ mutex \notin Workers /\ mutex' \notin Workers
        /\ UNCHANGED <<taken, worker_stop_flag, requestpool>>
    BY <1>0, <1>11 DEF PushShmResult, PushersOK, signal
  <2> QED BY <1>0, <2>1, PushesResponse, PoolsUntouched
<1>12. CASE SetStopFlag
  BY <1>0, <1>12, PoolStays DEF SetStopFlag, PoolsOK, responsepool, requestpool
<1>13. CASE NotifyWorkers
  <2>1. /\ UNCHANGED <<ring, mutex, taken, requests, request_mutex, request_taken, worker_stop_flag>>
        /\ pc' = [w \in Workers |-> IF w \in Asleep(Workers, pc) THEN "woken" ELSE pc[w]]
        /\ request_pc' = [w \in RequestWorkers |->
                            IF w \in Asleep(RequestWorkers, request_pc) THEN "woken" ELSE request_pc[w]]
    BY <1>13 DEF NotifyWorkers, NotifyAll, Requests!NotifyAll, Waiting, Requests!Waiting, Asleep
  <2> QED BY <1>0, <2>1, PoolStays DEF PoolsOK
<1>14. CASE Join \/ CleanupSharedMemory
  BY <1>0, <1>14, PoolsUntouched DEF Join, CleanupSharedMemory
<1>15. CASE SpuriousWakeup
  <2>1. ASSUME NEW w \in Workers, WakeSpuriously(w), UNCHANGED requestpool
        PROVE  After
    <3>1. UNCHANGED worker_stop_flag
      BY <2>1 DEF WakeSpuriously
    <3> QED BY <1>0, <2>1, <3>1, WorkersComeBack, PoolsUntouched
  <2>2. ASSUME NEW w \in RequestWorkers, Requests!WakeSpuriously(w), UNCHANGED responsepool
        PROVE  After
    <3>1. UNCHANGED worker_stop_flag
      BY <2>2 DEF Requests!WakeSpuriously
    <3> QED BY <1>0, <2>2, <3>1, WorkersComeBack, PoolsUntouched
  <2> QED BY <1>15, <2>1, <2>2 DEF SpuriousWakeup
<1>16. CASE UNCHANGED vars
  BY <1>0, <1>16, PoolsUntouched DEF vars, signal
<1> QED BY <1>1, <1>2, <1>3, <1>4, <1>5, <1>6, <1>7, <1>8, <1>9, <1>10, <1>11, <1>12, <1>13, <1>14,
           <1>15, <1>16
        DEF Next, HandleRpcs, HandleSignal, ShmWorker, RequestWorker, ResponseWorker

\* Who pushes has the mutex, and something to push.
LEMMA PushersStep == Inv /\ [Next]_vars => PushersOK'
<1> SUFFICES ASSUME PoolsOK, PushersOK, [Next]_vars
             PROVE  PushersOK'
  BY DEF Inv
<1> USE ThreadsAssumption DEF PushersOK
<1>1. ASSUME NEW x \in calls, ReceiveCall(x)
      PROVE  PushersOK'
  BY <1>1 DEF ReceiveCall, shm
<1>2. CASE PushRequest \/ PushReceived
  BY <1>2 DEF PushRequest, PushReceived, shm
<1>3. CASE WriteCompleted
  BY <1>3 DEF WriteCompleted, requestpool, responsepool, main, shm
<1>4. ASSUME NEW w \in RequestWorkers, WaitForRequest(w)
      PROVE  PushersOK'
  <2>1. request_mutex = Main => UNCHANGED request_mutex
    BY <1>4 DEF WaitForRequest, Requests!End, Requests!Test, Requests!Wait, Requests!Take, PoolsOK, PoolOK
  <2> QED BY <1>4, <2>1 DEF WaitForRequest, responsepool, main, shm
<1>5. ASSUME NEW w \in RequestWorkers, AddResponse(w)
      PROVE  PushersOK'
  BY <1>5 DEF AddResponse, Requests!WorkDone, main, shm
<1>6. ASSUME NEW w \in Workers, WaitForResponse(w)
      PROVE  PushersOK'
  <2>1. mutex = Main => UNCHANGED mutex
    BY <1>6 DEF WaitForResponse, End, Test, Wait, Take, PoolsOK, PoolOK
  <2> QED BY <1>6, <2>1 DEF WaitForResponse, requestpool, main, shm
<1>7. ASSUME NEW w \in Workers, HandleResponse(w)
      PROVE  PushersOK'
  BY <1>7 DEF HandleResponse, WorkDone, requestpool, main, shm
<1>8. CASE EndShm \/ \E x \in shm_results : Poll(x)
  BY <1>8 DEF EndShm, Poll, requestpool, responsepool, main
<1>9. CASE PushShmResult
  BY <1>9 DEF PushShmResult, requestpool, main
<1>10. CASE SetStopFlag
  BY <1>10 DEF SetStopFlag, requestpool, responsepool, shm
<1>11. CASE NotifyWorkers
  BY <1>11 DEF NotifyWorkers, main, shm
<1>12. CASE Join \/ CleanupSharedMemory
  BY <1>12 DEF Join, CleanupSharedMemory, requestpool, responsepool, main, shm
<1>13. CASE SpuriousWakeup
  BY <1>13 DEF SpuriousWakeup, WakeSpuriously, Requests!WakeSpuriously, requestpool, responsepool, main, shm
<1>14. CASE UNCHANGED vars
  BY <1>14 DEF vars, requestpool, responsepool, main, shm
<1> QED BY <1>1, <1>2, <1>3, <1>4, <1>5, <1>6, <1>7, <1>8, <1>9, <1>10, <1>11, <1>12, <1>13, <1>14
        DEF Next, HandleRpcs, HandleSignal, ShmWorker, RequestWorker, ResponseWorker

\* Only a push terminates the process: a worker that takes has found an item,
\* under the mutex it still holds.
LEMMA TerminationStep == Inv /\ [Next]_vars => TerminatesOnlyWhenFull'
<1> SUFFICES ASSUME PoolsOK, TerminatesOnlyWhenFull, [Next]_vars
             PROVE  TerminatesOnlyWhenFull'
  BY DEF Inv
<1>1. CASE PushRequest
  BY <1>1, SameRings DEF PushRequest, Requests!PushItem, Requests!Push, TerminatesOnlyWhenFull, is_full
<1>2. CASE PushReceived
  BY <1>2 DEF PushReceived, PushItem, Push, TerminatesOnlyWhenFull, is_full
<1>3. ASSUME NEW w \in RequestWorkers, AddResponse(w)
      PROVE  TerminatesOnlyWhenFull'
  BY <1>3 DEF AddResponse, PushItem, Push, TerminatesOnlyWhenFull, is_full
<1>4. CASE PushShmResult
  BY <1>4 DEF PushShmResult, PushItem, Push, TerminatesOnlyWhenFull, is_full
<1>5. ASSUME NEW w \in RequestWorkers, WaitForRequest(w)
      PROVE  ~terminated'
  BY <1>5 DEF WaitForRequest, Alive, Requests!Take, PoolsOK, PoolOK
<1>6. ASSUME NEW w \in Workers, WaitForResponse(w)
      PROVE  ~terminated'
  BY <1>6 DEF WaitForResponse, Alive, Take, PoolsOK, PoolOK
<1>7. CASE (\E x \in calls : ReceiveCall(x)) \/ WriteCompleted \/ SetStopFlag \/ HandleSignal
  BY <1>7 DEF ReceiveCall, WriteCompleted, SetStopFlag, HandleSignal, NotifyWorkers, Join, CleanupSharedMemory,
              MainRuns, Alive, TerminatesOnlyWhenFull
<1>8. CASE EndShm \/ (\E x \in shm_results : Poll(x)) \/ SpuriousWakeup \/ \E w \in Workers : HandleResponse(w)
  BY <1>8 DEF EndShm, Poll, SpuriousWakeup, HandleResponse, Alive, TerminatesOnlyWhenFull
<1>9. CASE UNCHANGED vars
  BY <1>9 DEF vars, requestpool, responsepool, TerminatesOnlyWhenFull, is_full
<1> QED BY <1>1, <1>2, <1>3, <1>4, <1>5, <1>6, <1>7, <1>8, <1>9
        DEF Next, HandleRpcs, ShmWorker, RequestWorker, ResponseWorker, TerminatesOnlyWhenFull

\* A thread that has ended does nothing any more.
LEMMA StopStep == Inv /\ [Next]_vars => StopOK'
<1> SUFFICES ASSUME StopOK, [Next]_vars
             PROVE  StopOK'
  BY DEF Inv
<1> USE DEF StopOK, AllEnded
<1>1. CASE HandleRpcs \/ SetStopFlag
  BY <1>1 DEF HandleRpcs, ReceiveCall, PushRequest, PushReceived, WriteCompleted, SetStopFlag, MainRuns, signal
<1>2. CASE NotifyWorkers
  BY <1>2 DEF NotifyWorkers
<1>3. CASE Join \/ CleanupSharedMemory
  BY <1>3 DEF Join, CleanupSharedMemory, requestpool, responsepool, shm
<1>4. CASE ShmWorker
  BY <1>4 DEF ShmWorker, EndShm, Poll, PushShmResult, signal, Alive
<1>5. ASSUME NEW w \in RequestWorkers, RequestWorker(w)
      PROVE  /\ UNCHANGED <<handler, shared_memory_manager>>
             /\ handler \notin {"cleanup", "exit"}
  BY <1>5 DEF RequestWorker, WaitForRequest, AddResponse, Alive, Requests!End, Requests!Test, Requests!Wait,
              Requests!Take, Requests!WorkDone
<1>6. ASSUME NEW w \in Workers, ResponseWorker(w)
      PROVE  /\ UNCHANGED <<handler, shared_memory_manager>>
             /\ handler \notin {"cleanup", "exit"}
  BY <1>6 DEF ResponseWorker, WaitForResponse, HandleResponse, Alive, End, Test, Wait, Take, WorkDone
<1>7. CASE SpuriousWakeup
  BY <1>7 DEF SpuriousWakeup, WakeSpuriously, Requests!WakeSpuriously, Waiting, Requests!Waiting, shm, Alive
<1>8. CASE UNCHANGED vars
  BY <1>8 DEF vars, requestpool, responsepool, shm, signal
<1> QED BY <1>1, <1>2, <1>3, <1>4, <1>5, <1>6, <1>7, <1>8 DEF Next, HandleSignal

LEMMA InvInit == Init => Inv
<1> SUFFICES ASSUME Init
             PROVE  Inv
  OBVIOUS
<1> USE ThreadsAssumption, EmptyRingConsistent DEF Init, PoolInit, Requests!PoolInit, RingInit, Requests!RingInit
<1>1. Requests!EmptyRing = EmptyRing
  BY DEF EmptyRing, Requests!EmptyRing, Slots, Requests!Slots
<1>2. PoolsOK
  BY <1>1 DEF PoolsOK, PoolOK, Asleep
<1>3. PushersOK /\ TerminatesOnlyWhenFull /\ StopOK
  BY DEF PushersOK, TerminatesOnlyWhenFull, StopOK
<1> QED BY <1>2, <1>3 DEF Inv

LEMMA Invariance == Spec => []Inv
<1>1. Inv /\ [Next]_vars => Inv'
  BY PoolsStep, PushersStep, TerminationStep, StopStep DEF Inv
<1> QED BY <1>1, InvInit, PTL DEF Spec

-----------------------------------------------------------------------------
(* The properties *)

\* In both pools one notify_one per push is enough, although pops notify nobody
\* and a busy worker may take what a sleeping one was woken for: until the flag
\* is set, nobody sleeps beside an item that no other worker comes for.
THEOREM NotificationsAreEnough == Spec => []NobodySleepsBesideWorkAnywhere
<1>1. Inv => NobodySleepsBesideWorkAnywhere
  <2>1. /\ Waiting = Asleep(Workers, pc) /\ OnTheirWay = Awake(Workers, pc)
        /\ Requests!Waiting = Asleep(RequestWorkers, request_pc)
        /\ Requests!OnTheirWay = Awake(RequestWorkers, request_pc)
    BY DEF Waiting, Requests!Waiting, OnTheirWay, Requests!OnTheirWay, Asleep, Awake
  <2>2. Inv => /\ ~worker_stop_flag /\ Asleep(Workers, pc) # {} =>
                     ring.size <= Cardinality(Awake(Workers, pc))
               /\ ~worker_stop_flag /\ Asleep(RequestWorkers, request_pc) # {} =>
                     requests.size <= Cardinality(Awake(RequestWorkers, request_pc))
    BY DEF Inv, PoolsOK, PoolOK
  <2>3. Inv => NobodySleepsBesideWork
    BY <2>1, <2>2 DEF NobodySleepsBesideWork
  <2>4. Inv => Requests!NobodySleepsBesideWork
    <3>1. \A S : Requests!Cardinality(S) = Cardinality(S)
      BY DEF Cardinality, Requests!Cardinality
    <3> QED BY <2>1, <2>2, <3>1 DEF Requests!NobodySleepsBesideWork
  <2> QED BY <2>3, <2>4 DEF NobodySleepsBesideWorkAnywhere
<1> QED BY <1>1, Invariance, PTL

\* wait_for_new_query_request and wait_for_new_query_response never pop an empty
\* ring, whatever woke them: an uncaught exception comes from a push.
THEOREM PopsNeverThrow == Spec => []TerminatesOnlyWhenFull
<1>1. Inv => TerminatesOnlyWhenFull
  BY DEF Inv
<1> QED BY <1>1, Invariance, PTL

\* cleanup_shared_memory runs when every thread but the main one has ended.
THEOREM CleanupComesLast == Spec => []NoUseAfterCleanup
<1>1. Inv => NoUseAfterCleanup
  BY DEF Inv, StopOK, AllEnded, NoUseAfterCleanup
<1> QED BY <1>1, Invariance, PTL

\* Whatever the threads do, the ring pendingResponses is pushed and popped, one
\* call after the other, and what is pushed is an item.
LEMMA RingSteps == Spec => RingSpec
<1>1. Init => RingInit
  BY DEF Init, PoolInit
<1>2. Inv /\ [Next]_vars => [RingNext]_ringvars
  <2> SUFFICES ASSUME PoolsOK, PushersOK, [Next]_vars
               PROVE  [RingNext]_ringvars
    BY DEF Inv
  <2> USE ThreadsAssumption DEF RingNext, ringvars
  <2>1. CASE HandleRpcs
    BY <2>1 DEF HandleRpcs, ReceiveCall, PushRequest, PushReceived, WriteCompleted, PushItem, responsepool
  <2>2. CASE ShmWorker
    BY <2>2 DEF ShmWorker, EndShm, Poll, PushShmResult, PushItem, responsepool, PushersOK
  <2>3. ASSUME NEW w \in RequestWorkers, RequestWorker(w)
        PROVE  [RingNext]_ringvars
    <3>1. request_pc[w] = "work" => request_taken[w] \in Items
      BY DEF PoolsOK, PoolOK
    <3> QED BY <2>3, <3>1 DEF RequestWorker, WaitForRequest, AddResponse, Requests!WorkDone, PushItem, responsepool
  <2>4. ASSUME NEW w \in Workers, ResponseWorker(w)
        PROVE  [RingNext]_ringvars
    BY <2>4 DEF ResponseWorker, WaitForResponse, HandleResponse, End, Test, Wait, Take, WorkDone
  <2>5. CASE SetStopFlag \/ HandleSignal \/ SpuriousWakeup \/ UNCHANGED vars
    BY <2>5 DEF SetStopFlag, HandleSignal, NotifyWorkers, Join, CleanupSharedMemory, SpuriousWakeup,
                WakeSpuriously, vars, responsepool
  <2> QED BY <2>1, <2>2, <2>3, <2>4, <2>5 DEF Next
<1> QED BY <1>1, <1>2, Invariance, PTL DEF Spec, RingSpec

\* What the threads do with pendingResponses is what they may do with a queue
\* of at most "capacity" items: nothing is lost, duplicated or overtaken.
THEOREM ThreadsShareAQueue == Spec => ImplementsQueue
BY RingSteps, RingImplementsQueue, PTL

\* The lemmas on the ring hold of the ring the threads share: it stays
\* consistent, its iterator ends and sees every item, its window slides.
THEOREM RingIsSound == Spec => [](RingConsistent /\ IteratorVisitsTheItems /\ WindowSlides)
BY RingSteps, RingStaysConsistent, IteratorIsComplete, WindowAlwaysSlides, PTL
=============================================================================
