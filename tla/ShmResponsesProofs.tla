------------------------- MODULE ShmResponsesProofs -------------------------
(***************************************************************************)
(* The mutex, for any number of ranks and of threads: type correctness     *)
(* always, and with one thread per rank mutual exclusion, service in       *)
(* ticket order, first come first served, and the implementation of        *)
(* RankLock.                                                               *)
(*                                                                         *)
(* The results it guards, for any number of processes, blocks, results and *)
(* attempts, as long as every process locks from one thread and no result  *)
(* is exactly as long as a block: the free list and the holders share the  *)
(* blocks out between them, and what is copied out is what was copied in.  *)
(* The mutex is the bakery's, by its theorem of mutual exclusion.          *)
(***************************************************************************)
EXTENDS ShmResponses, MCBakeryMutex, FiniteSetTheorems, TLAPS

(* Induction over a range of numbers, without a predicate: a set of numbers *)
(* has a least element, because the strict subset order of 0 .. n is well   *)
(* founded.                                                                 *)
LEMMA LeastElement ==
    ASSUME NEW n \in Nat, NEW D \in SUBSET (0 .. n), D # {}
    PROVE  \E d \in D : \A e \in D : d <= e
<1> DEFINE Below(d) == {i \in 0 .. n : i < d}
           T == {Below(d) : d \in D}
           R == StrictSubsetOrdering(0 .. n)
<1>1. IsFiniteSet(0 .. n)
  BY FS_Interval
<1>2. IsWellFoundedOn(R, SUBSET (0 .. n))
  BY <1>1, FS_StrictSubsetOrderingWellFounded, FS_FiniteSubsetsOfFinite
<1>3. T \subseteq SUBSET (0 .. n) /\ T # {}
  OBVIOUS
<1>4. PICK x \in T : \A y \in T : ~(<<y, x>> \in R)
  <2> HIDE DEF T, R
  <2> QED BY <1>2, <1>3, WFMin
<1>5. PICK d \in D : x = Below(d)
  OBVIOUS
<1>6. ASSUME NEW e \in D, e < d PROVE FALSE
  <2>1. Below(e) \in T /\ Below(e) \subseteq Below(d) /\ e \in Below(d) \ Below(e)
    BY <1>6
  <2>2. <<Below(e), x>> \in R
    <3>1. Below(e) \in SUBSET (0 .. n) /\ x \in SUBSET (0 .. n) /\ Below(e) \subseteq x /\ Below(e) # x
      BY <1>5, <2>1
    <3> HIDE DEF Below
    <3> QED BY <3>1 DEF StrictSubsetOrdering
  <2> QED BY <1>4, <2>1, <2>2
<1> QED BY <1>6

-----------------------------------------------------------------------------
(* The mutex *)

TypeInv == TypeOK /\ LoopIndexOK

(* Type correctness needs no hypothesis on RankOf. *)
LEMMA TypeInvInit == Init => TypeInv
  BY BakeryAssumption DEF Init, TypeInv, TypeOK, LoopIndexOK, Ranks

LEMMA TypeInvStep == TypeInv /\ [Next]_bakeryvars => TypeInv'
<1> SUFFICES ASSUME TypeInv, [Next]_bakeryvars
             PROVE  TypeInv'
  OBVIOUS
<1> USE DEF TypeInv, TypeOK, LoopIndexOK
<1>0. /\ MAX_NUM_PROCESSES \in Nat
      /\ Ranks = 0 .. MAX_NUM_PROCESSES - 1
      /\ \A t \in Threads : RankOf[t] \in Ranks
  BY BakeryAssumption DEF Ranks
<1>1. ASSUME NEW t \in Threads, SetFlag(t) PROVE TypeInv'
  BY <1>0, <1>1 DEF SetFlag
<1>2. ASSUME NEW t \in Threads, ReadTicket(t) PROVE TypeInv'
  <2>1. rank' \in [Threads -> 0 .. MAX_NUM_PROCESSES]
    BY <1>0, <1>2 DEF ReadTicket
  <2> QED
    BY <1>2, <2>1 DEF ReadTicket, shared
<1>3. ASSUME NEW t \in Threads, WriteTicket(t) PROVE TypeInv'
  <2>1. process_tickets' \in [Ranks -> Nat] /\ my_ticket' \in [Threads -> Nat]
    BY <1>0, <1>3 DEF WriteTicket
  <2>2. rank' \in [Threads -> 0 .. MAX_NUM_PROCESSES]
    BY <1>0, <1>3 DEF WriteTicket
  <2> QED
    BY <1>3, <2>1, <2>2 DEF WriteTicket
<1>4. ASSUME NEW t \in Threads, SkipSelf(t) PROVE TypeInv'
  <2>1. rank' \in [Threads -> 0 .. MAX_NUM_PROCESSES]
    BY <1>0, <1>4 DEF SkipSelf
  <2> QED
    BY <1>4, <2>1 DEF SkipSelf, shared
<1>5. ASSUME NEW t \in Threads, CheckFlag(t) PROVE TypeInv'
  <2>1. CASE process_flags[rank[t]]
    BY <1>5, <2>1 DEF CheckFlag, shared
  <2>2. CASE ~process_flags[rank[t]]
    <3>1. rank' \in [Threads -> 0 .. MAX_NUM_PROCESSES]
      BY <1>0, <1>5, <2>2 DEF CheckFlag, PassOver
    <3> QED
      BY <1>5, <2>2, <3>1 DEF CheckFlag, PassOver, shared
  <2> QED
    BY <2>1, <2>2
<1>6. ASSUME NEW t \in Threads, CompareTicket(t) PROVE TypeInv'
  <2>1. CASE UNCHANGED rank
    BY <1>6, <2>1 DEF CompareTicket, PassOver, shared
  <2>2. CASE PassOver(t)
    <3>1. rank' \in [Threads -> 0 .. MAX_NUM_PROCESSES]
      BY <1>0, <1>6, <2>2 DEF CompareTicket, PassOver
    <3> QED
      BY <2>2, <3>1 DEF PassOver, shared
  <2> QED
    BY <1>6, <2>1, <2>2 DEF CompareTicket
<1>7. ASSUME NEW t \in Threads, Enter(t) PROVE TypeInv'
  BY <1>7 DEF Enter, shared
<1>8. ASSUME NEW t \in Threads, Unlock(t) PROVE TypeInv'
  BY <1>0, <1>8 DEF Unlock
<1>9. CASE UNCHANGED bakeryvars
  BY <1>9 DEF bakeryvars
<1> QED
  BY <1>1, <1>2, <1>3, <1>4, <1>5, <1>6, <1>7, <1>8, <1>9 DEF Next, LockStep

(* The arrays and every thread's locals keep their types, however many       *)
(* threads share a rank.                                                     *)
THEOREM TypeCorrect == Spec => []TypeOK
<1>1. Spec => []TypeInv
  BY TypeInvInit, TypeInvStep, PTL DEF Spec
<1>2. TypeInv => TypeOK
  BY DEF TypeInv
<1> QED
  BY <1>1, <1>2, PTL

-----------------------------------------------------------------------------
(* One thread per rank. *)

LEMMA IInvInit == OneThreadPerRank /\ Init => IInv
<1> SUFFICES ASSUME OneThreadPerRank, Init PROVE IInv
  OBVIOUS
<1>1. TypeOK /\ LoopIndexOK
  BY TypeInvInit DEF TypeInv
<1>2. \A t \in Threads : OwnEntry(t)
  BY BakeryAssumption DEF OwnEntry, Init, HasTicket
<1>3. \A t, u \in Threads : Behind(t, u)
  BY DEF Behind, Init, Passed
<1> QED
  BY <1>1, <1>2, <1>3 DEF IInv

\* What the cases of the step lemmas take from the constants.
RankFacts ==
    /\ MAX_NUM_PROCESSES \in Nat
    /\ Ranks = 0 .. MAX_NUM_PROCESSES - 1
    /\ \A t \in Threads : RankOf[t] \in Ranks
    /\ \A t, u \in Threads : RankOf[t] = RankOf[u] => t = u

LEMMA RankFactsHold == OneThreadPerRank => RankFacts
  BY BakeryAssumption DEF OneThreadPerRank, RankFacts, Ranks

(* A rank's flag and ticket are written by its own thread alone.             *)
LEMMA OwnEntryStep ==
    ASSUME OneThreadPerRank, IInv, [Next]_bakeryvars, NEW u \in Threads
    PROVE  OwnEntry(u)'
<1>0. RankFacts /\ OwnEntry(u)
  BY RankFactsHold DEF IInv
<1> USE <1>0 DEF RankFacts, OwnEntry, HasTicket
<1>t. TypeOK
  BY DEF IInv
<1>1. ASSUME NEW t \in Threads, SetFlag(t) PROVE OwnEntry(u)'
  BY <1>1, <1>t DEF SetFlag, TypeOK
<1>2. ASSUME NEW t \in Threads, ReadTicket(t) PROVE OwnEntry(u)'
  <2>1. process_flags' = process_flags /\ process_tickets' = process_tickets
    BY <1>2 DEF ReadTicket, shared
  <2>2. CASE t # u
    BY <1>2, <1>t, <2>1, <2>2 DEF ReadTicket, TypeOK
  <2>3. CASE t = u
    <3>1. /\ pc' = pc /\ pc[u] = "scan"
          /\ rank'[u] = rank[u] + 1
          /\ largest_ticket'[u] >= largest_ticket[u]
          /\ largest_ticket'[u] >= process_tickets[rank[u]]
      BY <1>2, <1>t, <2>3 DEF ReadTicket, TypeOK
    <3>2. rank'[u] > RankOf[u] => rank[u] > RankOf[u] \/ rank[u] = RankOf[u]
      <4>1. rank[u] \in Nat /\ RankOf[u] \in Nat
        BY <1>t DEF TypeOK
      <4> QED BY <3>1, <4>1
    <3>3. /\ process_tickets[RankOf[u]] \in Nat
          /\ largest_ticket[u] \in Nat /\ largest_ticket'[u] \in Nat
      BY <1>2, <1>t, <2>3 DEF ReadTicket, TypeOK
    <3> QED
      BY <2>1, <3>1, <3>2, <3>3
  <2> QED
    BY <2>2, <2>3
<1>3. ASSUME NEW t \in Threads, WriteTicket(t) PROVE OwnEntry(u)'
  BY <1>3, <1>t DEF WriteTicket, TypeOK
<1>4. ASSUME NEW t \in Threads, SkipSelf(t) PROVE OwnEntry(u)'
  BY <1>4, <1>t DEF SkipSelf, shared, TypeOK
<1>5. ASSUME NEW t \in Threads, CheckFlag(t) PROVE OwnEntry(u)'
  BY <1>5, <1>t DEF CheckFlag, PassOver, shared, TypeOK
<1>6. ASSUME NEW t \in Threads, CompareTicket(t) PROVE OwnEntry(u)'
  BY <1>6, <1>t DEF CompareTicket, PassOver, shared, TypeOK
<1>7. ASSUME NEW t \in Threads, Enter(t) PROVE OwnEntry(u)'
  BY <1>7, <1>t DEF Enter, shared, TypeOK
<1>8. ASSUME NEW t \in Threads, Unlock(t) PROVE OwnEntry(u)'
  BY <1>8, <1>t DEF Unlock, TypeOK
<1>9. CASE UNCHANGED bakeryvars
  BY <1>9 DEF bakeryvars
<1> QED
  BY <1>1, <1>2, <1>3, <1>4, <1>5, <1>6, <1>7, <1>8, <1>9 DEF Next, LockStep

(* What t knows of the threads it has passed survives every step: of t, of   *)
(* the thread passed, and of the others.                                     *)
LEMMA BehindStep ==
    ASSUME OneThreadPerRank, IInv, [Next]_bakeryvars,
           NEW t \in Threads, NEW u \in Threads
    PROVE  Behind(t, u)'
<1>0. /\ RankFacts /\ TypeOK /\ LoopIndexOK /\ Behind(t, u)
      /\ OwnEntry(t) /\ OwnEntry(u)
  BY RankFactsHold DEF IInv
<1>a. /\ RankOf[t] \in Ranks /\ RankOf[u] \in Ranks
      /\ RankOf[t] \in Nat /\ RankOf[u] \in Nat
      /\ RankOf[t] < MAX_NUM_PROCESSES /\ RankOf[u] < MAX_NUM_PROCESSES
  BY <1>0 DEF RankFacts
<1> SUFFICES ASSUME t # u, Passed(t, RankOf[u])'
             PROVE  /\ HasTicket(u)' => Precedes(t, u)'
                    /\ pc'[u] = "scan" =>
                          \/ rank'[u] <= RankOf[t]
                          \/ largest_ticket'[u] >= process_tickets'[RankOf[t]]
                          \/ Precedes(t, u)' /\ rank'[u] <= RankOf[u]
  BY DEF Behind
<1>b. RankOf[t] # RankOf[u]
  BY <1>0 DEF RankFacts
<1>c. /\ process_tickets[RankOf[t]] \in Nat /\ process_tickets[RankOf[u]] \in Nat
      /\ largest_ticket[u] \in Nat /\ my_ticket[u] \in Nat /\ my_ticket[t] \in Nat
      /\ rank[t] \in Nat /\ rank[u] \in Nat
      /\ rank[u] <= MAX_NUM_PROCESSES /\ rank[t] <= MAX_NUM_PROCESSES
      /\ MAX_NUM_PROCESSES \in Nat
  BY <1>0, <1>a DEF TypeOK, RankFacts
\* A thread s # t, u disturbs none of the state that Behind(t, u) mentions.
<1>1. ASSUME NEW s \in Threads, SetFlag(s) PROVE Behind(t, u)'
  <2>1. s # t
    BY <1>0, <1>1 DEF SetFlag, TypeOK, Passed
  <2>2. CASE s = u
    BY <1>0, <1>1, <1>a, <2>1, <2>2 DEF SetFlag, TypeOK, Behind, HasTicket
  <2>3. CASE s # u
    BY <1>0, <1>1, <2>1, <2>3 DEF SetFlag, TypeOK, Behind, HasTicket, Passed, Precedes
  <2> QED
    BY <2>2, <2>3
<1>2. ASSUME NEW s \in Threads, ReadTicket(s) PROVE Behind(t, u)'
  <2>1. /\ pc' = pc /\ process_tickets' = process_tickets
        /\ pc[s] = "scan" /\ s # t
        /\ rank'[t] = rank[t]
    BY <1>0, <1>2 DEF ReadTicket, shared, TypeOK, Passed
  <2>2. Passed(t, RankOf[u])
    BY <2>1 DEF Passed
  <2>3. CASE s = u
    <3>1. /\ rank'[u] = rank[u] + 1
          /\ largest_ticket'[u] \in Nat
          /\ largest_ticket'[u] >= largest_ticket[u]
          /\ largest_ticket'[u] >= process_tickets[rank[u]]
      BY <1>0, <1>2, <2>3 DEF ReadTicket, TypeOK
    <3>2. ~HasTicket(u)'
      BY <2>1, <2>3 DEF HasTicket
    <3>3. CASE rank[u] <= RankOf[t]
      <4>1. CASE rank[u] = RankOf[t]
        BY <1>c, <2>1, <3>1, <3>2, <4>1 DEF Behind
      <4>2. CASE rank[u] # RankOf[t]
        BY <3>1, <3>2, <3>3, <4>2, <1>a, <1>c DEF Behind
      <4> QED
        BY <4>1, <4>2
    <3>4. CASE largest_ticket[u] >= process_tickets[RankOf[t]]
      BY <1>c, <2>1, <3>1, <3>2, <3>4 DEF Behind
    <3>5. CASE Precedes(t, u) /\ rank[u] <= RankOf[u]
      <4>1. CASE rank[u] = RankOf[u]
        <5>1. process_tickets[RankOf[u]] >= process_tickets[RankOf[t]]
          BY <1>c, <3>5 DEF Precedes, ServedBefore
        <5> QED
          BY <1>c, <2>1, <3>1, <3>2, <4>1, <5>1 DEF Behind
      <4>2. CASE rank[u] # RankOf[u]
        <5>1. rank'[u] <= RankOf[u] /\ Precedes(t, u)'
          BY <1>a, <1>c, <2>1, <3>1, <3>5, <4>2 DEF Precedes
        <5> QED
          BY <3>2, <5>1 DEF Behind
      <4> QED
        BY <4>1, <4>2
    <3> QED
      BY <1>0, <2>1, <2>2, <2>3, <3>3, <3>4, <3>5 DEF Behind
  <2>4. CASE s # u
    BY <1>0, <1>2, <2>1, <2>2, <2>4 DEF ReadTicket, TypeOK, Behind, HasTicket, Precedes
  <2> QED
    BY <2>3, <2>4
\* A new ticket exceeds every ticket its thread has found.
<1>3. ASSUME NEW s \in Threads, WriteTicket(s) PROVE Behind(t, u)'
  <2>1. s # t
    BY <1>0, <1>3, <1>a DEF WriteTicket, TypeOK, Passed
  <2>2. CASE s = u
    <3>1. /\ pc[u] = "scan" /\ rank[u] = MAX_NUM_PROCESSES
          /\ process_tickets'[RankOf[u]] = largest_ticket[u] + 1
          /\ process_tickets'[RankOf[t]] = process_tickets[RankOf[t]]
          /\ pc'[u] = "check"
      BY <1>0, <1>3, <1>a, <1>b, <2>2 DEF WriteTicket, TypeOK
    <3>2. Passed(t, RankOf[u])
      BY <1>0, <1>3, <2>1 DEF WriteTicket, TypeOK, Passed
    <3>3. largest_ticket[u] >= process_tickets[RankOf[t]]
      BY <1>0, <1>a, <1>c, <3>1, <3>2 DEF Behind
    <3>4. Precedes(t, u)'
      BY <1>c, <3>1, <3>3 DEF Precedes, ServedBefore
    <3> QED
      BY <3>1, <3>4 DEF Behind
  <2>3. CASE s # u
    <3>1. RankOf[s] # RankOf[t] /\ RankOf[s] # RankOf[u]
      BY <1>0, <2>1, <2>3 DEF RankFacts
    <3> QED
      BY <1>0, <1>3, <2>1, <2>3, <3>1 DEF WriteTicket, TypeOK, Behind, HasTicket, Passed, Precedes
  <2> QED
    BY <2>2, <2>3
<1>4. ASSUME NEW s \in Threads, SkipSelf(s) PROVE Behind(t, u)'
  <2>1. Passed(t, RankOf[u])
    BY <1>0, <1>4, <1>a, <1>b, <1>c DEF SkipSelf, TypeOK, Passed
  <2> QED
    BY <1>0, <1>4, <2>1 DEF SkipSelf, shared, TypeOK, Behind, HasTicket, Precedes
\* Passing over a rank: its thread is idle, or its ticket comes after.
<1>5. ASSUME NEW s \in Threads, PassOver(s), pc[s] \in {"check", "spin", "compare"},
             s = t /\ rank[t] = RankOf[u] =>
                 pc[u] = "idle" \/ Precedes(t, u)
      PROVE  Behind(t, u)'
  <2>1. /\ process_tickets' = process_tickets
        /\ largest_ticket' = largest_ticket
        /\ HasTicket(u)' <=> HasTicket(u)
        /\ pc[u] = "scan" <=> pc'[u] = "scan"
        /\ pc[u] = "scan" => rank'[u] = rank[u]
    BY <1>0, <1>5 DEF PassOver, shared, TypeOK, HasTicket
  <2>2. CASE Passed(t, RankOf[u])
    BY <1>0, <2>1, <2>2 DEF Behind, Precedes
  <2>3. CASE ~Passed(t, RankOf[u])
    <3>1. s = t /\ rank[t] = RankOf[u]
      BY <1>0, <1>5, <1>a, <1>c, <2>3 DEF PassOver, TypeOK, Passed
    <3>2. CASE pc[u] = "idle"
      BY <2>1, <3>2 DEF Behind, HasTicket
    <3>3. CASE Precedes(t, u)
      <4>1. pc[u] = "scan" /\ rank[u] > RankOf[u] =>
               largest_ticket[u] >= process_tickets[RankOf[t]]
        BY <1>0, <1>c, <3>3 DEF Precedes, ServedBefore, OwnEntry
      <4> QED
        BY <1>a, <1>c, <2>1, <3>3, <4>1 DEF Behind, Precedes
    <3> QED
      BY <1>5, <3>1, <3>2, <3>3
  <2> QED
    BY <2>2, <2>3
\* A look that leaves the loop index alone teaches nothing.
<1>6. ASSUME NEW s \in Threads, UNCHANGED <<shared, rank, largest_ticket, my_ticket>>,
             pc[s] \in {"check", "spin", "compare"},
             pc' = [pc EXCEPT ![s] = pc'[s]], pc'[s] \in {"spin", "compare"}
      PROVE  Behind(t, u)'
  BY <1>0, <1>6 DEF shared, TypeOK, Behind, HasTicket, Passed, Precedes
<1>7. ASSUME NEW s \in Threads, CheckFlag(s) PROVE Behind(t, u)'
  <2>1. CASE process_flags[rank[s]]
    <3>1. pc'[s] \in {"spin", "compare"} /\ pc' = [pc EXCEPT ![s] = pc'[s]]
      BY <1>0, <1>7, <2>1 DEF CheckFlag, TypeOK
    <3> QED
      BY <1>6, <1>7, <2>1, <3>1 DEF CheckFlag
  <2>2. CASE ~process_flags[rank[s]]
    <3>1. s = t /\ rank[t] = RankOf[u] => pc[u] = "idle"
      BY <1>0, <2>2 DEF OwnEntry
    <3> QED
      BY <1>5, <1>7, <2>2, <3>1 DEF CheckFlag
  <2> QED
    BY <2>1, <2>2
<1>8. ASSUME NEW s \in Threads, CompareTicket(s) PROVE Behind(t, u)'
  <2> DEFINE After == ServedBefore(my_ticket[s], RankOf[s], process_tickets[rank[s]], rank[s])
  <2>1. CASE ~After
    <3>1. pc'[s] \in {"spin", "compare"} /\ pc' = [pc EXCEPT ![s] = pc'[s]]
      BY <1>0, <1>8, <2>1 DEF CompareTicket, TypeOK
    <3> QED
      BY <1>6, <1>8, <2>1, <3>1 DEF CompareTicket
  <2>2. CASE After
    <3>1. s = t /\ rank[t] = RankOf[u] => Precedes(t, u)
      BY <1>0, <1>8, <2>2 DEF OwnEntry, HasTicket, CompareTicket, Precedes
    <3> QED
      BY <1>5, <1>8, <2>2, <3>1 DEF CompareTicket
  <2> QED
    BY <2>1, <2>2
<1>9. ASSUME NEW s \in Threads, Enter(s) PROVE Behind(t, u)'
  <2>1. Passed(t, RankOf[u])
    BY <1>0, <1>9, <1>a DEF Enter, TypeOK, Passed
  <2> QED
    BY <1>0, <1>9, <2>1 DEF Enter, shared, TypeOK, Behind, HasTicket, Precedes
<1>10. ASSUME NEW s \in Threads, Unlock(s) PROVE Behind(t, u)'
  BY <1>0, <1>10 DEF Unlock, TypeOK, Behind, HasTicket, Passed, Precedes
<1>11. CASE UNCHANGED bakeryvars
  BY <1>0, <1>11 DEF bakeryvars, Behind, HasTicket, Passed, Precedes
<1> QED
  BY <1>1, <1>2, <1>3, <1>4, <1>7, <1>8, <1>9, <1>10, <1>11 DEF Next, LockStep, Behind

LEMMA IInvStep ==
    OneThreadPerRank /\ IInv /\ [Next]_bakeryvars => IInv'
<1> SUFFICES ASSUME OneThreadPerRank, IInv, [Next]_bakeryvars PROVE IInv'
  OBVIOUS
<1>1. TypeOK' /\ LoopIndexOK'
  BY TypeInvStep DEF TypeInv, IInv
<1>2. \A u \in Threads : OwnEntry(u)'
  BY OwnEntryStep
<1>3. \A t, u \in Threads : Behind(t, u)'
  BY BehindStep
<1> QED
  BY <1>1, <1>2, <1>3 DEF IInv

(* The inductive invariant holds for every number of ranks and threads, as   *)
(* long as no two threads lock under one rank.                               *)
THEOREM Invariance == OneThreadPerRank => (Spec => []IInv)
<1> SUFFICES ASSUME OneThreadPerRank PROVE Spec => []IInv
  OBVIOUS
<1>1. Init => IInv
  BY IInvInit
<1>2. IInv /\ [Next]_bakeryvars => IInv'
  BY IInvStep
<1> QED
  BY <1>1, <1>2, PTL DEF Spec

LEMMA IInvOrder == OneThreadPerRank /\ IInv => ServedInTicketOrder
<1> SUFFICES ASSUME OneThreadPerRank, IInv,
                    NEW t \in Threads, NEW u \in Threads,
                    pc[t] = "cs", HasTicket(u), t # u
             PROVE  Precedes(t, u)
  BY DEF ServedInTicketOrder
<1>1. Behind(t, u)
  BY DEF IInv
<1> QED
  BY <1>1 DEF Behind, Passed

LEMMA IInvExclusion == OneThreadPerRank /\ IInv => MutualExclusion
<1> SUFFICES ASSUME OneThreadPerRank, IInv,
                    NEW t \in Threads, NEW u \in Threads,
                    pc[t] = "cs", pc[u] = "cs", t # u
             PROVE  FALSE
  BY DEF MutualExclusion
<1>1. Precedes(t, u) /\ Precedes(u, t)
  BY IInvOrder DEF ServedInTicketOrder, HasTicket
<1>2. /\ process_tickets[RankOf[t]] \in Nat /\ process_tickets[RankOf[u]] \in Nat
      /\ RankOf[t] \in Nat /\ RankOf[u] \in Nat
  BY RankFactsHold DEF RankFacts, IInv, TypeOK
<1> QED
  BY <1>1, <1>2 DEF Precedes, ServedBefore

(* Two threads are never between lock() and unlock() at the same time.       *)
THEOREM Exclusion == OneThreadPerRank => (Spec => []MutualExclusion)
<1> SUFFICES ASSUME OneThreadPerRank PROVE Spec => []MutualExclusion
  OBVIOUS
<1>1. IInv => MutualExclusion
  BY IInvExclusion
<1> QED
  BY <1>1, Invariance, PTL

(* The thread in the mutex is served before every one that has a ticket.     *)
THEOREM TicketOrder == OneThreadPerRank => (Spec => []ServedInTicketOrder)
<1> SUFFICES ASSUME OneThreadPerRank PROVE Spec => []ServedInTicketOrder
  OBVIOUS
<1>1. IInv => ServedInTicketOrder
  BY IInvOrder
<1> QED
  BY <1>1, Invariance, PTL

-----------------------------------------------------------------------------
(* Nobody waits for everybody. *)

\* A flag is up for a thread that is in lock() or in the mutex.
FlagsOwned == \A r \in Ranks : process_flags[r] => \E t \in Threads : RankOf[t] = r /\ pc[t] # "idle"

LEMMA FlagsOwnedStep ==
    ASSUME OneThreadPerRank, IInv, FlagsOwned, [Next]_bakeryvars
    PROVE  FlagsOwned'
<1> SUFFICES ASSUME NEW r \in Ranks, process_flags'[r]
             PROVE  \E t \in Threads : RankOf[t] = r /\ pc'[t] # "idle"
  BY DEF FlagsOwned
<1>0. TypeOK /\ RankFacts
  BY RankFactsHold DEF IInv
<1>1. ASSUME NEW s \in Threads, SetFlag(s) PROVE \E t \in Threads : RankOf[t] = r /\ pc'[t] # "idle"
  <2>1. pc'[s] # "idle" /\ \A t \in Threads : pc[t] # "idle" => pc'[t] # "idle"
    BY <1>0, <1>1 DEF SetFlag, TypeOK
  <2>2. RankOf[s] = r \/ process_flags[r]
    BY <1>0, <1>1 DEF SetFlag, TypeOK
  <2> QED BY <2>1, <2>2 DEF FlagsOwned
<1>2. ASSUME NEW s \in Threads, LockStep(s) PROVE \E t \in Threads : RankOf[t] = r /\ pc'[t] # "idle"
  <2>1. process_flags' = process_flags
    BY <1>2 DEF LockStep, ReadTicket, WriteTicket, SkipSelf, CheckFlag, CompareTicket, Enter, PassOver, shared
  <2>2. \A t \in Threads : pc[t] # "idle" => pc'[t] # "idle"
    BY <1>0, <1>2
    DEF LockStep, ReadTicket, WriteTicket, SkipSelf, CheckFlag, CompareTicket, Enter, PassOver, TypeOK
  <2> QED BY <2>1, <2>2 DEF FlagsOwned
<1>3. ASSUME NEW s \in Threads, Unlock(s) PROVE \E t \in Threads : RankOf[t] = r /\ pc'[t] # "idle"
  <2>1. process_flags[r] /\ r # RankOf[s] /\ \A t \in Threads : t # s => pc'[t] = pc[t]
    BY <1>0, <1>3 DEF Unlock, TypeOK
  <2> QED BY <2>1 DEF FlagsOwned
<1>4. CASE UNCHANGED bakeryvars
  BY <1>4 DEF bakeryvars, FlagsOwned
<1> QED BY <1>1, <1>2, <1>3, <1>4 DEF Next

\* Of the threads that are in the bakery one goes before all the others.
LEMMA SomebodyIsFirst ==
    ASSUME OneThreadPerRank, IInv, NEW W \in SUBSET Threads, W # {}
    PROVE  \E t \in W : \A u \in W : u # t => Precedes(t, u)
<1> DEFINE Ticket(t) == process_tickets[RankOf[t]]
<1>0. /\ MAX_NUM_PROCESSES \in Nat \ {0} /\ Ranks = 0 .. MAX_NUM_PROCESSES - 1
      /\ \A t \in Threads : RankOf[t] \in Nat /\ RankOf[t] \in 0 .. MAX_NUM_PROCESSES /\ Ticket(t) \in Nat
      /\ \A t, u \in Threads : RankOf[t] = RankOf[u] => t = u
  BY BakeryAssumption, RankFactsHold DEF RankFacts, IInv, TypeOK
<1>1. PICK s \in W : TRUE
  OBVIOUS
<1>2. PICK n \in Nat : n = Ticket(s)
  BY <1>0, <1>1
<1>3. PICK d : /\ d \in {i \in 0 .. n : \E t \in W : Ticket(t) = i}
               /\ \A e \in {i \in 0 .. n : \E t \in W : Ticket(t) = i} : d <= e
  <2>1. n \in {i \in 0 .. n : \E t \in W : Ticket(t) = i}
    BY <1>1, <1>2
  <2> QED BY <2>1, LeastElement
<1>4. \A u \in W : d <= Ticket(u)
  <2> SUFFICES ASSUME NEW u \in W PROVE d <= Ticket(u)
    OBVIOUS
  <2>1. PICK i \in Nat : i = Ticket(u)
    BY <1>0
  <2>2. d \in Nat /\ d <= n
    BY <1>2, <1>3
  <2>3. CASE i <= n
    <3>1. i \in 0 .. n
      BY <1>2, <2>1, <2>3
    <3>2. \E t \in W : Ticket(t) = i
      BY <2>1
    <3> HIDE DEF Ticket
    <3> QED BY <1>3, <2>1, <3>1, <3>2
  <2> HIDE DEF Ticket
  <2> QED BY <1>2, <2>1, <2>2, <2>3
<1>5. PICK t \in W : /\ Ticket(t) = d
                    /\ \A u \in W : Ticket(u) = d => RankOf[t] <= RankOf[u]
  <2> DEFINE D == {i \in 0 .. MAX_NUM_PROCESSES : \E u \in W : Ticket(u) = d /\ RankOf[u] = i}
  <2>1. D # {} /\ D \in SUBSET (0 .. MAX_NUM_PROCESSES)
    BY <1>0, <1>3
  <2>2. PICK i \in D : \A e \in D : i <= e
    <3> HIDE DEF D
    <3> QED BY <1>0, <2>1, LeastElement
  <2>3. \A u \in W : Ticket(u) = d => RankOf[u] \in D
    BY <1>0
  <2> QED BY <2>2, <2>3
<1>6. ASSUME NEW u \in W, u # t PROVE Precedes(t, u)
  <2>1. d \in Nat /\ Ticket(u) \in Nat /\ RankOf[t] \in Nat /\ RankOf[u] \in Nat /\ RankOf[t] # RankOf[u]
    BY <1>0, <1>3, <1>6
  <2>2. d < Ticket(u) \/ (d = Ticket(u) /\ RankOf[t] < RankOf[u])
    BY <1>4, <1>5, <2>1
  <2> QED BY <1>5, <2>2 DEF Precedes, ServedBefore
<1> QED BY <1>6

LEMMA FirstIsNotHeldUp ==
    ASSUME OneThreadPerRank, IInv, FlagsOwned, NEW s \in Threads, pc[s] # "idle"
    PROVE  \E t \in Threads : pc[t] # "idle" /\ ~HeldUp(t)
<1> DEFINE W == {t \in Threads : pc[t] # "idle"}
<1> SUFFICES ASSUME \A t \in W : HeldUp(t) PROVE FALSE
  OBVIOUS
<1>1. PICK t \in W : \A u \in W : u # t => Precedes(t, u)
  <2>1. W # {} /\ W \in SUBSET Threads
    OBVIOUS
  <2> HIDE DEF W
  <2> QED BY <2>1, SomebodyIsFirst
<1>2. rank[t] \in Ranks \ {RankOf[t]} /\ process_flags[rank[t]]
  BY DEF HeldUp, IInv, LoopIndexOK
<1>3. PICK u \in Threads : RankOf[u] = rank[t] /\ pc[u] # "idle"
  BY <1>2 DEF FlagsOwned
<1>4. Precedes(t, u)
  BY <1>1, <1>2, <1>3
<1>5. my_ticket[t] = process_tickets[RankOf[t]]
  BY DEF HeldUp, IInv, OwnEntry, HasTicket
<1> QED BY <1>3, <1>4, <1>5 DEF HeldUp, Precedes

(* The callers of lock() are never all held up by one another.               *)
THEOREM NobodyWaitsForEverybody == OneThreadPerRank => (Spec => []SomebodyIsNotHeldUp)
<1> SUFFICES ASSUME OneThreadPerRank PROVE Spec => []SomebodyIsNotHeldUp
  OBVIOUS
<1>1. Init => FlagsOwned
  BY DEF Init, FlagsOwned
<1>2. IInv /\ FlagsOwned /\ [Next]_bakeryvars => FlagsOwned'
  BY FlagsOwnedStep
<1>3. IInv /\ FlagsOwned => SomebodyIsNotHeldUp
  BY FirstIsNotHeldUp DEF SomebodyIsNotHeldUp
<1> QED BY <1>1, <1>2, <1>3, Invariance, PTL DEF Spec

-----------------------------------------------------------------------------
(* The bakery implements the lock: SetFlag requests it, Enter acquires it,   *)
(* Unlock releases it, and every other step stutters.                        *)

LEMMA RefinesInit == Init => Lock!Init
  BY DEF Init, Lock!Init

LEMMA RefinesStep ==
    OneThreadPerRank /\ IInv /\ IInv' /\ [Next]_bakeryvars => [Lock!Next]_(Lock!lockvars)
<1> SUFFICES ASSUME OneThreadPerRank, IInv, IInv', [Next]_bakeryvars
             PROVE  Lock!Next \/ UNCHANGED Lock!lockvars
  OBVIOUS
<1> USE DEF IInv, TypeOK
<1>1. ASSUME NEW t \in Threads, SetFlag(t) PROVE Lock!Request(t)
  BY <1>1 DEF SetFlag, Lock!Request
<1>2. ASSUME NEW t \in Threads, Enter(t) PROVE Lock!Acquire(t)
  <2>1. pc[t] = "check" /\ pc' = [pc EXCEPT ![t] = "cs"]
    BY <1>2 DEF Enter
  <2>2. MutualExclusion'
    <3>1. (OneThreadPerRank /\ IInv => MutualExclusion)'
      BY IInvExclusion, PTL
    <3> QED
      BY <3>1 DEF OneThreadPerRank
  <2>3. \A u \in Threads : pc'[u] = "cs" => u = t
    BY <2>1, <2>2 DEF MutualExclusion
  <2>4. \A u \in Threads : pc[u] # "cs"
    BY <2>1, <2>3
  <2> QED
    BY <2>1, <2>3, <2>4 DEF Lock!Acquire
<1>3. ASSUME NEW t \in Threads, Unlock(t) PROVE Lock!Release(t)
  BY <1>3 DEF Unlock, Lock!Release
<1>4. ASSUME NEW t \in Threads,
             ReadTicket(t) \/ WriteTicket(t) \/ SkipSelf(t) \/ CheckFlag(t) \/ CompareTicket(t)
      PROVE  UNCHANGED Lock!lockvars
  <2>1. /\ pc[t] \notin {"idle", "cs"}
        /\ pc' = pc \/ \E c \in {"check", "spin", "compare"} : pc' = [pc EXCEPT ![t] = c]
    BY <1>4 DEF ReadTicket, WriteTicket, SkipSelf, CheckFlag, CompareTicket, PassOver
  <2> QED
    BY <2>1 DEF Lock!lockvars
<1> QED
  BY <1>1, <1>2, <1>3, <1>4 DEF Next, LockStep, Lock!Next, bakeryvars, Lock!lockvars

(* RankLock is a correct account of the mutex for whoever takes it.          *)
THEOREM BakeryImplementsLock == OneThreadPerRank => (Spec => ImplementsLock)
<1> SUFFICES ASSUME OneThreadPerRank PROVE Spec => Lock!SafeSpec
  BY DEF ImplementsLock
<1>1. IInv /\ IInv' /\ [Next]_bakeryvars => [Lock!Next]_(Lock!lockvars)
  BY RefinesStep
<1> QED
  BY <1>1, RefinesInit, Invariance, PTL DEF Spec, Lock!SafeSpec
-----------------------------------------------------------------------------
(* First come, first served: with the history variable of MCBakeryMutex.     *)

\* A thread found waiting has a smaller ticket than the caller draws: its own
\* was there before the caller's scan began.
AheadOK(t, u) ==
    u \in ahead[t] =>
        /\ t # u
        /\ pc[t] # "idle"
        /\ pc[u] \in {"check", "spin", "compare"}
        /\ pc[t] = "scan" => \/ rank[t] <= RankOf[u]
                             \/ largest_ticket[t] >= process_tickets[RankOf[u]]
        /\ HasTicket(t) => Precedes(u, t)

ComeInv ==
    /\ ahead \in [Threads -> SUBSET Threads]
    /\ \A t, u \in Threads : AheadOK(t, u)

LEMMA NobodyOvertakes == OneThreadPerRank /\ IInv /\ ComeInv => FirstComeFirstServed
<1> SUFFICES ASSUME OneThreadPerRank, IInv, ComeInv, NEW t \in Threads, pc[t] = "cs", NEW u \in ahead[t]
             PROVE  FALSE
  BY DEF FirstComeFirstServed
<1>1. u \in Threads /\ t # u /\ HasTicket(u) /\ Precedes(u, t)
  BY DEF ComeInv, AheadOK, HasTicket
<1>2. Precedes(t, u)
  BY <1>1, IInvOrder DEF ServedInTicketOrder
<1>3. /\ process_tickets[RankOf[t]] \in Nat /\ process_tickets[RankOf[u]] \in Nat
      /\ RankOf[t] \in Nat /\ RankOf[u] \in Nat
  BY <1>1, RankFactsHold DEF RankFacts, IInv, TypeOK
<1> QED BY <1>1, <1>2, <1>3 DEF Precedes, ServedBefore

LEMMA ArriveStep ==
    ASSUME OneThreadPerRank, IInv, ComeInv, NEW s \in Threads, Arrive(s) PROVE ComeInv'
<1>1. /\ RankFacts /\ TypeOK /\ pc[s] = "idle" /\ ahead' = [ahead EXCEPT ![s] = Waiting]
      /\ pc' = [pc EXCEPT ![s] = "scan"] /\ rank' = [rank EXCEPT ![s] = 0]
      /\ UNCHANGED process_tickets /\ \A t \in Threads \ {s} : largest_ticket'[t] = largest_ticket[t]
  BY RankFactsHold DEF IInv, TypeOK, Arrive, SetFlag
<1>2. Waiting \subseteq Threads /\ \A u \in Waiting : u # s /\ pc[u] \in {"check", "spin", "compare"}
  BY <1>1 DEF Waiting
<1>3. ahead' \in [Threads -> SUBSET Threads]
  BY <1>1, <1>2 DEF ComeInv
<1>4. ASSUME NEW t \in Threads, NEW u \in Threads PROVE AheadOK(t, u)'
  <2>1. AheadOK(t, u) /\ RankOf[u] \in Nat
    BY <1>1 DEF ComeInv, RankFacts
  <2>2. CASE t = s
    BY <1>1, <1>2, <2>1, <2>2 DEF ComeInv, AheadOK, TypeOK, HasTicket
  <2>3. CASE t # s
    BY <1>1, <2>1, <2>3 DEF ComeInv, AheadOK, TypeOK, HasTicket, Precedes
  <2> QED BY <2>2, <2>3
<1> QED BY <1>3, <1>4 DEF ComeInv

LEMMA AdvanceStep ==
    ASSUME OneThreadPerRank, IInv, ComeInv, NEW s \in Threads, Advance(s) PROVE ComeInv'
<1>1. RankFacts /\ TypeOK
  BY RankFactsHold DEF IInv
<1>2. CASE Enter(s)
  <2>1. /\ pc[s] = "check" /\ pc' = [pc EXCEPT ![s] = "cs"] /\ ahead' = [u \in Threads |-> ahead[u] \ {s}]
        /\ UNCHANGED <<process_tickets, rank, largest_ticket>>
    BY <1>1, <1>2 DEF Enter, Advance, TypeOK, shared
  <2>2. ahead' \in [Threads -> SUBSET Threads]
    BY <2>1 DEF ComeInv
  <2>3. \A t, u \in Threads : AheadOK(t, u)'
    BY <1>1, <2>1 DEF ComeInv, AheadOK, TypeOK, HasTicket, Precedes
  <2> QED BY <2>2, <2>3 DEF ComeInv
<1>3. CASE ReadTicket(s)
  <2>1. /\ pc[s] = "scan" /\ rank[s] \in Ranks /\ UNCHANGED <<process_tickets, pc, ahead>>
        /\ rank' = [rank EXCEPT ![s] = @ + 1]
        /\ \A t \in Threads \ {s} : largest_ticket'[t] = largest_ticket[t]
        /\ largest_ticket'[s] >= largest_ticket[s]
        /\ largest_ticket'[s] >= process_tickets[rank[s]]
        /\ largest_ticket[s] \in Nat /\ largest_ticket'[s] \in Nat
    BY <1>1, <1>3 DEF ReadTicket, Advance, TypeOK, shared
  <2>2. ASSUME NEW t \in Threads, NEW u \in Threads PROVE AheadOK(t, u)'
    <3>1. AheadOK(t, u) /\ RankOf[u] \in Nat /\ rank[t] \in Nat /\ process_tickets[RankOf[u]] \in Nat
      BY <1>1 DEF ComeInv, RankFacts, TypeOK
    <3>2. CASE t = s
      <4>1. rank'[s] = rank[s] + 1 /\ ~HasTicket(s)'
        BY <1>1, <2>1 DEF TypeOK, HasTicket
      <4> QED BY <2>1, <3>1, <3>2, <4>1 DEF AheadOK
    <3>3. CASE t # s
      BY <1>1, <2>1, <3>1, <3>3 DEF AheadOK, TypeOK, HasTicket, Precedes
    <3> QED BY <3>2, <3>3
  <2> QED BY <2>1, <2>2 DEF ComeInv
\* The ticket drawn is larger than any that was there when the scan began.
<1>4. CASE WriteTicket(s)
  <2>1. /\ pc[s] = "scan" /\ rank[s] = MAX_NUM_PROCESSES /\ pc' = [pc EXCEPT ![s] = "check"]
        /\ process_tickets' = [process_tickets EXCEPT ![RankOf[s]] = largest_ticket[s] + 1]
        /\ rank' = [rank EXCEPT ![s] = 0] /\ UNCHANGED <<largest_ticket, ahead>>
    BY <1>1, <1>4 DEF WriteTicket, Advance, TypeOK
  <2>2. ASSUME NEW t \in Threads, NEW u \in Threads PROVE AheadOK(t, u)'
    <3>1. /\ AheadOK(t, u) /\ RankOf[u] \in Nat /\ RankOf[u] < MAX_NUM_PROCESSES
          /\ MAX_NUM_PROCESSES \in Nat
          /\ process_tickets[RankOf[u]] \in Nat /\ largest_ticket[t] \in Nat
      BY <1>1 DEF ComeInv, RankFacts, TypeOK
    <3>2. CASE u \in ahead[t]
      <4>1. u # s /\ u # t /\ RankOf[u] # RankOf[s] /\ process_tickets'[RankOf[u]] = process_tickets[RankOf[u]]
        BY <1>1, <2>1, <3>1, <3>2 DEF AheadOK, RankFacts, TypeOK
      <4>2. CASE t = s
        <5>1. largest_ticket[s] >= process_tickets[RankOf[u]]
          BY <2>1, <3>1, <3>2, <4>2 DEF AheadOK
        <5>2. process_tickets'[RankOf[s]] = largest_ticket[s] + 1
          BY <1>1, <2>1 DEF RankFacts, TypeOK
        <5>3. Precedes(u, t)'
          BY <3>1, <4>1, <4>2, <5>1, <5>2 DEF Precedes, ServedBefore
        <5> QED BY <1>1, <2>1, <3>1, <3>2, <4>1, <4>2, <5>3 DEF AheadOK, TypeOK
      <4>3. CASE t # s
        <5>1. RankOf[t] # RankOf[s] /\ process_tickets'[RankOf[t]] = process_tickets[RankOf[t]]
          BY <1>1, <2>1, <4>3 DEF RankFacts, TypeOK
        <5> QED BY <1>1, <2>1, <3>1, <3>2, <4>1, <4>3, <5>1 DEF AheadOK, TypeOK, HasTicket, Precedes
      <4> QED BY <4>2, <4>3
    <3>3. CASE u \notin ahead[t]
      BY <2>1, <3>3 DEF AheadOK
    <3> QED BY <3>2, <3>3
  <2> QED BY <2>1, <2>2 DEF ComeInv
\* The waiting loop goes on: the loop index of a caller that scans stays.
<1>5. ASSUME SkipSelf(s) \/ CheckFlag(s) \/ CompareTicket(s) PROVE ComeInv'
  <2>1. /\ pc[s] \in {"check", "spin", "compare"} /\ pc'[s] \in {"check", "spin", "compare"}
        /\ \A t \in Threads \ {s} : pc'[t] = pc[t] /\ rank'[t] = rank[t]
        /\ UNCHANGED <<process_tickets, largest_ticket>>
    BY <1>1, <1>5 DEF SkipSelf, CheckFlag, CompareTicket, PassOver, TypeOK, shared
  <2>2. ahead' = ahead
    BY <2>1, <1>5 DEF Advance
  <2>3. ASSUME NEW t \in Threads, NEW u \in Threads PROVE AheadOK(t, u)'
    <3>1. AheadOK(t, u)
      BY DEF ComeInv
    <3> QED BY <2>1, <2>2, <3>1 DEF AheadOK, HasTicket, Precedes
  <2> QED BY <2>2, <2>3 DEF ComeInv
<1> QED BY <1>2, <1>3, <1>4, <1>5 DEF Advance, LockStep

LEMMA LeaveStep ==
    ASSUME OneThreadPerRank, IInv, ComeInv, NEW s \in Threads, Leave(s) PROVE ComeInv'
<1>1. /\ TypeOK /\ pc[s] = "cs" /\ pc' = [pc EXCEPT ![s] = "idle"]
      /\ UNCHANGED <<process_tickets, rank, largest_ticket, ahead>>
  BY DEF IInv, Leave, Unlock
<1>2. ahead[s] = {}
  BY <1>1, NobodyOvertakes DEF FirstComeFirstServed
<1>3. ASSUME NEW t \in Threads, NEW u \in Threads PROVE AheadOK(t, u)'
  <2>1. AheadOK(t, u)
    BY DEF ComeInv
  <2> QED BY <1>1, <1>2, <2>1 DEF AheadOK, TypeOK, HasTicket, Precedes
<1> QED BY <1>1, <1>3 DEF ComeInv

(* A thread that calls lock() when another waits with its ticket gets the    *)
(* mutex after it, although no ticket is ever reset.                         *)
THEOREM FirstCome == OneThreadPerRank => (MCSpec => []FirstComeFirstServed)
<1> SUFFICES ASSUME OneThreadPerRank PROVE MCSpec => []FirstComeFirstServed
  OBVIOUS
<1>1. MCInit => IInv /\ ComeInv
  BY IInvInit DEF MCInit, Init, ComeInv, AheadOK
<1>2. [MCNext]_mcvars => [Next]_bakeryvars
  BY DEF MCNext, Arrive, Advance, Leave, Exhausted, Next, mcvars, bakeryvars
<1>3. IInv /\ ComeInv /\ [MCNext]_mcvars => IInv' /\ ComeInv'
  <2> SUFFICES ASSUME IInv, ComeInv, [MCNext]_mcvars PROVE IInv' /\ ComeInv'
    OBVIOUS
  <2>1. IInv'
    BY <1>2, IInvStep
  <2>2. ASSUME UNCHANGED mcvars PROVE ComeInv'
    BY <2>2 DEF mcvars, ComeInv, AheadOK, HasTicket, Precedes
  <2> QED BY <2>1, <2>2, ArriveStep, AdvanceStep, LeaveStep DEF MCNext, Exhausted
<1>4. IInv /\ ComeInv => FirstComeFirstServed
  BY NobodyOvertakes
<1> QED BY <1>1, <1>3, <1>4, PTL DEF MCSpec
-----------------------------------------------------------------------------
(* The results it guards: the free list *)

\* ListAt as a function of the head and the links.
Walk(h, l) ==
    CHOOSE f : f = [n \in 0 .. num_blocks |->
                      IF n = 0 THEN h ELSE IF f[n - 1] \in Blocks THEN l[f[n - 1]] ELSE f[n - 1]]

\* The blocks of F are the list that begins at h, its last block s[1], its
\* first s[k].
IsList(h, l, F, k, s) ==
    /\ s \in [1 .. k -> Blocks]
    /\ \A i, j \in 1 .. k : s[i] = s[j] => i = j
    /\ F = {s[i] : i \in 1 .. k}
    /\ h = IF k = 0 THEN EndOfList ELSE s[k]
    /\ \A i \in 1 .. k : l[s[i]] = IF i = 1 THEN EndOfList ELSE s[i - 1]

ListOf(h, l, F) == \E k \in Nat : \E s \in [1 .. k -> Blocks] : IsList(h, l, F, k, s)

\* No list is longer than the pool.
LEMMA ListLength ==
    ASSUME NEW h, NEW l, NEW F, NEW k \in Nat, NEW s, IsList(h, l, F, k, s)
    PROVE  k <= num_blocks
<1>1. num_blocks \in Nat \ {0}
  BY ShmAssumption
<1>2. IsFiniteSet(Blocks) /\ Cardinality(Blocks) = num_blocks /\ IsFiniteSet(1 .. k) /\ Cardinality(1 .. k) = k
  <2>1. IsFiniteSet(0 .. num_blocks - 1) /\ Cardinality(0 .. num_blocks - 1) = (num_blocks - 1) - 0 + 1
    BY <1>1, FS_Interval
  <2>2. IsFiniteSet(1 .. k) /\ Cardinality(1 .. k) = k
    BY FS_Interval
  <2> QED BY <1>1, <2>1, <2>2 DEF Blocks
<1>3. ASSUME num_blocks < k PROVE FALSE
  <2>1. \E i, j \in 1 .. k : i # j /\ s[i] = s[j]
    BY <1>2, <1>3, FS_PigeonHole DEF IsList
  <2> QED BY <2>1 DEF IsList
<1> QED BY <1>1, <1>3

\* A walk from the head finds the blocks of the list and then its end.
LEMMA WalkFollowsList ==
    ASSUME NEW h, NEW l, NEW F, NEW k \in Nat, NEW s, IsList(h, l, F, k, s)
    PROVE  \A n \in 0 .. num_blocks : Walk(h, l)[n] = IF n < k THEN s[k - n] ELSE EndOfList
<1> DEFINE N == num_blocks
           Step(f, n) == IF n = 0 THEN h ELSE IF f[n - 1] \in Blocks THEN l[f[n - 1]] ELSE f[n - 1]
           g == [n \in 0 .. N |-> IF n < k THEN s[k - n] ELSE EndOfList]
           w == Walk(h, l)
<1>1. N \in Nat \ {0} /\ k <= N /\ EndOfList \notin Blocks
  BY ShmAssumption, ListLength DEF EndOfList, Blocks
<1>2. ASSUME NEW n \in 0 .. N PROVE g[n] = Step(g, n)
  <2>1. CASE n = 0
    BY <1>1, <2>1 DEF IsList
  <2>2. CASE n # 0 /\ n <= k
    <3>1. n - 1 \in 0 .. N /\ n - 1 < k /\ g[n - 1] = s[k - n + 1] /\ k - n + 1 \in 1 .. k
      BY <1>1, <2>2
    <3>2. s[k - n + 1] \in Blocks
      BY <3>1 DEF IsList
    <3>3. l[s[k - n + 1]] = IF k - n + 1 = 1 THEN EndOfList ELSE s[(k - n + 1) - 1]
      BY <3>1 DEF IsList
    <3>4. (k - n + 1 = 1 <=> ~(n < k)) /\ (k - n + 1) - 1 = k - n
      BY <1>1, <2>2
    <3> QED BY <2>2, <3>1, <3>2, <3>3, <3>4
  <2>3. CASE n # 0 /\ ~(n <= k)
    <3>1. n - 1 \in 0 .. N /\ g[n - 1] = EndOfList
      BY <1>1, <2>3
    <3> QED BY <1>1, <2>3, <3>1
  <2> QED BY <2>1, <2>2, <2>3
<1>3. g = [n \in 0 .. N |-> Step(g, n)]
  BY <1>2
<1>4. w = [n \in 0 .. N |-> Step(w, n)]
  <2> HIDE DEF g
  <2> QED BY <1>3 DEF Walk
<1>5. \A n \in 0 .. N : w[n] = g[n]
  <2> DEFINE D == {n \in 0 .. N : w[n] # g[n]}
  <2> SUFFICES ASSUME D # {} PROVE FALSE
    OBVIOUS
  <2>1. PICK d \in D : \A e \in D : d <= e
    BY <1>1, LeastElement
  <2>2. d \in 0 .. N /\ w[d] = Step(w, d) /\ g[d] = Step(g, d)
    <3> HIDE DEF w, g
    <3> QED BY <1>3, <1>4
  <2>3. d # 0
    BY <2>1, <2>2
  <2>4. d - 1 \in 0 .. N /\ d - 1 \notin D
    BY <1>1, <2>1, <2>2, <2>3
  <2>5. w[d - 1] = g[d - 1]
    BY <2>4
  <2> HIDE DEF w, g
  <2> QED BY <2>1, <2>2, <2>3, <2>5
<1> QED BY <1>5

LEMMA WalkEnds ==
    ASSUME NEW h, NEW l, NEW F, ListOf(h, l, F)
    PROVE  /\ Walk(h, l)[num_blocks] = EndOfList
           /\ {Walk(h, l)[n] : n \in 0 .. num_blocks} \cap Blocks = F
<1>0. PICK k \in Nat : \E s \in [1 .. k -> Blocks] : IsList(h, l, F, k, s)
  BY DEF ListOf
<1>1. PICK s \in [1 .. k -> Blocks] : IsList(h, l, F, k, s)
  BY <1>0
<1>2. num_blocks \in Nat \ {0} /\ k <= num_blocks /\ EndOfList \notin Blocks
  BY <1>1, ShmAssumption, ListLength DEF EndOfList, Blocks
<1> DEFINE w == Walk(h, l)
<1>3. \A n \in 0 .. num_blocks : w[n] = IF n < k THEN s[k - n] ELSE EndOfList
  BY <1>1, WalkFollowsList
<1> HIDE DEF w
<1>4. ASSUME NEW b \in F PROVE b \in Blocks /\ \E n \in 0 .. num_blocks : w[n] = b
  <2>1. PICK i \in 1 .. k : b = s[i]
    BY <1>1 DEF IsList
  <2>2. k - i \in 0 .. num_blocks /\ k - i < k /\ k - (k - i) = i
    BY <1>2
  <2> QED BY <1>3, <2>1, <2>2
<1>5. ASSUME NEW n \in 0 .. num_blocks, w[n] \in Blocks PROVE w[n] \in F
  <2>1. n < k /\ w[n] = s[k - n]
    BY <1>2, <1>3, <1>5
  <2>2. k - n \in 1 .. k
    BY <2>1
  <2> QED BY <1>1, <2>1, <2>2 DEF IsList
<1>6. w[num_blocks] = EndOfList
  BY <1>2, <1>3
<1> QED BY <1>4, <1>5, <1>6 DEF w

\* The pool as Freelist's constructor leaves it.
LEMMA WholePool ==
    ASSUME NEW l, l = [b \in Blocks |-> IF b + 1 \in Blocks THEN b + 1 ELSE EndOfList]
    PROVE  ListOf(0, l, Blocks)
<1> DEFINE N == num_blocks
           s == [i \in 1 .. N |-> N - i]
<1>1. N \in Nat \ {0} /\ Blocks = 0 .. N - 1
  BY ShmAssumption DEF Blocks
<1>2. s \in [1 .. N -> Blocks] /\ \A i, j \in 1 .. N : s[i] = s[j] => i = j
  BY <1>1
<1>3. Blocks = {s[i] : i \in 1 .. N}
  <2>1. ASSUME NEW b \in Blocks PROVE \E i \in 1 .. N : s[i] = b
    <3>1. N - b \in 1 .. N /\ s[N - b] = b
      BY <1>1
    <3> QED BY <3>1
  <2> QED BY <1>2, <2>1
<1>4. 0 = s[N]
  BY <1>1
<1>5. ASSUME NEW i \in 1 .. N PROVE l[s[i]] = IF i = 1 THEN EndOfList ELSE s[i - 1]
  <2>1. s[i] = N - i /\ s[i] \in Blocks /\ (i # 1 => i - 1 \in 1 .. N /\ s[i - 1] = N - i + 1)
    BY <1>1
  <2>2. N - i + 1 \in Blocks <=> i # 1
    BY <1>1
  <2> QED BY <2>1, <2>2
<1>6. IsList(0, l, Blocks, N, s)
  <2> HIDE DEF s
  <2> QED BY <1>1, <1>2, <1>3, <1>4, <1>5 DEF IsList
<1> QED BY <1>1, <1>2, <1>6 DEF ListOf

\* Freelist::allocate takes the head off.
LEMMA ListPop ==
    ASSUME NEW h, NEW l, NEW F, ListOf(h, l, F), h # EndOfList
    PROVE  h \in F /\ ListOf(l[h], l, F \ {h})
<1>0. PICK k \in Nat : \E s \in [1 .. k -> Blocks] : IsList(h, l, F, k, s)
  BY DEF ListOf
<1>1. PICK s \in [1 .. k -> Blocks] : IsList(h, l, F, k, s)
  BY <1>0
<1>2. k \in Nat \ {0} /\ h = s[k] /\ k - 1 \in Nat /\ k \in 1 .. k
  BY <1>1 DEF IsList
<1> DEFINE r == [i \in 1 .. k - 1 |-> s[i]]
<1>3. /\ r \in [1 .. k - 1 -> Blocks]
      /\ 1 .. k - 1 \subseteq 1 .. k /\ 1 .. k = (1 .. k - 1) \cup {k} /\ k \notin 1 .. k - 1
  BY <1>2
<1>4. \A i, j \in 1 .. k : s[i] = s[j] => i = j
  BY <1>1 DEF IsList
<1>5. F \ {h} = {r[i] : i \in 1 .. k - 1}
  <2>1. F = {s[i] : i \in 1 .. k}
    BY <1>1 DEF IsList
  <2> QED BY <1>2, <1>3, <1>4, <2>1
<1>6. l[h] = IF k - 1 = 0 THEN EndOfList ELSE r[k - 1]
  <2>1. l[s[k]] = IF k = 1 THEN EndOfList ELSE s[k - 1]
    BY <1>1, <1>2 DEF IsList
  <2>2. k # 1 => k - 1 \in 1 .. k - 1
    BY <1>2
  <2> QED BY <1>2, <2>1, <2>2
<1>7. \A i \in 1 .. k - 1 : l[r[i]] = IF i = 1 THEN EndOfList ELSE r[i - 1]
  <2> SUFFICES ASSUME NEW i \in 1 .. k - 1
               PROVE  l[s[i]] = IF i = 1 THEN EndOfList ELSE r[i - 1]
    OBVIOUS
  <2>1. l[s[i]] = IF i = 1 THEN EndOfList ELSE s[i - 1]
    BY <1>1, <1>3 DEF IsList
  <2>2. i # 1 => i - 1 \in 1 .. k - 1
    BY <1>2
  <2> QED BY <2>1, <2>2
<1>8. IsList(l[h], l, F \ {h}, k - 1, r)
  <2>1. \A i, j \in 1 .. k - 1 : r[i] = r[j] => i = j
    BY <1>3, <1>4
  <2> HIDE DEF r
  <2> QED BY <1>3, <1>5, <1>6, <1>7, <2>1 DEF IsList
<1>9. h \in F
  BY <1>1, <1>2 DEF IsList
<1> HIDE DEF r
<1>10. ListOf(l[h], l, F \ {h})
  BY <1>2, <1>3, <1>8 DEF ListOf
<1> QED BY <1>9, <1>10

\* Freelist::deallocate puts a block that is linked to the head in front of it.
LEMMA ListPush ==
    ASSUME NEW h, NEW l, NEW F, ListOf(h, l, F), NEW b \in Blocks \ F, l[b] = h
    PROVE  ListOf(b, l, F \cup {b})
<1>0. PICK k \in Nat : \E s \in [1 .. k -> Blocks] : IsList(h, l, F, k, s)
  BY DEF ListOf
<1>1. PICK s \in [1 .. k -> Blocks] : IsList(h, l, F, k, s)
  BY <1>0
<1> DEFINE r == [i \in 1 .. k + 1 |-> IF i = k + 1 THEN b ELSE s[i]]
<1>2. /\ r \in [1 .. k + 1 -> Blocks] /\ k + 1 \in Nat
      /\ 1 .. k + 1 = (1 .. k) \cup {k + 1} /\ k + 1 \notin 1 .. k /\ r[k + 1] = b
      /\ \A i \in 1 .. k : r[i] = s[i]
  OBVIOUS
<1>3. \A i \in 1 .. k : s[i] # b
  BY <1>1 DEF IsList
<1>4. \A i, j \in 1 .. k + 1 : r[i] = r[j] => i = j
  BY <1>1, <1>2, <1>3 DEF IsList
<1>5. F \cup {b} = {r[i] : i \in 1 .. k + 1}
  BY <1>1, <1>2 DEF IsList
<1>6. ASSUME NEW i \in 1 .. k + 1 PROVE l[r[i]] = IF i = 1 THEN EndOfList ELSE r[i - 1]
  <2>1. CASE i = k + 1
    <3>1. i = 1 <=> k = 0
      BY <2>1
    <3>2. k # 0 => i - 1 \in 1 .. k /\ r[i - 1] = s[k]
      BY <2>1
    <3>3. h = IF k = 0 THEN EndOfList ELSE s[k]
      BY <1>1 DEF IsList
    <3> QED BY <1>2, <2>1, <3>1, <3>2, <3>3
  <2>2. CASE i # k + 1
    <3>1. i \in 1 .. k /\ (i # 1 => i - 1 \in 1 .. k)
      BY <2>2
    <3>2. l[s[i]] = IF i = 1 THEN EndOfList ELSE s[i - 1]
      BY <1>1, <3>1 DEF IsList
    <3> QED BY <1>2, <3>1, <3>2
  <2> QED BY <2>1, <2>2
<1>7. IsList(b, l, F \cup {b}, k + 1, r)
  <2> HIDE DEF r
  <2> QED BY <1>2, <1>4, <1>5, <1>6 DEF IsList
<1> QED BY <1>2, <1>7 DEF ListOf

\* Links of blocks that are not on the list do not matter to it.
LEMMA ListKept ==
    ASSUME NEW h, NEW l, NEW F, ListOf(h, l, F), NEW m, \A b \in F : m[b] = l[b]
    PROVE  ListOf(h, m, F) /\ F \subseteq Blocks
<1>0. PICK k \in Nat : \E s \in [1 .. k -> Blocks] : IsList(h, l, F, k, s)
  BY DEF ListOf
<1>1. PICK s \in [1 .. k -> Blocks] : IsList(h, l, F, k, s)
  BY <1>0
<1>2. IsList(h, m, F, k, s) /\ F \subseteq Blocks
  BY <1>1 DEF IsList
<1> QED BY <1>2 DEF ListOf

-----------------------------------------------------------------------------
(* The invariant *)

\* Who works in the mutex has it, and who is to use a block has one; what is
\* copied in leaves the next block alone.
WorkOK ==
    /\ held \in [Threads -> [id : Nat, size : 0 .. block_size - 1, block : Blocks \cup {EndOfList, NoBlock}]]
    /\ ring \subseteq [id : Nat, size : 0 .. block_size - 1, block : Blocks]
    /\ DOMAIN at = Threads
    /\ \A t \in Threads :
          /\ at[t] \in {"taking", "leave", "returning"} => pc[t] = "cs"
          /\ at[t] \in {"taking", "retry", "fill", "push"} => t \in Senders
          /\ at[t] \in {"copy", "returning"} => t \in Receivers
          /\ at[t] \in {"fill", "push", "copy", "returning"} => held[t].block \in Blocks
          /\ at[t] = "want" /\ t \in Receivers => held[t].block \in Blocks
          /\ at[t] = "leave" /\ t \in Senders => held[t].block \in Blocks \cup {EndOfList}

\* Between the two steps of allocate and of deallocate the list stays as it is.
ListSteps ==
    \A t \in Threads :
        /\ at[t] = "taking" => held[t].block = head /\ head # EndOfList
        /\ at[t] = "returning" => link[held[t].block] = head

\* The threads that hold a block.
Holding ==
    {t \in Threads :
        \/ t \in Senders /\ at[t] \in {"leave", "fill", "push"} /\ held[t].block \in Blocks
        \/ t \in Receivers /\ at[t] \in {"copy", "want", "returning"}}

\* Every block is in F, or has one thread of S or one response of R.
Shared(F, S, d, R) ==
    /\ \A b \in Blocks : b \in F \/ (\E t \in S : d[t].block = b) \/ (\E r \in R : r.block = b)
    /\ \A t \in S : d[t].block \notin F
    /\ \A r \in R : r.block \notin F
    /\ \A t \in S, r \in R : d[t].block # r.block
    /\ \A t, u \in S : d[t].block = d[u].block => t = u
    /\ \A q, r \in R : q.block = r.block => q = r

PoolShared == \E F \in SUBSET Blocks : ListOf(head, link, F) /\ Shared(F, Holding, held, ring)

\* From the copy in to the copy out a block contains the result of its holder.
ContentOK ==
    /\ \A t \in Threads : at[t] \in {"push", "copy"} => content[held[t].block] = held[t].id
    /\ \A r \in ring : content[r.block] = r.id
    /\ ResultsArriveIntact

PoolTypes == DOMAIN link = Blocks /\ DOMAIN content = Blocks /\ nextId \in Nat

Inv == PoolTypes /\ WorkOK /\ ListSteps /\ PoolShared /\ ContentOK

-----------------------------------------------------------------------------
(* A block changes hands *)

LEMMA BlocksChangeHands ==
    ASSUME NEW F, NEW S, NEW d, NEW R, Shared(F, S, d, R), NEW e, NEW t
    PROVE  /\ (\A u \in S : e[u].block = d[u].block) => Shared(F, S, e, R)
           /\ \A b \in F : t \notin S /\ e[t].block = b /\ (\A u \in S : e[u].block = d[u].block) =>
                 Shared(F \ {b}, S \cup {t}, e, R)
           /\ t \in S => Shared(F \cup {d[t].block}, S \ {t}, d, R)
           /\ \A r : t \in S /\ r.block = d[t].block => Shared(F, S \ {t}, d, R \cup {r})
           /\ \A r \in R : t \notin S /\ e[t].block = r.block /\ (\A u \in S : e[u].block = d[u].block) =>
                 Shared(F, S \cup {t}, e, R \ {r})
<1>1. (\A u \in S : e[u].block = d[u].block) => Shared(F, S, e, R)
  BY DEF Shared
<1>2. ASSUME NEW b \in F, t \notin S, e[t].block = b, \A u \in S : e[u].block = d[u].block
      PROVE  Shared(F \ {b}, S \cup {t}, e, R)
  BY <1>2 DEF Shared
<1>3. t \in S => Shared(F \cup {d[t].block}, S \ {t}, d, R)
  BY DEF Shared
<1>4. ASSUME NEW r, t \in S, r.block = d[t].block
      PROVE  Shared(F, S \ {t}, d, R \cup {r})
  BY <1>4 DEF Shared
<1>5. ASSUME NEW r \in R, t \notin S, e[t].block = r.block, \A u \in S : e[u].block = d[u].block
      PROVE  Shared(F, S \cup {t}, e, R \ {r})
  BY <1>5 DEF Shared
<1> QED BY <1>1, <1>2, <1>3, <1>4, <1>5

LEMMA PoolSharedAfter ==
    PoolShared' <=> \E F \in SUBSET Blocks : ListOf(head', link', F) /\ Shared(F, Holding', held', ring')
BY DEF PoolShared, ListOf, IsList, Shared

\* Most steps move no block.
LEMMA PoolSharedKept ==
    ASSUME PoolShared, UNCHANGED <<head, link, ring>>, Holding' = Holding,
           \A u \in Holding : held'[u].block = held[u].block
    PROVE  PoolShared'
<1>1. PICK F \in SUBSET Blocks : ListOf(head, link, F) /\ Shared(F, Holding, held, ring)
  BY DEF PoolShared
<1>2. Shared(F, Holding, held', ring)
  BY <1>1, BlocksChangeHands
<1> QED BY <1>1, <1>2, PoolSharedAfter

-----------------------------------------------------------------------------
(* The steps *)

\* What the mutex adds to the invariant.
Locked == TypeInv /\ MutualExclusion

\* The bakery's own steps move threads that do not work in the mutex yet.
LEMMA MutexSteps ==
    ASSUME Inv, Locked, NEW t \in Threads, CallLock(t) \/ WaitForLock(t)
    PROVE  Inv'
<1>1. UNCHANGED <<head, link, content, at, held, ring, nextId, received>>
  BY DEF CallLock, WaitForLock, poolvars, threadvars
<1>2. pc[t] # "cs" /\ DOMAIN pc = Threads /\ \A u \in Threads \ {t} : pc'[u] = pc[u]
  BY DEF CallLock, WaitForLock, SetFlag, LockStep, ReadTicket, WriteTicket, SkipSelf, CheckFlag, CompareTicket,
         PassOver, Enter, Locked, TypeInv, TypeOK
<1>3. WorkOK'
  BY <1>1, <1>2 DEF Inv, WorkOK
<1>4. Holding' = Holding
  BY <1>1 DEF Holding
<1>5. PoolShared'
  BY <1>1, <1>4, PoolSharedKept DEF Inv
<1> QED BY <1>1, <1>3, <1>5 DEF Inv, PoolTypes, ListSteps, ContentOK, ResultsArriveIntact

\* exit(1) leaves everything as it is.
LEMMA ExitStep ==
    ASSUME Inv, NEW t \in Threads, Exit(t)
    PROVE  Inv'
<1>1. UNCHANGED <<head, link, content, at, held, ring, nextId, received, pc>>
  BY DEF Exit, poolvars, threadvars, bakeryvars
<1>2. Holding' = Holding
  BY <1>1 DEF Holding
<1>3. PoolShared'
  BY <1>1, <1>2, PoolSharedKept DEF Inv
<1> QED BY <1>1, <1>3 DEF Inv, PoolTypes, WorkOK, ListSteps, ContentOK, ResultsArriveIntact

LEMMA ReleaseStep ==
    ASSUME Inv, Locked, NEW t \in Threads, ReleaseLock(t)
    PROVE  Inv'
<1>1. /\ UNCHANGED <<head, link, content, held, ring, nextId, received>> /\ at[t] = "leave"
      /\ DOMAIN at' = Threads /\ \A u \in Threads \ {t} : at'[u] = at[u] /\ pc'[u] = pc[u]
      /\ at'[t] = IF t \in Receivers THEN "idle" ELSE IF held[t].block = EndOfList THEN "retry" ELSE "fill"
  BY DEF ReleaseLock, Goto, poolvars, Unlock, Inv, WorkOK, Locked, TypeInv, TypeOK
<1>2. EndOfList \notin Blocks /\ (t \in Senders <=> t \notin Receivers)
  BY ShmAssumption DEF EndOfList, Blocks
<1>3. WorkOK'
  BY <1>1, <1>2 DEF Inv, WorkOK
<1>4. Holding' = Holding
  BY <1>1, <1>2 DEF Holding, Inv, WorkOK
<1>5. PoolShared'
  BY <1>1, <1>4, PoolSharedKept DEF Inv
<1> QED BY <1>1, <1>3, <1>5 DEF Inv, PoolTypes, ListSteps, ContentOK, ResultsArriveIntact

LEMMA TakeResultStep ==
    ASSUME Inv, ResultsFit, NEW t \in Threads, NEW size \in DataSizes, TakeResult(t, size)
    PROVE  Inv'
<1>1. CASE block_size < size
  BY <1>1, ExitStep DEF TakeResult
<1>2. CASE ~(block_size < size)
  <2>1. /\ UNCHANGED <<head, link, content, pc, ring, received>> /\ nextId' = nextId + 1 /\ at[t] = "idle" /\ at'[t] = "want" /\ t \in Senders
        /\ DOMAIN at' = Threads /\ \A u \in Threads \ {t} : at'[u] = at[u] /\ held'[u] = held[u]
        /\ held' = [held EXCEPT ![t] = [id |-> nextId, size |-> size, block |-> NoBlock]]
    BY <1>2 DEF TakeResult, Goto, poolvars, bakeryvars, Inv, WorkOK
  <2>2. size \in 0 .. block_size - 1 /\ t \notin Receivers
    <3>1. size \in Nat /\ block_size \in Nat /\ size # block_size /\ ~(block_size < size)
      BY <1>2, ShmAssumption DEF ResultsFit
    <3>2. size \in 0 .. block_size - 1
      BY <3>1
    <3> QED BY <2>1, <3>2, ShmAssumption
  <2>3. WorkOK'
    <3>1. held' \in [Threads -> [id : Nat, size : 0 .. block_size - 1, block : Blocks \cup {EndOfList, NoBlock}]]
      BY <2>1, <2>2 DEF Inv, WorkOK, PoolTypes
    <3> QED BY <2>1, <2>2, <3>1 DEF Inv, WorkOK
  <2>4. Holding' = Holding /\ t \notin Holding
    BY <2>1, <2>2 DEF Holding
  <2>5. PoolShared'
    BY <2>1, <2>4, PoolSharedKept DEF Inv, Holding
  <2> QED BY <2>1, <2>3, <2>5 DEF Inv, PoolTypes, ListSteps, ContentOK, ResultsArriveIntact
<1> QED BY <1>1, <1>2

LEMMA ReadHeadStep ==
    ASSUME Inv, Locked, NEW t \in Threads, ReadHead(t)
    PROVE  Inv'
<1>1. /\ UNCHANGED <<head, link, content, ring, nextId, received, pc>> /\ at[t] = "want" /\ t \in Senders
      /\ DOMAIN at' = Threads /\ \A u \in Threads \ {t} : at'[u] = at[u] /\ held'[u] = held[u]
      /\ held' = [held EXCEPT ![t].block = head] /\ pc[t] = "cs"
      /\ at'[t] = IF head = EndOfList THEN "leave" ELSE "taking"
  BY DEF ReadHead, Goto, poolvars, bakeryvars, InMutex, Inv, WorkOK
<1>2. EndOfList \notin Blocks /\ t \notin Receivers /\ held'[t].block = head
      /\ head \in Blocks \cup {EndOfList}
  <2>1. head \in Blocks \cup {EndOfList}
    BY ListPop DEF Inv, PoolShared
  <2> QED BY <1>1, <2>1, ShmAssumption DEF EndOfList, Blocks, Inv, WorkOK
<1>3. WorkOK'
  <2>1. held' \in [Threads -> [id : Nat, size : 0 .. block_size - 1, block : Blocks \cup {EndOfList, NoBlock}]]
    BY <1>1, <1>2 DEF Inv, WorkOK
  <2> QED BY <1>1, <1>2, <2>1 DEF Inv, WorkOK
<1>4. Holding' = Holding /\ t \notin Holding
  BY <1>1, <1>2 DEF Holding
<1>5. PoolShared'
  BY <1>1, <1>4, PoolSharedKept DEF Inv, Holding
<1>6. ListSteps'
  BY <1>1, <1>2 DEF Inv, ListSteps
<1> QED BY <1>1, <1>3, <1>5, <1>6 DEF Inv, PoolTypes, ContentOK, ResultsArriveIntact

\* The head is a block, so that allocate does not leave the pool.
LEMMA TakeBlockStep ==
    ASSUME Inv, Locked, NEW t \in Threads, TakeBlock(t)
    PROVE  Inv'
<1>0. PICK F \in SUBSET Blocks : ListOf(head, link, F) /\ Shared(F, Holding, held, ring)
  BY DEF Inv, PoolShared
<1>1. PICK b : b = head
  OBVIOUS
<1>2. /\ at[t] = "taking" /\ pc[t] = "cs" /\ held[t].block = b /\ b \in F /\ b \in Blocks
      /\ ListOf(link[b], link, F \ {b})
  BY <1>0, <1>1, ListPop DEF TakeBlock, InMutex, Inv, ListSteps
<1>3. /\ UNCHANGED <<link, content, held, ring, nextId, received, pc>> /\ head' = link[b]
      /\ DOMAIN at' = Threads /\ \A u \in Threads \ {t} : at'[u] = at[u]
      /\ at'[t] = "leave" /\ t \in Senders /\ t \notin Receivers
  BY <1>2, ShmAssumption DEF TakeBlock, Goto, bakeryvars, Inv, WorkOK
<1>4. \A u \in Threads \ {t} : at[u] \notin {"taking", "returning"}
  BY <1>2 DEF Inv, WorkOK, Locked, MutualExclusion
<1>5. WorkOK' /\ ListSteps'
  BY <1>2, <1>3, <1>4 DEF Inv, WorkOK, ListSteps
<1>6. Holding' = Holding \cup {t} /\ t \notin Holding
  BY <1>2, <1>3 DEF Holding
<1>7. Shared(F \ {b}, Holding \cup {t}, held, ring)
  BY <1>0, <1>2, <1>6, BlocksChangeHands
<1>8. PoolShared'
  BY <1>2, <1>3, <1>6, <1>7, PoolSharedAfter
<1> QED BY <1>2, <1>3, <1>5, <1>8 DEF Inv, PoolTypes, ContentOK, ResultsArriveIntact

LEMMA RetryStep ==
    ASSUME Inv, NEW t \in Threads, Retry(t)
    PROVE  Inv'
<1>1. CASE Exit(t)
  BY <1>1, ExitStep
<1>2. CASE ~Exit(t)
  <2>1. /\ UNCHANGED <<head, link, content, held, ring, nextId, received, pc>> /\ at[t] = "retry" /\ at'[t] = "want"
        /\ DOMAIN at' = Threads /\ \A u \in Threads \ {t} : at'[u] = at[u]
        /\ t \in Senders /\ t \notin Receivers
    BY <1>2, ShmAssumption DEF Retry, Goto, poolvars, bakeryvars, Inv, WorkOK
  <2>2. WorkOK'
    BY <2>1 DEF Inv, WorkOK
  <2>3. Holding' = Holding
    BY <2>1 DEF Holding
  <2>4. PoolShared'
    BY <2>1, <2>3, PoolSharedKept DEF Inv
  <2> QED BY <2>1, <2>2, <2>4 DEF Inv, PoolTypes, ListSteps, ContentOK, ResultsArriveIntact
<1> QED BY <1>1, <1>2

\* Nobody else has the block that is written.
LEMMA CopyInStep ==
    ASSUME Inv, NEW t \in Threads, CopyIn(t)
    PROVE  Inv'
<1>1. PICK b : b = held[t].block
  OBVIOUS
<1>2. /\ UNCHANGED <<head, held, ring, nextId, received, pc>> /\ at[t] = "fill" /\ at'[t] = "push"
      /\ DOMAIN at' = Threads /\ \A u \in Threads \ {t} : at'[u] = at[u]
      /\ content' = [content EXCEPT ![b] = held[t].id]
      /\ t \in Senders /\ t \notin Receivers /\ b \in Blocks /\ t \in Holding
  BY <1>1, ShmAssumption DEF CopyIn, Goto, bakeryvars, Inv, WorkOK, Holding
<1>3. link' = link
  <2>1. held[t].size \in 0 .. block_size - 1 /\ block_size \in Nat
    BY ShmAssumption DEF Inv, WorkOK
  <2>2. ~(1 + held[t].size > block_size)
    BY <2>1
  <2> QED BY <2>2 DEF CopyIn
<1>4. WorkOK'
  BY <1>2 DEF Inv, WorkOK
<1>5. Holding' = Holding
  BY <1>2 DEF Holding
<1>6. PoolShared'
  BY <1>2, <1>3, <1>5, PoolSharedKept DEF Inv
<1>7. ContentOK'
  <2>1. /\ \A u \in Holding : held[u].block = b => u = t
        /\ \A r \in ring : r.block # b
    BY <1>1, <1>2 DEF Inv, PoolShared, Shared
  <2>2. \A u \in Threads : at[u] \in {"push", "copy"} => u \in Holding
    BY DEF Inv, WorkOK, Holding
  <2>3. \A c \in Blocks \ {b} : content'[c] = content[c]
    BY <1>2 DEF Inv, PoolTypes
  <2>4. content'[b] = held[t].id
    BY <1>2 DEF Inv, PoolTypes
  <2>5. \A u \in Threads : at'[u] \in {"push", "copy"} => content'[held[u].block] = held[u].id
    BY <1>1, <1>2, <2>1, <2>2, <2>3, <2>4 DEF Inv, ContentOK, WorkOK
  <2>6. \A r \in ring : content'[r.block] = r.id
    BY <2>1, <2>3 DEF Inv, ContentOK, WorkOK
  <2> QED BY <1>2, <2>5, <2>6 DEF Inv, ContentOK, ResultsArriveIntact
<1> QED BY <1>2, <1>3, <1>4, <1>6, <1>7 DEF Inv, PoolTypes, ListSteps

LEMMA PushResponseStep ==
    ASSUME Inv, NEW t \in Threads, PushResponse(t)
    PROVE  Inv'
<1>1. PICK r : r = held[t]
  OBVIOUS
<1>2. /\ UNCHANGED <<head, link, content, held, nextId, received, pc>> /\ ring' = ring \cup {r}
      /\ at[t] = "push" /\ at'[t] = "idle"
      /\ DOMAIN at' = Threads /\ \A u \in Threads \ {t} : at'[u] = at[u]
      /\ t \in Senders /\ t \notin Receivers /\ t \in Holding /\ r.block \in Blocks
  BY <1>1, ShmAssumption DEF PushResponse, Goto, poolvars, bakeryvars, Inv, WorkOK, Holding
<1>3. r \in [id : Nat, size : 0 .. block_size - 1, block : Blocks]
  BY <1>1, <1>2 DEF Inv, WorkOK
<1>4. WorkOK'
  BY <1>2, <1>3 DEF Inv, WorkOK
<1>5. Holding' = Holding \ {t}
  BY <1>2 DEF Holding
<1>6. PICK F \in SUBSET Blocks : ListOf(head, link, F) /\ Shared(F, Holding, held, ring)
  BY DEF Inv, PoolShared
<1>7. Shared(F, Holding \ {t}, held, ring \cup {r})
  BY <1>1, <1>2, <1>6, BlocksChangeHands
<1>8. PoolShared'
  BY <1>2, <1>5, <1>6, <1>7, PoolSharedAfter
<1>9. ContentOK'
  BY <1>1, <1>2 DEF Inv, ContentOK, ResultsArriveIntact
<1> QED BY <1>2, <1>4, <1>8, <1>9 DEF Inv, PoolTypes, ListSteps

LEMMA PopResponseStep ==
    ASSUME Inv, NEW t \in Threads, NEW r \in ring, PopResponse(t, r)
    PROVE  Inv'
<1>1. /\ UNCHANGED <<head, link, content, nextId, received, pc>> /\ ring' = ring \ {r}
      /\ at[t] = "idle" /\ at'[t] = "copy"
      /\ DOMAIN at' = Threads /\ \A u \in Threads \ {t} : at'[u] = at[u] /\ held'[u] = held[u]
      /\ held' = [held EXCEPT ![t] = r] /\ held'[t] = r
      /\ t \in Receivers /\ t \notin Senders /\ t \notin Holding
  BY ShmAssumption DEF PopResponse, Goto, poolvars, bakeryvars, Inv, WorkOK, Holding
<1>2. r \in [id : Nat, size : 0 .. block_size - 1, block : Blocks]
  BY DEF Inv, WorkOK
<1>3. WorkOK'
  <2>1. held' \in [Threads -> [id : Nat, size : 0 .. block_size - 1, block : Blocks \cup {EndOfList, NoBlock}]]
    BY <1>1, <1>2 DEF Inv, WorkOK
  <2> QED BY <1>1, <1>2, <2>1 DEF Inv, WorkOK
<1>4. Holding' = Holding \cup {t}
  BY <1>1 DEF Holding
<1>5. PICK F \in SUBSET Blocks : ListOf(head, link, F) /\ Shared(F, Holding, held, ring)
  BY DEF Inv, PoolShared
<1>6. Shared(F, Holding \cup {t}, held', ring \ {r})
  <2>1. \A u \in Holding : held'[u].block = held[u].block
    BY <1>1 DEF Holding
  <2>2. PICK e : e = held'
    OBVIOUS
  <2>3. /\ Shared(F, Holding, held, ring) /\ r \in ring /\ t \notin Holding /\ e[t].block = r.block
        /\ \A u \in Holding : e[u].block = held[u].block
    BY <1>1, <1>5, <2>1, <2>2
  <2>4. Shared(F, Holding \cup {t}, e, ring \ {r})
    BY <2>3, BlocksChangeHands
  <2> QED BY <2>2, <2>4
<1>7. PoolShared'
  BY <1>1, <1>4, <1>5, <1>6, PoolSharedAfter
<1>8. ContentOK'
  BY <1>1 DEF Inv, ContentOK, ResultsArriveIntact
<1> QED BY <1>1, <1>3, <1>7, <1>8 DEF Inv, PoolTypes, ListSteps

LEMMA CopyOutStep ==
    ASSUME Inv, NEW t \in Threads, CopyOut(t)
    PROVE  Inv'
<1>1. /\ UNCHANGED <<head, link, content, held, ring, nextId, pc>> /\ at[t] = "copy" /\ at'[t] = "want"
      /\ DOMAIN at' = Threads /\ \A u \in Threads \ {t} : at'[u] = at[u]
      /\ received' = received \cup {[id |-> held[t].id, content |-> content[held[t].block]]}
      /\ t \in Receivers /\ t \notin Senders
  BY ShmAssumption DEF CopyOut, Goto, poolvars, bakeryvars, Inv, WorkOK
<1>2. WorkOK'
  BY <1>1 DEF Inv, WorkOK
<1>3. Holding' = Holding
  BY <1>1 DEF Holding
<1>4. PoolShared'
  BY <1>1, <1>3, PoolSharedKept DEF Inv
<1>5. ContentOK'
  BY <1>1 DEF Inv, ContentOK, ResultsArriveIntact
<1> QED BY <1>1, <1>2, <1>4, <1>5 DEF Inv, PoolTypes, ListSteps

\* The link of a block that is held is not part of the list.
LEMMA WriteLinkStep ==
    ASSUME Inv, Locked, NEW t \in Threads, WriteLink(t)
    PROVE  Inv'
<1>0. PICK F \in SUBSET Blocks : ListOf(head, link, F) /\ Shared(F, Holding, held, ring)
  BY DEF Inv, PoolShared
<1>1. PICK b : b = held[t].block
  OBVIOUS
<1>2. /\ UNCHANGED <<head, content, held, ring, nextId, received, pc>>
      /\ link' = [link EXCEPT ![b] = head]
      /\ at[t] = "want" /\ pc[t] = "cs" /\ at'[t] = "returning"
      /\ DOMAIN at' = Threads /\ \A u \in Threads \ {t} : at'[u] = at[u]
      /\ t \in Receivers /\ t \notin Senders /\ b \in Blocks /\ t \in Holding
  BY <1>1, ShmAssumption DEF WriteLink, InMutex, Goto, bakeryvars, Inv, WorkOK, Holding
<1>3. WorkOK'
  BY <1>1, <1>2 DEF Inv, WorkOK
<1>4. ListSteps'
  <2>1. \A u \in Threads \ {t} : at[u] \notin {"taking", "returning"}
    BY <1>2 DEF Inv, WorkOK, Locked, MutualExclusion
  <2>2. link'[b] = head
    BY <1>2 DEF Inv, PoolTypes
  <2> QED BY <1>1, <1>2, <2>1, <2>2 DEF ListSteps
<1>5. Holding' = Holding
  BY <1>2 DEF Holding
<1>6. ListOf(head, link', F)
  <2>1. \A c \in F : link'[c] = link[c]
    BY <1>0, <1>1, <1>2 DEF Inv, PoolTypes, Shared
  <2> QED BY <1>0, <2>1, ListKept
<1>7. PoolShared'
  BY <1>0, <1>2, <1>5, <1>6, PoolSharedAfter
<1> QED BY <1>2, <1>3, <1>4, <1>7 DEF Inv, PoolTypes, ContentOK, ResultsArriveIntact

LEMMA WriteHeadStep ==
    ASSUME Inv, Locked, NEW t \in Threads, WriteHead(t)
    PROVE  Inv'
<1>0. PICK F \in SUBSET Blocks : ListOf(head, link, F) /\ Shared(F, Holding, held, ring)
  BY DEF Inv, PoolShared
<1>1. PICK b : b = held[t].block
  OBVIOUS
<1>2. /\ UNCHANGED <<link, content, held, ring, nextId, received, pc>> /\ head' = b
      /\ at[t] = "returning" /\ pc[t] = "cs" /\ at'[t] = "leave"
      /\ DOMAIN at' = Threads /\ \A u \in Threads \ {t} : at'[u] = at[u]
      /\ t \in Receivers /\ t \notin Senders /\ b \in Blocks /\ t \in Holding /\ link[b] = head
  BY <1>1, ShmAssumption DEF WriteHead, InMutex, Goto, bakeryvars, Inv, WorkOK, ListSteps, Holding
<1>3. WorkOK'
  BY <1>2 DEF Inv, WorkOK
<1>4. ListSteps'
  <2>1. \A u \in Threads \ {t} : at[u] \notin {"taking", "returning"}
    BY <1>2 DEF Inv, WorkOK, Locked, MutualExclusion
  <2> QED BY <1>2, <2>1 DEF ListSteps
<1>5. Holding' = Holding \ {t}
  BY <1>2 DEF Holding
<1>6. ListOf(b, link, F \cup {b})
  <2>1. b \in Blocks \ F
    BY <1>0, <1>1, <1>2 DEF Shared
  <2> QED BY <1>0, <1>2, <2>1, ListPush
<1>7. Shared(F \cup {b}, Holding \ {t}, held, ring)
  BY <1>0, <1>1, <1>2, BlocksChangeHands
<1>8. PoolShared'
  BY <1>2, <1>5, <1>6, <1>7, PoolSharedAfter
<1> QED BY <1>2, <1>3, <1>4, <1>8 DEF Inv, PoolTypes, ContentOK, ResultsArriveIntact

LEMMA ShmInvInit == ShmInit => Inv
<1> SUFFICES ASSUME ShmInit
             PROVE  Inv
  OBVIOUS
<1> USE DEF ShmInit
<1>1. /\ num_blocks \in Nat \ {0} /\ block_size \in Nat \ {0} /\ Senders \cap Receivers = {}
      /\ Blocks = 0 .. num_blocks - 1
  BY ShmAssumption DEF Blocks
<1>2. WorkOK
  BY <1>1 DEF WorkOK
<1>3. PoolShared
  <2>1. Holding = {} /\ ring = {}
    BY DEF Holding
  <2>2. Shared(Blocks, Holding, held, ring)
    BY <2>1 DEF Shared
  <2> QED BY <2>2, WholePool DEF PoolShared
<1>4. PoolTypes /\ ListSteps /\ ContentOK
  BY DEF PoolTypes, ListSteps, ContentOK, ResultsArriveIntact
<1> QED BY <1>2, <1>3, <1>4 DEF Inv

LEMMA InvStep == ResultsFit /\ Inv /\ Locked /\ [ShmNext]_shmvars => Inv'
<1> SUFFICES ASSUME ResultsFit, Inv, Locked, [ShmNext]_shmvars
             PROVE  Inv'
  OBVIOUS
<1>1. ASSUME NEW t \in Threads, LockThread(t)
      PROVE  Inv'
  BY <1>1, MutexSteps, ReleaseStep DEF LockThread
<1>2. ASSUME NEW t \in Threads, NEW size \in DataSizes, TakeResult(t, size)
      PROVE  Inv'
  BY <1>2, TakeResultStep
<1>3. ASSUME NEW t \in Threads, SendStep(t)
      PROVE  Inv'
  BY <1>3, ReadHeadStep, TakeBlockStep, RetryStep, CopyInStep, PushResponseStep DEF SendStep
<1>4. ASSUME NEW t \in Threads, Deserialize(t)
      PROVE  Inv'
  BY <1>4, PopResponseStep, CopyOutStep, WriteLinkStep, WriteHeadStep DEF Deserialize
<1>5. CASE UNCHANGED shmvars
  <2>1. Holding' = Holding /\ UNCHANGED <<head, link, content, at, held, ring, nextId, received, pc>>
    BY <1>5 DEF shmvars, bakeryvars, Holding
  <2>2. PoolShared'
    BY <2>1, PoolSharedKept DEF Inv
  <2> QED BY <2>1, <2>2 DEF Inv, PoolTypes, WorkOK, ListSteps, ContentOK, ResultsArriveIntact
<1> QED BY <1>1, <1>2, <1>3, <1>4, <1>5 DEF ShmNext

-----------------------------------------------------------------------------
(* The properties *)

\* Whatever the threads do with the blocks, with free_list_global_mutex they do
\* no more than BakeryMutex lets them.
THEOREM MutexIsUsedAsOne == ShmSpec => Spec
<1>1. ShmInit => Init
  BY DEF ShmInit
<1>2. [ShmNext]_shmvars => [Next]_bakeryvars
  <2> SUFFICES ASSUME [ShmNext]_shmvars
               PROVE  [Next]_bakeryvars
    OBVIOUS
  <2>1. ASSUME NEW t \in Threads, LockThread(t)
        PROVE  Next
    BY <2>1 DEF LockThread, CallLock, WaitForLock, ReleaseLock, Next
  <2>2. ASSUME NEW t \in Threads,
               (\E size \in DataSizes : TakeResult(t, size)) \/ SendStep(t) \/ Deserialize(t)
        PROVE  UNCHANGED bakeryvars
    BY <2>2 DEF TakeResult, SendStep, ReadHead, TakeBlock, Retry, CopyIn, PushResponse, Deserialize, PopResponse,
                CopyOut, WriteLink, WriteHead, Exit
  <2>3. CASE UNCHANGED shmvars
    BY <2>3 DEF shmvars
  <2> QED BY <2>1, <2>2, <2>3 DEF ShmNext
<1> QED BY <1>1, <1>2, PTL DEF ShmSpec, Spec

LEMMA ShmInvariance == OneThreadPerRank /\ ResultsFit => (ShmSpec => []Inv)
<1> SUFFICES ASSUME OneThreadPerRank, ResultsFit
             PROVE  ShmSpec => []Inv
  OBVIOUS
<1>1. Spec => []TypeInv
  BY TypeInvInit, TypeInvStep, PTL DEF Spec
<1>2. ShmSpec => []Locked
  BY <1>1, MutexIsUsedAsOne, Exclusion, PTL DEF Locked
<1>3. Inv /\ Locked /\ [ShmNext]_shmvars => Inv'
  BY InvStep
<1> QED BY <1>2, <1>3, ShmInvInit, PTL DEF ShmSpec

\* No block is lost or handed out twice, and the list never leaves the pool: at
\* every step of send_results and deserialize, those inside of the mutex
\* included, also when senders give up and exit.
THEOREM BlocksAreConserved == OneThreadPerRank /\ ResultsFit => (ShmSpec => []BlocksConserved)
<1>1. Inv => BlocksConserved
  <2> SUFFICES ASSUME Inv
               PROVE  BlocksConserved
    OBVIOUS
  <2>1. PICK F \in SUBSET Blocks : ListOf(head, link, F) /\ Shared(F, Holding, held, ring)
    BY DEF Inv, PoolShared
  <2>2. ListAt = Walk(head, link)
    BY DEF ListAt, Walk
  <2>3. ListIntact /\ FreeBlocks = F
    BY <2>1, <2>2, WalkEnds DEF ListIntact, FreeBlocks
  <2>4. ASSUME NEW b \in Blocks
        PROVE  Cardinality(HoldersOf(b)) = IF b \in FreeBlocks THEN 0 ELSE 1
    <3>1. HoldersOf(b) = {t \in Holding : held[t].block = b} \cup {r \in ring : r.block = b}
      BY <2>4, ShmAssumption DEF HoldersOf, Holding
    <3>2. CASE b \in F
      <4>1. HoldersOf(b) = {}
        BY <2>1, <3>1, <3>2 DEF Shared
      <4> QED BY <2>3, <3>2, <4>1, FS_EmptySet
    <3>3. CASE b \notin F
      <4>1. \E x : HoldersOf(b) = {x}
        <5>1. CASE \E t \in Holding : held[t].block = b
          <6>1. PICK t \in Holding : held[t].block = b
            BY <5>1
          <6>2. HoldersOf(b) = {t}
            BY <2>1, <3>1, <6>1 DEF Shared
          <6> QED BY <6>2
        <5>2. CASE \E r \in ring : r.block = b
          <6>1. PICK r \in ring : r.block = b
            BY <5>2
          <6>2. HoldersOf(b) = {r}
            BY <2>1, <3>1, <6>1 DEF Shared
          <6> QED BY <6>2
        <5> QED BY <2>1, <3>3, <5>1, <5>2 DEF Shared
      <4> QED BY <2>3, <3>3, <4>1, FS_Singleton
    <3> QED BY <3>2, <3>3
  <2> QED BY <2>3, <2>4 DEF BlocksConserved
<1> QED BY <1>1, ShmInvariance, PTL

\* The receiver of a response copies out what its sender has copied in, though
\* the block is neither locked while it is written nor while it is read.
THEOREM ResultsStayWhole == OneThreadPerRank /\ ResultsFit => (ShmSpec => []ResultsArriveIntact)
<1>1. Inv => ResultsArriveIntact
  BY DEF Inv, ContentOK
<1> QED BY <1>1, ShmInvariance, PTL
=============================================================================
