---------------------------- MODULE BakeryMutex -----------------------------
(***************************************************************************)
(* shared_memory/bakery_mutex.{hpp,cpp}: the mutex that the processes of   *)
(* one machine share through the shared memory segment.  Every load and    *)
(* store of the two arrays of atomics is a step of its own (they are       *)
(* sequentially consistent); the local variables of lock() belong to the   *)
(* calling thread.                                                         *)
(*                                                                         *)
(* A thread locks under the rank of its process, RankOf[t].  Nothing in    *)
(* the code stops two threads from using one rank, so the module does not  *)
(* assume that they differ: OneThreadPerRank names the case in which the   *)
(* algorithm is sound, and the theorems take it as their hypothesis.       *)
(***************************************************************************)
EXTENDS Naturals

CONSTANTS MAX_NUM_PROCESSES,   \* the length of the two arrays
          Threads,             \* the callers of lock()
          RankOf               \* the process_rank each of them passes

Ranks == 0 .. MAX_NUM_PROCESSES - 1

ASSUME BakeryAssumption ==
    /\ MAX_NUM_PROCESSES \in Nat \ {0}
    /\ RankOf \in [Threads -> Ranks]

OneThreadPerRank == \A t, u \in Threads : RankOf[t] = RankOf[u] => t = u

VARIABLES process_flags,     \* per rank: in the mutex or on the way to it
          process_tickets,   \* per rank: the last ticket drawn, never reset
          pc,                \* per thread: where it is in lock() / unlock()
          rank,              \* per thread: the index of the running loop
          largest_ticket,    \* per thread: the maximum found so far
          my_ticket          \* per thread: the ticket drawn

shared == <<process_flags, process_tickets>>
local  == <<pc, rank, largest_ticket, my_ticket>>
bakeryvars == <<process_flags, process_tickets, pc, rank, largest_ticket, my_ticket>>

TypeOK ==
    /\ process_flags \in [Ranks -> BOOLEAN]
    /\ process_tickets \in [Ranks -> Nat]
    /\ pc \in [Threads -> {"idle", "scan", "check", "spin", "compare", "cs"}]
    /\ rank \in [Threads -> 0 .. MAX_NUM_PROCESSES]
    /\ largest_ticket \in [Threads -> Nat]
    /\ my_ticket \in [Threads -> Nat]

\* The segment is constructed zeroed; no thread is inside lock().
Init ==
    /\ process_flags = [r \in Ranks |-> FALSE]
    /\ process_tickets = [r \in Ranks |-> 0]
    /\ pc = [t \in Threads |-> "idle"]
    /\ rank = [t \in Threads |-> 0]
    /\ largest_ticket = [t \in Threads |-> 0]
    /\ my_ticket = [t \in Threads |-> 0]

-----------------------------------------------------------------------------
(* lock() *)

\* The flag goes up before the tickets are read, and stays up until unlock().
SetFlag(t) ==
    /\ pc[t] = "idle"
    /\ process_flags' = [process_flags EXCEPT ![RankOf[t]] = TRUE]
    /\ pc' = [pc EXCEPT ![t] = "scan"]
    /\ rank' = [rank EXCEPT ![t] = 0]
    /\ largest_ticket' = [largest_ticket EXCEPT ![t] = 0]
    /\ UNCHANGED <<process_tickets, my_ticket>>

ReadTicket(t) ==
    /\ pc[t] = "scan"
    /\ rank[t] \in Ranks
    /\ largest_ticket' = [largest_ticket EXCEPT ![t] =
          IF process_tickets[rank[t]] > @ THEN process_tickets[rank[t]] ELSE @]
    /\ rank' = [rank EXCEPT ![t] = @ + 1]
    /\ UNCHANGED <<shared, pc, my_ticket>>

\* Variant: the ticket is the largest seen, not one more.
WriteTicketNoIncrement(t) ==
    /\ pc[t] = "scan"
    /\ rank[t] = MAX_NUM_PROCESSES
    /\ my_ticket' = [my_ticket EXCEPT ![t] = largest_ticket[t]]
    /\ process_tickets' = [process_tickets EXCEPT ![RankOf[t]] = largest_ticket[t]]
    /\ pc' = [pc EXCEPT ![t] = "check"]
    /\ rank' = [rank EXCEPT ![t] = 0]
    /\ UNCHANGED <<process_flags, largest_ticket>>

\* The ticket is one more than the largest seen, which others may draw too.
WriteTicket(t) ==
    /\ pc[t] = "scan"
    /\ rank[t] = MAX_NUM_PROCESSES
    /\ my_ticket' = [my_ticket EXCEPT ![t] = largest_ticket[t] + 1]
    /\ process_tickets' = [process_tickets EXCEPT ![RankOf[t]] = largest_ticket[t] + 1]
    /\ pc' = [pc EXCEPT ![t] = "check"]
    /\ rank' = [rank EXCEPT ![t] = 0]
    /\ UNCHANGED <<process_flags, largest_ticket>>

\* The waiting loop passes over the caller's own rank.
SkipSelf(t) ==
    /\ pc[t] = "check"
    /\ rank[t] = RankOf[t]
    /\ rank' = [rank EXCEPT ![t] = @ + 1]
    /\ UNCHANGED <<shared, pc, largest_ticket, my_ticket>>

PassOver(t) ==
    /\ pc' = [pc EXCEPT ![t] = "check"]
    /\ rank' = [rank EXCEPT ![t] = @ + 1]
    /\ UNCHANGED <<shared, largest_ticket, my_ticket>>

\* The first look at a rank's flag, and every later one while it is spun on.
CheckFlag(t) ==
    /\ \/ pc[t] = "check" /\ rank[t] \in Ranks \ {RankOf[t]}
       \/ pc[t] = "spin"
    /\ IF process_flags[rank[t]]
       THEN /\ pc' = [pc EXCEPT ![t] = IF @ = "check" THEN "spin" ELSE "compare"]
            /\ UNCHANGED <<shared, rank, largest_ticket, my_ticket>>
       ELSE PassOver(t)

\* Variants: equal tickets go first on both sides, or on neither.
ServedBeforeOnTies(ticket, r, otherTicket, otherRank) == ticket <= otherTicket

ServedBeforeNoTies(ticket, r, otherTicket, otherRank) == ticket < otherTicket

\* The order of the waiting loop: by ticket, equal tickets by rank.
ServedBefore(ticket, r, otherTicket, otherRank) ==
    \/ ticket < otherTicket
    \/ ticket = otherTicket /\ r < otherRank

\* Variant: the comparison the other way round.
CompareTicketReversed(t) ==
    /\ pc[t] = "compare"
    /\ IF ServedBefore(process_tickets[rank[t]], rank[t], my_ticket[t], RankOf[t])
       THEN PassOver(t)
       ELSE /\ pc' = [pc EXCEPT ![t] = "spin"]
            /\ UNCHANGED <<shared, rank, largest_ticket, my_ticket>>

CompareTicket(t) ==
    /\ pc[t] = "compare"
    /\ IF ServedBefore(my_ticket[t], RankOf[t], process_tickets[rank[t]], rank[t])
       THEN PassOver(t)
       ELSE /\ pc' = [pc EXCEPT ![t] = "spin"]
            /\ UNCHANGED <<shared, rank, largest_ticket, my_ticket>>

\* Variant: the waiting loop leaves out the last rank.
EnterBeforeLast(t) ==
    /\ pc[t] = "check"
    /\ rank[t] = MAX_NUM_PROCESSES - 1
    /\ pc' = [pc EXCEPT ![t] = "cs"]
    /\ UNCHANGED <<shared, rank, largest_ticket, my_ticket>>

\* lock() returns once every rank has been passed.
Enter(t) ==
    /\ pc[t] = "check"
    /\ rank[t] = MAX_NUM_PROCESSES
    /\ pc' = [pc EXCEPT ![t] = "cs"]
    /\ UNCHANGED <<shared, rank, largest_ticket, my_ticket>>

\* Variant: the flag stays up.
UnlockNoReset(t) ==
    /\ pc[t] = "cs"
    /\ pc' = [pc EXCEPT ![t] = "idle"]
    /\ UNCHANGED <<shared, rank, largest_ticket, my_ticket>>

(* unlock() lowers the flag and leaves the ticket where it is. *)
Unlock(t) ==
    /\ pc[t] = "cs"
    /\ process_flags' = [process_flags EXCEPT ![RankOf[t]] = FALSE]
    /\ pc' = [pc EXCEPT ![t] = "idle"]
    /\ UNCHANGED <<process_tickets, rank, largest_ticket, my_ticket>>

\* A step of a call of lock() that has begun.
LockStep(t) ==
    \/ ReadTicket(t)
    \/ WriteTicket(t)
    \/ SkipSelf(t)
    \/ CheckFlag(t)
    \/ CompareTicket(t)
    \/ Enter(t)

Next == \E t \in Threads : SetFlag(t) \/ LockStep(t) \/ Unlock(t)

Spec == Init /\ [][Next]_bakeryvars

\* The operating system schedules every thread; the code between lock() and
\* unlock() is finite, so unlock() is reached.  Nobody has to call lock().
Fairness == \A t \in Threads : WF_bakeryvars(LockStep(t)) /\ WF_bakeryvars(Unlock(t))

FairSpec == Spec /\ Fairness

-----------------------------------------------------------------------------
(* Properties *)

\* Two threads are never between lock() and unlock() at the same time: what
\* BakeryMutexGuard (bakery_mutex.cpp:66-75) is for.
MutualExclusion == \A t, u \in Threads : pc[t] = "cs" /\ pc[u] = "cs" => t = u

HasTicket(t) == pc[t] \in {"check", "spin", "compare", "cs"}

Precedes(t, u) ==
    ServedBefore(process_tickets[RankOf[t]], RankOf[t],
                 process_tickets[RankOf[u]], RankOf[u])

\* Whoever is in the mutex is served before every thread that has drawn its
\* ticket: the comparison of bakery_mutex.cpp:48 decides, whatever stale
\* tickets and lowered flags the waiting loop has seen.
ServedInTicketOrder ==
    \A t, u \in Threads :
        pc[t] = "cs" /\ HasTicket(u) /\ t # u =>
            Precedes(t, u)

\* The waiting loop of t cannot get past the rank it looks at, until that rank's
\* thread does something.
HeldUp(t) ==
    /\ pc[t] \in {"spin", "compare"}
    /\ process_flags[rank[t]]
    /\ ~ServedBefore(my_ticket[t], RankOf[t], process_tickets[rank[t]], rank[t])

\* The callers of lock() are never all held up by one another, though they draw
\* equal tickets and look at stale ones (bakery_mutex.cpp:36-52).
SomebodyIsNotHeldUp ==
    (\A t \in Threads : pc[t] # "idle" => HeldUp(t)) => \A t \in Threads : pc[t] = "idle"

(* The inductive invariant behind the two (with OneThreadPerRank).           *)

\* The loop index of the waiting loop names another rank while it is spun on.
LoopIndexOK ==
    \A t \in Threads : pc[t] \in {"spin", "compare"} => rank[t] \in Ranks \ {RankOf[t]}

\* A rank's entries of the two arrays are those of its one thread.
OwnEntry(t) ==
    /\ process_flags[RankOf[t]] <=> pc[t] # "idle"
    /\ HasTicket(t) => process_tickets[RankOf[t]] = my_ticket[t]
    /\ pc[t] = "scan" /\ rank[t] > RankOf[t] =>
          largest_ticket[t] >= process_tickets[RankOf[t]]

\* t's waiting loop is done with rank r.
Passed(t, r) ==
    \/ pc[t] = "cs"
    \/ pc[t] \in {"check", "spin", "compare"} /\ rank[t] > r

\* What t's passing of u is worth.  If u has a ticket, it comes after t's.  If
\* u is still looking for the largest ticket it will find t's, or has found
\* it, or will find its own stale one, which comes after t's as well.
Behind(t, u) ==
    t # u /\ Passed(t, RankOf[u]) =>
        /\ HasTicket(u) => Precedes(t, u)
        /\ pc[u] = "scan" =>
              \/ rank[u] <= RankOf[t]
              \/ largest_ticket[u] >= process_tickets[RankOf[t]]
              \/ Precedes(t, u) /\ rank[u] <= RankOf[u]

IInv ==
    /\ TypeOK
    /\ LoopIndexOK
    /\ \A t \in Threads : OwnEntry(t)
    /\ \A t, u \in Threads : Behind(t, u)

\* The bakery implements the lock its callers rely on.
Lock == INSTANCE RankLock WITH
    trying <- {t \in Threads : pc[t] \notin {"idle", "cs"}},
    owner  <- {t \in Threads : pc[t] = "cs"}

ImplementsLock == Lock!SafeSpec

\* Every thread that calls lock() returns from it.
EveryLockReturns == Lock!EveryRequestIsGranted
=============================================================================
