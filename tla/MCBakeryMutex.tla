--------------------------- MODULE MCBakeryMutex ----------------------------
(* BakeryMutex for TLC: tickets are capped where a call of lock() begins,    *)
(* and a history variable records the threads each caller found waiting.     *)
EXTENDS BakeryMutex, FiniteSets

CONSTANT MaxTicket   \* no call of lock() begins once a ticket is this large

VARIABLE ahead       \* per thread: those that had their ticket when it came

mcvars == <<process_flags, process_tickets, pc, rank, largest_ticket, my_ticket, ahead>>

MCRankOf == [t \in Threads |-> t]

Waiting == {u \in Threads : pc[u] \in {"check", "spin", "compare"}}

MCInit == Init /\ ahead = [t \in Threads |-> {}]

Arrive(t) ==
    /\ \A r \in Ranks : process_tickets[r] < MaxTicket
    /\ SetFlag(t)
    /\ ahead' = [ahead EXCEPT ![t] = Waiting]

Advance(t) ==
    /\ LockStep(t)
    /\ ahead' = IF pc'[t] = "cs" THEN [u \in Threads |-> ahead[u] \ {t}] ELSE ahead

Leave(t) == Unlock(t) /\ UNCHANGED ahead

\* Everyone idle with the tickets at their cap: the end of the instance.
Exhausted ==
    /\ \A t \in Threads : pc[t] = "idle"
    /\ \E r \in Ranks : process_tickets[r] >= MaxTicket
    /\ UNCHANGED mcvars

MCNext == (\E t \in Threads : Arrive(t) \/ Advance(t) \/ Leave(t)) \/ Exhausted

MCSpec ==
    /\ MCInit
    /\ [][MCNext]_mcvars
    /\ \A t \in Threads : WF_mcvars(Advance(t)) /\ WF_mcvars(Leave(t))

\* A thread that calls lock() after another has drawn its ticket does not get
\* the mutex before it, although lock() never resets a ticket
\* (bakery_mutex.cpp:26-27 against :59-60).
FirstComeFirstServed == \A t \in Threads : pc[t] = "cs" => ahead[t] = {}
=============================================================================
