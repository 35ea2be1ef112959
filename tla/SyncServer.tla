----------------------------- MODULE SyncServer ------------------------------
(***************************************************************************)
(* sync_server: GetCollisions searches, calls its neighbours one after the *)
(* other, each call nested in the handler's, and returns what they all     *)
(* found.  A handler that runs is a frame, a call that has not begun to    *)
(* run is in calls; both are named by the client and the path of ranks the *)
(* query has come.  A result is the rank it is from, and collected counts  *)
(* how often each rank's result is in the answer.                          *)
(***************************************************************************)
EXTENDS Integers, SequencesExt

CONSTANTS NumRanks, logical_neighbors,
          Clients,        \* each calls rank 0 once
          MaxFailures,    \* bound on the calls that fail while they could succeed
          MaxRestarts     \* bound on the restarts of rank 0

Ranks == 0 .. NumRanks - 1

ASSUME SyncAssumption ==
    /\ NumRanks \in Nat \ {0}
    /\ logical_neighbors \in [Ranks -> Seq(Ranks \ {0})]
    /\ \A r \in Ranks : IsInjective(logical_neighbors[r])

VARIABLES counter, processedQueries,
          calls, frames,
          answers,             \* what each client has received
          failures, restarts,
          hurt                 \* history: the clients some call of which has failed

vars == <<counter, processedQueries, calls, frames, answers, failures, restarts, hurt>>

Nothing == [r \in Ranks |-> 0]

Added(a, b) == [r \in Ranks |-> a[r] + b[r]]

RankOf(key) == Last(key.path)

\* The neighbour a frame calls, or is waiting for.
Neighbour(key) == logical_neighbors[RankOf(key)][frames[key].next]

CalledBy(key) == [key EXCEPT !.path = Append(@, Neighbour(key))]

Init ==
    /\ counter = 0
    /\ processedQueries = [r \in Ranks |-> {}]
    /\ calls = {} /\ frames = <<>>
    /\ answers = [c \in Clients |-> [state |-> "none", results |-> Nothing]]
    /\ failures = 0 /\ restarts = 0
    /\ hurt = {}

\* client.cpp: the id it sends is 1, and no deadline is set.
Submit(c) ==
    /\ answers[c].state = "none"
    /\ answers' = [answers EXCEPT ![c].state = "called"]
    /\ calls' = calls \cup {[key |-> [client |-> c, path |-> <<0>>], id |-> 1]}
    /\ UNCHANGED <<counter, processedQueries, frames, failures, restarts, hurt>>

\* Whether the handler key.path ends in is still waited for by the one before it.
Awaited(key) ==
    LET caller == [key EXCEPT !.path = Front(@)]
    IN  /\ caller \in DOMAIN frames
        /\ frames[caller].waiting
        /\ CalledBy(caller) = key

\* A call has come back to a frame with some results: on to the next neighbour.
Resumed(frame, results) ==
    [frame EXCEPT !.next = @ + 1, !.waiting = FALSE, !.collected = Added(@, results)]

\* The status and the results of a handler, for whoever still waits for them.
Reply(key, results) ==
    LET caller == [key EXCEPT !.path = Front(@)]
        others == [k \in DOMAIN frames \ {key} |-> frames[k]]
    IN  IF Len(key.path) = 1
        THEN /\ answers' = [answers EXCEPT ![key.client] = [state |-> "answered", results |-> results]]
             /\ frames' = others
        ELSE /\ UNCHANGED answers
             /\ frames' = IF Awaited(key)
                          THEN [others EXCEPT ![caller] = Resumed(@, results)]
                          ELSE others

\* A handler begins: the query is known by an id, and is searched for.
Begin(call, id) ==
    /\ calls' = calls \ {call}
    /\ frames' = [k \in DOMAIN frames \cup {call.key} |->
                     IF k = call.key
                     THEN [id |-> id, next |-> 1, waiting |-> FALSE,
                           collected |-> [Nothing EXCEPT ![RankOf(k)] = 1]]
                     ELSE frames[k]]
    /\ UNCHANGED <<answers, failures, restarts, hurt>>

\* Variant: the counter stays.
NumberSame(call) ==
    /\ RankOf(call.key) = 0
    /\ UNCHANGED <<counter, processedQueries>>
    /\ Begin(call, counter)

\* Rank 0 gives the query its number.
Number(call) ==
    /\ RankOf(call.key) = 0
    /\ counter' = counter + 1 /\ UNCHANGED processedQueries
    /\ Begin(call, counter)

\* Variant: the query is not remembered.
AcceptOnly(call) ==
    LET r == RankOf(call.key)
    IN  /\ r # 0 /\ call.id \notin processedQueries[r]
        /\ UNCHANGED <<counter, processedQueries>>
        /\ Begin(call, call.id)

\* Variant: the guard of queryMutex lives as long as the handler.
AcceptUnderLock(call) ==
    LET r == RankOf(call.key)
    IN  /\ r # 0 /\ call.id \notin processedQueries[r]
        /\ \A key \in DOMAIN frames : RankOf(key) # r
        /\ processedQueries' = [processedQueries EXCEPT ![r] = @ \cup {call.id}]
        /\ UNCHANGED counter
        /\ Begin(call, call.id)

Accept(call) ==
    LET r == RankOf(call.key)
    IN  /\ r # 0 /\ call.id \notin processedQueries[r]
        /\ processedQueries' = [processedQueries EXCEPT ![r] = @ \cup {call.id}]
        /\ UNCHANGED counter
        /\ Begin(call, call.id)

\* ALREADY_EXISTS; queryPeer makes no results of it.
Reject(call) ==
    LET r == RankOf(call.key)
    IN  /\ r # 0 /\ call.id \in processedQueries[r]
        /\ calls' = calls \ {call}
        /\ Reply(call.key, Nothing)
        /\ UNCHANGED <<counter, processedQueries, failures, restarts, hurt>>

\* The loop over the neighbours.
QueryPeer(key) ==
    /\ ~frames[key].waiting
    /\ frames[key].next <= Len(logical_neighbors[RankOf(key)])
    /\ calls' = calls \cup {[key |-> CalledBy(key), id |-> frames[key].id]}
    /\ frames' = [frames EXCEPT ![key].waiting = TRUE]
    /\ UNCHANGED <<counter, processedQueries, answers, failures, restarts, hurt>>

Return(key) ==
    /\ ~frames[key].waiting
    /\ frames[key].next > Len(logical_neighbors[RankOf(key)])
    /\ Reply(key, frames[key].collected)
    /\ UNCHANGED <<counter, processedQueries, calls, failures, restarts, hurt>>

\* Nobody will answer the frame: what it waits for is gone with its process.
Abandoned(key) ==
    /\ frames[key].waiting
    /\ CalledBy(key) \notin DOMAIN frames
    /\ \A call \in calls : call.key # CalledBy(key)

\* The ten seconds are over, or the connection is: no results, and the next
\* neighbour.  What has been called may still run.
QueryPeerFails(key) ==
    /\ frames[key].waiting
    /\ IF Abandoned(key)
       THEN UNCHANGED failures
       ELSE failures < MaxFailures /\ failures' = failures + 1
    /\ frames' = [frames EXCEPT ![key] = Resumed(@, Nothing)]
    /\ hurt' = hurt \cup {key.client}
    /\ UNCHANGED <<counter, processedQueries, calls, answers, restarts>>

\* A call that nobody waits for any more need not be executed.
Cancel(call) ==
    /\ Len(call.key.path) > 1 /\ ~Awaited(call.key)
    /\ calls' = calls \ {call}
    /\ UNCHANGED <<counter, processedQueries, frames, answers, failures, restarts, hurt>>

\* Rank 0 ends and is started again: its clients see an error.
Restart ==
    /\ restarts < MaxRestarts
    /\ restarts' = restarts + 1
    /\ counter' = 0
    /\ frames' = [k \in {k \in DOMAIN frames : RankOf(k) # 0} |-> frames[k]]
    /\ calls' = {call \in calls : RankOf(call.key) # 0}
    /\ answers' = [c \in Clients |-> IF answers[c].state = "called"
                                      THEN [answers[c] EXCEPT !.state = "error"]
                                      ELSE answers[c]]
    /\ UNCHANGED <<processedQueries, failures, hurt>>

\* What the handlers of one client's query do.
Serve(c) ==
    \/ \E call \in calls : call.key.client = c /\ (Number(call) \/ Accept(call) \/ Reject(call))
    \/ \E key \in DOMAIN frames :
          key.client = c /\ (QueryPeer(key) \/ Return(key) \/ (Abandoned(key) /\ QueryPeerFails(key)))

Next ==
    \/ \E c \in Clients : Submit(c) \/ Serve(c)
    \/ \E key \in DOMAIN frames : QueryPeerFails(key)
    \/ \E call \in calls : Cancel(call)
    \/ Restart

Spec == Init /\ [][Next]_vars /\ \A c \in Clients : WF_vars(Serve(c))

-----------------------------------------------------------------------------
(* Properties *)

\* From rank 0 every rank can be reached.
EveryRankReachable ==
    \A S \in SUBSET Ranks :
        0 \in S /\ (\A r \in S : \A i \in 1 .. Len(logical_neighbors[r]) : logical_neighbors[r][i] \in S)
            => S = Ranks

Keys == [client : Clients, path : Seq(Ranks)]

Answered(c) == answers[c].state = "answered"

\* No rank's results are in an answer twice, though a rank may be reached by
\* several paths (the test of processedQueries), whatever calls fail.
EachRankOnce ==
    /\ \A c \in Clients : Answered(c) => \A r \in Ranks : answers[c].results[r] <= 1
    /\ \A key \in DOMAIN frames : \A r \in Ranks : frames[key].collected[r] <= 1

\* If none of its calls failed, an answer has the results of every rank: a path
\* on which a query is turned down never was the only one to the results.  This
\* ends with the first restart of rank 0, which numbers its queries from 0
\* again, while the other ranks remember the old numbers.
AnswersAreWhole ==
    restarts = 0 =>
        \A c \in Clients :
            Answered(c) /\ c \notin hurt => answers[c].results = [r \in Ranks |-> 1]

\* The query of c has come to rank r.  Rank 0 has it once it has its number.
HasCome(c, r) ==
    LET Known(id) == r = 0 \/ id \in processedQueries[r]
    IN  /\ answers[c].state # "none"
        /\ \A call \in calls : call.key.client = c => RankOf(call.key) # 0 /\ Known(call.id)
        /\ \A key \in DOMAIN frames : key.client = c => Known(frames[key].id)

\* What may be to do for a query: at every rank to begin (0), for each of its
\* neighbours to call it, to execute the call there and to wait for it, and to
\* return (behind the last).
Tasks == UNION {{r} \X (0 .. Len(logical_neighbors[r]) + 1) \X {"call", "execute", "wait"} : r \in Ranks}

\* The i-th of these is before the frame at rank r, or under way.
NotCalled(c, r, i) ==
    \E key \in DOMAIN frames :
        /\ key.client = c /\ RankOf(key) = r
        /\ frames[key].next < i \/ (frames[key].next = i /\ ~frames[key].waiting)

NotReturned(c, r, i) ==
    \E key \in DOMAIN frames : key.client = c /\ RankOf(key) = r /\ frames[key].next <= i

NotExecuted(c, r, i) ==
    \/ NotCalled(c, r, i)
    \/ \E call \in calls :
          /\ call.key.client = c /\ Len(call.key.path) # 1
          /\ i \in DOMAIN logical_neighbors[r]
          /\ RankOf([call.key EXCEPT !.path = Front(@)]) = r
          /\ RankOf(call.key) = logical_neighbors[r][i]

\* What is still to do for c.
Work(c) ==
    {task \in Tasks :
        LET r == task[1]
            i == task[2]
        IN  \/ ~HasCome(c, r)
            \/ task[3] = "call" /\ NotCalled(c, r, i)
            \/ task[3] = "execute" /\ NotExecuted(c, r, i)
            \/ task[3] = "wait" /\ NotReturned(c, r, i)}

\* No step adds to what is to be done, and each of those that are taken for a
\* client leaves less of it: around every cycle of neighbours its calls end
\* (sync_server.cpp:82), though some of them fail.
WorkShrinks ==
    [][\A c \in Clients : Work(c)' \subseteq Work(c) /\ (Serve(c) => Work(c)' # Work(c))]_vars

\* Every client gets an answer or an error, around every cycle of neighbours.
EveryCallReturns == \A c \in Clients : answers[c].state = "called" ~> answers[c].state \in {"answered", "error"}
=============================================================================
