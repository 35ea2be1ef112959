--------------------------- MODULE MCQueryNetwork ---------------------------
(* QueryNetwork on small topologies, with a bound on the clients at a time.  *)
EXTENDS QueryNetwork, TLC

CONSTANT MaxClients   \* clients that wait for an answer at the same time

\* config/new-config.yaml: 0 -> 1 -> {2, 3} -> 4, rank 0 listens on 0.0.0.0.
ConfigNeighbors == 0 :> <<1>> @@ 1 :> <<2, 3>> @@ 2 :> <<4>> @@ 3 :> <<4>> @@ 4 :> <<>>
ConfigNodes     == [r \in 0 .. 4 |-> IF r = 0 THEN "0.0.0.0" ELSE "127.0.0.1"]

\* Three ranks, the last with two ways to be reached.
TriangleNeighbors == 0 :> <<1, 2>> @@ 1 :> <<2>> @@ 2 :> <<>>
RootApart         == [r \in 0 .. 2 |-> IF r = 0 THEN "0.0.0.0" ELSE "127.0.0.1"]

\* client.py sends no requested_by, client.cpp the largest uint32 (here -1).
PythonClient == {<<>>}
CppClient    == {<<-1>>}

\* Over the neighbours rank 0 reaches everybody.
EveryRankReachable ==
    \A S \in SUBSET Ranks :
        0 \in S /\ (\A r \in S : \A i \in 1 .. Len(LogicalNeighbors[r]) : LogicalNeighbors[r][i] \in S)
        => S = Ranks

\* No rank has a neighbour twice.
NeighboursOnce ==
    \A r \in Ranks : \A i, j \in 1 .. Len(LogicalNeighbors[r]) :
        LogicalNeighbors[r][i] = LogicalNeighbors[r][j] => i = j

\* The instances are among those NothingIsForgotten and QueriesEnd
\* (QueryNetworkProofs) are about.
ASSUME TopologyAssumption == EveryRankReachable /\ NeighboursOnce

SubmitBounded ==
    /\ Cardinality(DOMAIN pendingClientRequests) < MaxClients
    /\ Submit

\* Every query of the instance has been sent, and nothing is left to do.
Finished ==
    /\ requestCounter > MaxQueries
    /\ calls = {}
    /\ \A r \in Ranks : UNION {pendingRequests[r], requestWork[r],
                               pendingResponses[r], shmResults[r]} = {}
    /\ UNCHANGED vars

MCNext ==
    \/ SubmitBounded
    \/ \E r \in Ranks : Process(r)
    \/ \E call \in calls : LoseCall(call)
    \/ \E r \in Ranks : Restart(r)
    \/ Finished

MCSpec == Init /\ [][MCNext]_vars

MCReliableNext ==
    \/ SubmitBounded
    \/ \E r \in Ranks : Process(r)
    \/ Finished

MCReliableSpec == Init /\ [][MCReliableNext]_vars /\ WorkersRun
=============================================================================
