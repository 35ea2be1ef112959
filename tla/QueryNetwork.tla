---------------------------- MODULE QueryNetwork ----------------------------
(***************************************************************************)
(* The scatter and gather of one query over the processes, as              *)
(* async_shm_server.cpp and collision_query_service_impl.cpp do it: rank 0 *)
(* numbers the query and opens an entry for it, every process searches its *)
(* own partition and passes the query on to its logical neighbours, and    *)
(* every result travels back along the requested_by list of the query that *)
(* caused it, through gRPC calls or the parent's shared memory ring.       *)
(*                                                                         *)
(* Queues are sets: several workers take from each and act on what they    *)
(* took in any order.  Two equal results in one queue count as one; where  *)
(* latestQueryIDs remembers every query there are none (EveryResultOnce),  *)
(* and elsewhere the second would be dropped.  A gRPC call is a message of *)
(* "calls" from the moment it is made; no caller looks at the status of    *)
(* one, so a call that returns, one that times out after it was delivered  *)
(* and one that times out before differ only in whether and when the       *)
(* message is delivered.                                                   *)
(* Pushing onto a full ring throws, which nothing catches: the process     *)
(* terminates.  async_server.cpp is the case in which no two ranks share a *)
(* node, but for the mutex of rank 0, which it does not have.              *)
(***************************************************************************)
EXTENDS Integers, Sequences, FiniteSets

CONSTANTS
    MaxQueries,                 \* bound on the queries clients send between restarts of rank 0
    MaxRestarts,                \* bound on the restarts of processes in all
    NumProcesses,               \* config: global.total_partitions
    LogicalNeighbors,           \* config: per rank, the ranks it queries, in order
    NodeOf,                     \* config: per rank, its ip
    ClientPaths,                \* the requested_by lists clients send
    REQUEST_WORKERS,            \* 4 threads in handle_pending_requests
    MAX_CONCURRENT_REQUESTS,    \* 100, capacity of pendingRequests
    MAX_CONCURRENT_RESPONSES,   \* 500, capacity of pendingResponses
    SHM_RESULTS,                \* 1000, capacity of a shared memory ring
    LATEST_QUERY_IDS            \* 100, capacity of latestQueryIDs

Ranks == 0 .. NumProcesses - 1

Queries == 1 .. MaxQueries

ASSUME NetworkAssumption ==
    /\ MaxQueries \in Nat /\ MaxRestarts \in Nat
    /\ NumProcesses \in Nat \ {0}
    /\ LogicalNeighbors \in [Ranks -> Seq(Ranks)]
    /\ DOMAIN NodeOf = Ranks
    /\ \A path \in ClientPaths :
          path \in Seq(Int) /\ \A i \in 1 .. Len(path) : path[i] \notin Ranks
    /\ {REQUEST_WORKERS, MAX_CONCURRENT_REQUESTS, MAX_CONCURRENT_RESPONSES,
        SHM_RESULTS, LATEST_QUERY_IDS} \subseteq Nat \ {0}

VARIABLES
    requestCounter,         \* rank 0: the next query's id
    pendingClientRequests,  \* rank 0: per open query, who answered with what
    latestQueryIDs,         \* per rank: the last queries accepted, oldest first
    pendingRequests,        \* per rank: queries to be handled
    requestWork,            \* per rank: queries being passed on, with the rest of the neighbours
    pendingResponses,       \* per rank: results to be sent on, or counted at rank 0
    shmResults,             \* per rank: its ring in shared memory
    calls,                  \* the gRPC calls not yet executed by their callee
    running,                \* per rank: FALSE once a push onto a full ring has thrown
    answers,                \* what clients have received since rank 0 was started
    restarts                \* how often a process has been restarted

vars == <<requestCounter, pendingClientRequests, latestQueryIDs, pendingRequests,
          requestWork, pendingResponses, shmResults, calls, running, answers, restarts>>

isSameNodeProcess(r, target) == NodeOf[r] = NodeOf[target]

LastOf(path) == path[Len(path)]
Parent(path) == path[Len(path) - 1]
PopBack(path) == SubSeq(path, 1, Len(path) - 1)

Requests  == [id : Nat, requested_by : Seq(Int)]
Responses == [id : Nat, requested_by : Seq(Int), results_from : Ranks]

Init ==
    /\ requestCounter = 1
    /\ pendingClientRequests = [id \in {} |-> {}]
    /\ latestQueryIDs = [r \in Ranks |-> <<>>]
    /\ pendingRequests = [r \in Ranks |-> {}]
    /\ requestWork = [r \in Ranks |-> {}]
    /\ pendingResponses = [r \in Ranks |-> {}]
    /\ shmResults = [r \in Ranks |-> {}]
    /\ calls = {}
    /\ running = [r \in Ranks |-> TRUE]
    /\ answers = [id \in {} |-> {}]
    /\ restarts = 0

-----------------------------------------------------------------------------
(* Ringbuffer::push, for the process that pushes. *)

\* Rank r pushes item onto ring[to], or throws and is gone.
Push(ring, to, item, capacity, r) ==
    IF Cardinality(ring[to]) < capacity
    THEN ring' = [ring EXCEPT ![to] = @ \cup {item}] /\ UNCHANGED running
    ELSE running' = [running EXCEPT ![r] = FALSE] /\ UNCHANGED ring

-----------------------------------------------------------------------------
(* Scatter *)

\* GetCollisionsCallData::Proceed: the query gets its id, its entry in the map
\* and its place in rank 0's queue.
GetCollisions(path) ==
    /\ running[0]
    /\ requestCounter \in Queries
    /\ requestCounter' = requestCounter + 1
    /\ pendingClientRequests' =
          [id \in DOMAIN pendingClientRequests \cup {requestCounter} |->
              IF id = requestCounter
              THEN [ranks |-> {}, collisions |-> [r \in Ranks |-> 0]]
              ELSE pendingClientRequests[id]]
    /\ Push(pendingRequests, 0, [id |-> requestCounter, requested_by |-> path],
            MAX_CONCURRENT_REQUESTS, 0)
    /\ UNCHANGED <<latestQueryIDs, requestWork, pendingResponses, shmResults, calls, answers, restarts>>

\* Variant: the loop ends before the last neighbour.
PassOnButLast(request, todo) ==
    IF Len(todo) <= 1 THEN {} ELSE {[request |-> request, todo |-> todo]}

\* The work that is left of a request; a worker with none is free again.
PassOn(request, todo) ==
    IF todo = <<>> THEN {} ELSE {[request |-> request, todo |-> todo]}

\* handle_pending_requests up to its loop: a worker takes a request, adds its
\* rank to the path, searches the partition and pushes its own result.
HandleRequest(r, request) ==
    LET mine == [request EXCEPT !.requested_by = Append(@, r)]
    IN  /\ running[r]
        /\ request \in pendingRequests[r]
        /\ Cardinality(requestWork[r]) < REQUEST_WORKERS
        /\ pendingRequests' = [pendingRequests EXCEPT ![r] = @ \ {request}]
        /\ Push(pendingResponses, r,
                [id |-> mine.id, requested_by |-> mine.requested_by, results_from |-> r],
                MAX_CONCURRENT_RESPONSES, r)
        /\ requestWork' = [requestWork EXCEPT ![r] = @ \cup PassOn(mine, LogicalNeighbors[r])]
        /\ UNCHANGED <<requestCounter, pendingClientRequests, latestQueryIDs, shmResults, calls, answers, restarts>>

\* One round of the loop: the next neighbour is queried, whatever became of
\* the call before.
QueryPeer(r, work) ==
    /\ running[r]
    /\ work \in requestWork[r]
    /\ calls' = calls \cup {[SendRequest |-> work.request, to |-> Head(work.todo)]}
    /\ requestWork' = [requestWork EXCEPT ![r] =
                          (@ \ {work}) \cup PassOn(work.request, Tail(work.todo))]
    /\ UNCHANGED <<requestCounter, pendingClientRequests, latestQueryIDs, pendingRequests,
                   pendingResponses, shmResults, running, answers, restarts>>

\* Variants: only the newest id is compared; no query is a duplicate.
isDuplicateOfNewest(r, id) == latestQueryIDs[r] # <<>> /\ LastOf(latestQueryIDs[r]) = id

isNeverDuplicate(r, id) == FALSE

isDuplicateQueryID(r, id) == \E i \in 1 .. Len(latestQueryIDs[r]) : latestQueryIDs[r][i] = id

appendQueryID(r, id) ==
    latestQueryIDs' = [latestQueryIDs EXCEPT ![r] =
        Append(IF Len(@) = LATEST_QUERY_IDS THEN Tail(@) ELSE @, id)]

\* SendRequestCallData::Proceed: a query among the last ones accepted is
\* dropped, any other is accepted.
SendRequest(call) ==
    LET r == call.to
    IN  /\ call \in calls
        /\ "SendRequest" \in DOMAIN call
        /\ running[r]
        /\ calls' = calls \ {call}
        /\ IF isDuplicateQueryID(r, call.SendRequest.id)
           THEN UNCHANGED <<latestQueryIDs, pendingRequests, running>>
           ELSE /\ appendQueryID(r, call.SendRequest.id)
                /\ Push(pendingRequests, r, call.SendRequest, MAX_CONCURRENT_REQUESTS, r)
        /\ UNCHANGED <<requestCounter, pendingClientRequests, requestWork,
                       pendingResponses, shmResults, answers, restarts>>

-----------------------------------------------------------------------------
(* Gather *)

\* SharedMemoryManager::send_results: off the path goes the sender, and onto
\* the parent's ring goes the response.
SendThroughSharedMemory(r, response) ==
    Push(shmResults, Parent(response.requested_by),
         [response EXCEPT !.requested_by = PopBack(@)], SHM_RESULTS, r)

\* handle_pending_responses away from rank 0: to the parent, through shared
\* memory if it is on this node, else through gRPC.
HandleResponse(r, response) ==
    LET parent == Parent(response.requested_by)
    IN  /\ running[r]
        /\ r # 0
        /\ response \in pendingResponses[r]
        /\ pendingResponses' = [pendingResponses EXCEPT ![r] = @ \ {response}]
        /\ IF isSameNodeProcess(r, parent)
           THEN SendThroughSharedMemory(r, response) /\ UNCHANGED calls
           ELSE /\ calls' = calls \cup {[ReceiveResponse |-> response, to |-> parent]}
                /\ UNCHANGED <<shmResults, running>>
        /\ UNCHANGED <<requestCounter, pendingClientRequests, latestQueryIDs,
                       pendingRequests, requestWork, answers, restarts>>

\* Variant: the sender stays on the path.
ReceiveResponseKeepsSender(call) ==
    LET r == call.to
    IN  /\ call \in calls
        /\ "ReceiveResponse" \in DOMAIN call
        /\ running[r]
        /\ calls' = calls \ {call}
        /\ Push(pendingResponses, r, call.ReceiveResponse, MAX_CONCURRENT_RESPONSES, r)
        /\ UNCHANGED <<requestCounter, pendingClientRequests, latestQueryIDs,
                       pendingRequests, requestWork, shmResults, answers, restarts>>

\* ReceiveResponseCallData::Proceed: the callee takes the sender off the path.
ReceiveResponse(call) ==
    LET r == call.to
    IN  /\ call \in calls
        /\ "ReceiveResponse" \in DOMAIN call
        /\ running[r]
        /\ calls' = calls \ {call}
        /\ Push(pendingResponses, r, [call.ReceiveResponse EXCEPT !.requested_by = PopBack(@)],
                MAX_CONCURRENT_RESPONSES, r)
        /\ UNCHANGED <<requestCounter, pendingClientRequests, latestQueryIDs,
                       pendingRequests, requestWork, shmResults, answers, restarts>>

\* handle_shared_memory_pending_responses: a response goes on to a parent on
\* this node as it is, and otherwise becomes a pending response of this rank.
HandleSharedMemoryResponse(r, response) ==
    /\ running[r]
    /\ response \in shmResults[r]
    /\ IF r # 0 /\ isSameNodeProcess(r, Parent(response.requested_by))
       THEN /\ LET parent == Parent(response.requested_by)
                   forwarded == [response EXCEPT !.requested_by = PopBack(@)]
                   popped == [shmResults EXCEPT ![r] = @ \ {response}]
               IN  IF Cardinality(popped[parent]) < SHM_RESULTS
                   THEN /\ shmResults' = [popped EXCEPT ![parent] = @ \cup {forwarded}]
                        /\ UNCHANGED running
                   ELSE /\ shmResults' = popped
                        /\ running' = [running EXCEPT ![r] = FALSE]
            /\ UNCHANGED pendingResponses
       ELSE /\ shmResults' = [shmResults EXCEPT ![r] = @ \ {response}]
            /\ Push(pendingResponses, r, response, MAX_CONCURRENT_RESPONSES, r)
    /\ UNCHANGED <<requestCounter, pendingClientRequests, latestQueryIDs,
                   pendingRequests, requestWork, calls, answers, restarts>>

\* A result is added to its query's entry.
Count(request, from) ==
    [ranks |-> request.ranks \cup {from},
     collisions |-> [request.collisions EXCEPT ![from] = @ + 1]]

\* Variant: a rank's second result is taken as well.
WantedTwice(id, from) == id \in DOMAIN pendingClientRequests

\* The entry is there and has nothing from this rank yet.
Wanted(id, from) ==
    /\ id \in DOMAIN pendingClientRequests
    /\ from \notin pendingClientRequests[id].ranks

\* The client is answered and the entry erased.
CompleteRequest(id, entry) ==
    /\ answers' = [q \in DOMAIN answers \cup {id} |->
                      IF q = id THEN entry.collisions ELSE answers[q]]
    /\ pendingClientRequests' =
          [q \in DOMAIN pendingClientRequests \ {id} |-> pendingClientRequests[q]]

\* handle_client_pending_responses at rank 0: results of unknown queries and
\* second results of one rank are dropped; the result that makes every rank
\* present completes the call.
HandleClientResponse(response) ==
    LET id == response.id
        from == response.results_from
        entry == Count(pendingClientRequests[id], from)
    IN  /\ running[0]
        /\ response \in pendingResponses[0]
        /\ pendingResponses' = [pendingResponses EXCEPT ![0] = @ \ {response}]
        /\ IF ~Wanted(id, from)
           THEN UNCHANGED <<pendingClientRequests, answers>>
           ELSE IF Cardinality(entry.ranks) = NumProcesses
           THEN CompleteRequest(id, entry)
           ELSE /\ pendingClientRequests' = [pendingClientRequests EXCEPT ![id] = entry]
                /\ UNCHANGED answers
        /\ UNCHANGED <<requestCounter, latestQueryIDs, pendingRequests, requestWork,
                       shmResults, calls, running, restarts>>

\* A call fails before its callee executes it; nobody repeats it.
LoseCall(call) ==
    /\ call \in calls
    /\ calls' = calls \ {call}
    /\ UNCHANGED <<requestCounter, pendingClientRequests, latestQueryIDs, pendingRequests,
                   requestWork, pendingResponses, shmResults, running, answers, restarts>>

\* A process that has stopped or terminated is started again, and remembers
\* nothing.  The process is alone on its node: one that is stopped takes the
\* segment of shared memory with it (ShmLifecycle), and after it has been started
\* again the others of its node and it have different ones.  Calls that are under
\* way may still come to it, or from it.
Restart(r) ==
    /\ restarts < MaxRestarts
    /\ \A other \in Ranks \ {r} : ~isSameNodeProcess(r, other)
    /\ restarts' = restarts + 1
    /\ running' = [running EXCEPT ![r] = TRUE]
    /\ latestQueryIDs' = [latestQueryIDs EXCEPT ![r] = <<>>]
    /\ pendingRequests' = [pendingRequests EXCEPT ![r] = {}]
    /\ requestWork' = [requestWork EXCEPT ![r] = {}]
    /\ pendingResponses' = [pendingResponses EXCEPT ![r] = {}]
    /\ shmResults' = [shmResults EXCEPT ![r] = {}]
    /\ IF r = 0
       THEN /\ requestCounter' = 1
            /\ pendingClientRequests' = [id \in {} |-> {}]
            /\ answers' = [id \in {} |-> {}]
       ELSE UNCHANGED <<requestCounter, pendingClientRequests, answers>>
    /\ UNCHANGED calls

-----------------------------------------------------------------------------
\* What the threads of rank r do, and its completion queue loop.
RequestWorker(r) ==
    \/ \E request \in pendingRequests[r] : HandleRequest(r, request)
    \/ \E work \in requestWork[r] : QueryPeer(r, work)

ResponseWorker(r) ==
    \/ \E response \in pendingResponses[r] : HandleResponse(r, response)
    \/ r = 0 /\ \E response \in pendingResponses[0] : HandleClientResponse(response)

ShmResponseWorker(r) == \E response \in shmResults[r] : HandleSharedMemoryResponse(r, response)

HandleRpcs(r) ==
    \E call \in calls : call.to = r /\ (SendRequest(call) \/ ReceiveResponse(call))

Process(r) == RequestWorker(r) \/ ResponseWorker(r) \/ ShmResponseWorker(r) \/ HandleRpcs(r)

Submit == \E path \in ClientPaths : GetCollisions(path)

Next ==
    \/ Submit
    \/ \E r \in Ranks : Process(r)
    \/ \E call \in calls : LoseCall(call)
    \/ \E r \in Ranks : Restart(r)

Spec == Init /\ [][Next]_vars

\* No call fails, and every thread that has something to do does it: the
\* workers block only on their own queues and on calls with a deadline.
ReliableNext == Submit \/ \E r \in Ranks : Process(r)

WorkersRun ==
    \A r \in Ranks :
        /\ WF_vars(RequestWorker(r))
        /\ WF_vars(ResponseWorker(r))
        /\ WF_vars(ShmResponseWorker(r))
        /\ WF_vars(HandleRpcs(r))

ReliableSpec == Init /\ [][ReliableNext]_vars /\ WorkersRun

-----------------------------------------------------------------------------
(* Properties *)

\* Every rank on a path but the first got the query from the one before it,
\* and the path ends with the rank that holds the message.
RouteOf(path, r) ==
    /\ Len(path) > 0
    /\ LastOf(path) = r
    /\ \A i \in 1 .. Len(path) : path[i] \in Ranks \ {0} =>
          /\ i > 1
          /\ path[i - 1] \in Ranks
          /\ \E j \in 1 .. Len(LogicalNeighbors[path[i - 1]]) :
                LogicalNeighbors[path[i - 1]][j] = path[i]

\* A response is always held by the last rank of its requested_by list, or on
\* its way from there to the one before, so that *(requested_by.end() - 2) in
\* async_shm_server.cpp:301 and :336 is the process that sent the query here.
ResponsesFollowTheirRoute ==
    /\ \A r \in Ranks : \A response \in pendingResponses[r] \cup shmResults[r] :
          RouteOf(response.requested_by, r)
    /\ \A call \in calls : "ReceiveResponse" \in DOMAIN call =>
          LET path == call.ReceiveResponse.requested_by
          IN  /\ LastOf(path) # 0
              /\ RouteOf(path, LastOf(path))
              /\ call.to = Parent(path)

\* The answers are those of the service: one per query, complete, and with no
\* result taken twice, over whatever routes and how often results arrive.
Service == INSTANCE QueryService WITH
    open   <- DOMAIN pendingClientRequests,
    answer <- answers

ImplementsService == Service!SafeSpec

\* The responses held or travelling, each with the place it is at.
UnderWay ==
    (UNION {{<<"pendingResponses", r, m>> : m \in pendingResponses[r]} : r \in Ranks})
    \cup (UNION {{<<"shmResults", r, m>> : m \in shmResults[r]} : r \in Ranks})
    \cup {<<"calls", c.to, c.ReceiveResponse>> :
             c \in {d \in calls : "ReceiveResponse" \in DOMAIN d}}

\* Every query that gets an id gets its answer.
EveryQueryIsAnswered == Service!EveryQueryIsAnswered

\* As long as latestQueryIDs remembers every query that is still being passed
\* around, a rank's result for a query exists once: it is on its way or it has
\* been counted, and nothing is left of a query that has been answered.  So
\* MAX_CONCURRENT_RESPONSES, "5 * MAX_CONCURRENT_REQUESTS"
\* (collision_query_service_impl.hpp:37), is room enough for the results of
\* MAX_CONCURRENT_REQUESTS queries.
EveryResultOnce ==
    \A id \in Queries, from \in Ranks :
        LET mine == {u \in UnderWay : u[3].id = id /\ u[3].results_from = from}
            counted == \/ id \in DOMAIN answers
                       \/ /\ id \in DOMAIN pendingClientRequests
                          /\ from \in pendingClientRequests[id].ranks
        IN  Cardinality(mine) <= IF counted THEN 0 ELSE 1

\* With no more clients at a time than MAX_CONCURRENT_REQUESTS nothing is ever
\* pushed onto a full ring, which would terminate the process that pushes.
NoRingOverflows == \A r \in Ranks : running[r]
=============================================================================
