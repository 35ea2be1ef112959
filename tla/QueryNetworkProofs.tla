------------------------- MODULE QueryNetworkProofs --------------------------
(***************************************************************************)
(* For any topology, any number of queries and any capacities, with lost   *)
(* calls, restarts and processes that terminate: a response never leaves   *)
(* the route of its query, and the servers implement QueryService.  Where  *)
(* no process forgets the queries it has seen, every result exists once,   *)
(* and where its rings also have room for the clients that wait, no push   *)
(* throws, and, when no call fails, no query is forgotten; every step is   *)
(* one of finitely many tasks, and leaves no new one.                      *)
(***************************************************************************)
EXTENDS MCQueryNetwork, SequenceTheorems, FiniteSetTheorems, TLAPS

(* The invariant *)

IsRequest(m) == m.id \in Nat /\ m.requested_by \in Seq(Int)

IsResponse(m) == IsRequest(m) /\ m.results_from \in Ranks

\* A query rank r has, or is to get: r has been asked by the one before it on the path.
RequestFor(m, r) == IsRequest(m) /\ RouteOf(Append(m.requested_by, r), r)

\* Rank r asks none but its neighbours.
WorkOf(w, r) ==
    /\ IsRequest(w.request) /\ RouteOf(w.request.requested_by, r)
    /\ w.todo \in Seq(Ranks) /\ w.todo # <<>>
    /\ \A i \in 1 .. Len(w.todo) :
          \E j \in 1 .. Len(LogicalNeighbors[r]) : LogicalNeighbors[r][j] = w.todo[i]

ResponseAt(m, r) == IsResponse(m) /\ RouteOf(m.requested_by, r)

Asks(call) == "SendRequest" \in DOMAIN call

Replies(call) == "ReceiveResponse" \in DOMAIN call

CallOnRoute(call) ==
    /\ call.to \in Ranks
    /\ Asks(call) => RequestFor(call.SendRequest, call.to)
    /\ Replies(call) =>
          LET m == call.ReceiveResponse
          IN  \E r \in Ranks \ {0} : ResponseAt(m, r) /\ call.to = Parent(m.requested_by)

RoutesOK ==
    /\ requestCounter \in Nat
    /\ DOMAIN pendingRequests = Ranks /\ DOMAIN requestWork = Ranks
    /\ DOMAIN pendingResponses = Ranks /\ DOMAIN shmResults = Ranks
    /\ \A r \in Ranks : \A m \in pendingRequests[r] : RequestFor(m, r)
    /\ \A r \in Ranks : \A w \in requestWork[r] : WorkOf(w, r)
    /\ \A r \in Ranks : \A m \in pendingResponses[r] : ResponseAt(m, r)
    /\ \A r \in Ranks : \A m \in shmResults[r] : ResponseAt(m, r)
    /\ \A call \in calls : CallOnRoute(call)

-----------------------------------------------------------------------------
(* Paths *)

LEMMA RankFacts ==
    /\ NumProcesses \in Nat \ {0} /\ 0 \in Ranks /\ Ranks \subseteq Nat
    /\ \A r \in Ranks : LogicalNeighbors[r] \in Seq(Ranks)
BY NetworkAssumption DEF Ranks

\* A query that goes to a neighbour stays on its route.
LEMMA RouteToNeighbour ==
    ASSUME NEW path \in Seq(Int), NEW r \in Ranks, RouteOf(path, r), NEW n \in Ranks,
           \E j \in 1 .. Len(LogicalNeighbors[r]) : LogicalNeighbors[r][j] = n
    PROVE  RouteOf(Append(path, n), n)
<1>1. /\ Len(path) \in Nat \ {0} /\ path[Len(path)] = r
      /\ \A i \in 1 .. Len(path) : path[i] \in Ranks \ {0} =>
            /\ i > 1 /\ path[i - 1] \in Ranks
            /\ \E j \in 1 .. Len(LogicalNeighbors[path[i - 1]]) :
                  LogicalNeighbors[path[i - 1]][j] = path[i]
  BY DEF RouteOf, LastOf
<1> DEFINE q == Append(path, n)
<1>2. /\ Len(q) = Len(path) + 1 /\ q[Len(path) + 1] = n
      /\ \A i \in 1 .. Len(path) : q[i] = path[i]
  BY RankFacts
<1> HIDE DEF q
<1>3. ASSUME NEW i \in 1 .. Len(q), q[i] \in Ranks \ {0}
      PROVE  /\ i > 1 /\ q[i - 1] \in Ranks
             /\ \E j \in 1 .. Len(LogicalNeighbors[q[i - 1]]) : LogicalNeighbors[q[i - 1]][j] = q[i]
  <2>1. CASE i = Len(path) + 1
    <3>1. i > 1 /\ i - 1 = Len(path) /\ q[i - 1] = r /\ q[i] = n
      BY <1>1, <1>2, <2>1
    <3> QED BY <3>1
  <2>2. CASE i # Len(path) + 1
    <3>1. i \in 1 .. Len(path)
      BY <1>1, <1>2, <2>2
    <3>2. q[i] = path[i] /\ path[i] \in Ranks \ {0}
      BY <1>2, <1>3, <3>1
    <3>3. /\ i > 1 /\ path[i - 1] \in Ranks
          /\ \E j \in 1 .. Len(LogicalNeighbors[path[i - 1]]) : LogicalNeighbors[path[i - 1]][j] = path[i]
      BY <1>1, <3>1, <3>2
    <3>4. i - 1 \in 1 .. Len(path)
      <4>1. Len(path) \in Nat /\ i > 1
        BY <1>1, <3>3
      <4> QED BY <3>1, <4>1
    <3>5. q[i - 1] = path[i - 1]
      BY <1>2, <3>4
    <3> QED BY <3>2, <3>3, <3>5
  <2> QED BY <2>1, <2>2
<1>4. Len(q) > 0 /\ q[Len(q)] = n
  BY <1>1, <1>2
<1>5. RouteOf(q, n)
  BY <1>3, <1>4 DEF RouteOf, LastOf
<1> QED BY <1>5 DEF q

\* A response that goes back stays on its route.
LEMMA RouteToParent ==
    ASSUME NEW path \in Seq(Int), NEW r \in Ranks \ {0}, RouteOf(path, r)
    PROVE  /\ Parent(path) \in Ranks
           /\ PopBack(path) \in Seq(Int) /\ RouteOf(PopBack(path), Parent(path))
<1>1. /\ Len(path) \in Nat \ {0} /\ path[Len(path)] = r
      /\ \A i \in 1 .. Len(path) : path[i] \in Ranks \ {0} =>
            /\ i > 1 /\ path[i - 1] \in Ranks
            /\ \E j \in 1 .. Len(LogicalNeighbors[path[i - 1]]) :
                  LogicalNeighbors[path[i - 1]][j] = path[i]
  BY DEF RouteOf, LastOf
<1>2. Len(path) > 1 /\ path[Len(path) - 1] \in Ranks
  <2>1. Len(path) \in 1 .. Len(path) /\ path[Len(path)] \in Ranks \ {0}
    BY <1>1
  <2> QED BY <1>1, <2>1
<1> DEFINE m == Len(path) - 1
           q == SubSeq(path, 1, m)
<1>3. m \in Nat \ {0} /\ m < Len(path) /\ m - 1 + 1 = m
  <2>1. \A n \in Nat : n > 1 => n - 1 \in Nat \ {0} /\ n - 1 < n /\ (n - 1) - 1 + 1 = n - 1
    OBVIOUS
  <2> QED BY <1>1, <1>2, <2>1
<1>4. \A i \in 1 .. m : path[i] \in Int /\ i \in 1 .. Len(path)
  BY <1>1, <1>3, ElementOfSeq
<1> HIDE DEF m
<1>5. q \in Seq(Int) /\ Len(q) = m /\ \A i \in 1 .. m : q[i] = path[i]
  <2>1. /\ q \in Seq(Int) /\ Len(q) = IF 1 <= m THEN m - 1 + 1 ELSE 0
        /\ \A i \in 1 .. m - 1 + 1 : q[i] = path[1 + i - 1]
    BY <1>3, <1>4, SubSeqProperties
  <2> QED BY <1>3, <2>1
<1> HIDE DEF q
<1>6. Parent(path) = path[m] /\ PopBack(path) = q
  BY DEF Parent, PopBack, m, q
<1>7. ASSUME NEW i \in 1 .. Len(q), q[i] \in Ranks \ {0}
      PROVE  /\ i > 1 /\ q[i - 1] \in Ranks
             /\ \E j \in 1 .. Len(LogicalNeighbors[q[i - 1]]) : LogicalNeighbors[q[i - 1]][j] = q[i]
  <2>1. i \in 1 .. Len(path) /\ q[i] = path[i] /\ i > 1 /\ path[i - 1] \in Ranks
    BY <1>1, <1>4, <1>5, <1>7
  <2>2. i - 1 \in 1 .. m /\ q[i - 1] = path[i - 1]
    BY <1>3, <1>5, <2>1
  <2> QED BY <1>1, <1>7, <2>1, <2>2
<1>8. Len(q) > 0 /\ q[Len(q)] = path[m]
  BY <1>3, <1>5
<1>9. RouteOf(q, path[m])
  BY <1>7, <1>8 DEF RouteOf, LastOf
<1> QED BY <1>2, <1>5, <1>6, <1>9 DEF m

\* The path a client sends, with rank 0 behind it, is a route.
LEMMA RouteFromClient ==
    ASSUME NEW path \in ClientPaths
    PROVE  path \in Seq(Int) /\ RouteOf(Append(path, 0), 0)
<1>1. path \in Seq(Int) /\ \A i \in 1 .. Len(path) : path[i] \notin Ranks
  BY NetworkAssumption
<1> DEFINE q == Append(path, 0)
<1>2. /\ Len(q) = Len(path) + 1 /\ q[Len(path) + 1] = 0 /\ Len(path) \in Nat
      /\ \A i \in 1 .. Len(path) : q[i] = path[i]
  BY <1>1
<1> HIDE DEF q
<1>3. ~ \E i \in 1 .. Len(q) : q[i] \in Ranks \ {0}
  BY <1>1, <1>2
<1>4. RouteOf(q, 0)
  BY <1>2, <1>3 DEF RouteOf, LastOf
<1> QED BY <1>1, <1>4 DEF q

-----------------------------------------------------------------------------
(* Routes *)

LEMMA RoutesInit == Init => RoutesOK
BY DEF Init, RoutesOK

\* A response that goes back is at the parent's.
LEMMA ResponseToParent ==
    ASSUME NEW r \in Ranks \ {0}, NEW m, ResponseAt(m, r)
    PROVE  /\ Parent(m.requested_by) \in Ranks
           /\ ResponseAt([m EXCEPT !.requested_by = PopBack(@)], Parent(m.requested_by))
<1>1. m.requested_by \in Seq(Int) /\ RouteOf(m.requested_by, r)
  BY DEF ResponseAt, IsResponse, IsRequest
<1> QED BY <1>1, RouteToParent DEF ResponseAt, IsResponse, IsRequest

LEMMA RoutesStep == RoutesOK /\ [Next]_vars => RoutesOK'
<1> SUFFICES ASSUME RoutesOK, [Next]_vars PROVE RoutesOK'
  OBVIOUS
<1>1. 0 \in Ranks
  BY RankFacts
<1>2. ASSUME NEW path \in ClientPaths, GetCollisions(path) PROVE RoutesOK'
  <2> DEFINE m == [id |-> requestCounter, requested_by |-> path]
  <2>1. RequestFor(m, 0)
    BY RouteFromClient DEF RequestFor, IsRequest, RoutesOK
  <2>2. Push(pendingRequests, 0, m, MAX_CONCURRENT_REQUESTS, 0) /\ requestCounter' = requestCounter + 1
        /\ UNCHANGED <<requestWork, pendingResponses, shmResults, calls>>
    BY <1>2 DEF GetCollisions
  <2> HIDE DEF m
  <2> QED BY <1>1, <2>1, <2>2 DEF RoutesOK, Push
<1>3. ASSUME NEW r \in Ranks, NEW request \in pendingRequests[r], HandleRequest(r, request) PROVE RoutesOK'
  <2> DEFINE mine == [request EXCEPT !.requested_by = Append(@, r)]
             response == [id |-> mine.id, requested_by |-> mine.requested_by, results_from |-> r]
  <2>1. RequestFor(request, r) /\ r \in Int
    BY RankFacts DEF RoutesOK
  <2>2. mine.id \in Nat /\ mine.requested_by \in Seq(Int) /\ RouteOf(mine.requested_by, r)
    BY <2>1 DEF RequestFor, IsRequest
  <2>3. ResponseAt(response, r)
    BY <2>2 DEF ResponseAt, IsResponse, IsRequest
  <2>4. \A w \in PassOn(mine, LogicalNeighbors[r]) : WorkOf(w, r)
    <3> HIDE DEF mine
    <3> QED BY <2>2, RankFacts DEF PassOn, WorkOf, IsRequest
  <2>5. /\ pendingRequests' = [pendingRequests EXCEPT ![r] = @ \ {request}]
        /\ Push(pendingResponses, r, response, MAX_CONCURRENT_RESPONSES, r)
        /\ requestWork' = [requestWork EXCEPT ![r] = @ \cup PassOn(mine, LogicalNeighbors[r])]
        /\ UNCHANGED <<requestCounter, shmResults, calls>>
    BY <1>3 DEF HandleRequest
  <2> HIDE DEF mine, response
  <2> QED BY <2>3, <2>4, <2>5 DEF RoutesOK, Push
<1>4. ASSUME NEW r \in Ranks, NEW work \in requestWork[r], QueryPeer(r, work) PROVE RoutesOK'
  <2> DEFINE call == [SendRequest |-> work.request, to |-> Head(work.todo)]
  <2>1. WorkOf(work, r)
    BY DEF RoutesOK
  <2>2. /\ work.todo \in Seq(Ranks) /\ Head(work.todo) = work.todo[1] /\ Head(work.todo) \in Ranks
        /\ 1 \in 1 .. Len(work.todo) /\ Tail(work.todo) \in Seq(Ranks)
        /\ \A i \in 1 .. Len(Tail(work.todo)) :
              Tail(work.todo)[i] = work.todo[i + 1] /\ i + 1 \in 1 .. Len(work.todo)
    BY <2>1 DEF WorkOf
  <2>3. RequestFor(work.request, Head(work.todo))
    <3> DEFINE n == Head(work.todo)
               path == work.request.requested_by
    <3>1. path \in Seq(Int) /\ RouteOf(path, r) /\ n \in Ranks
      BY <2>1, <2>2 DEF WorkOf, IsRequest
    <3>2. \E j \in 1 .. Len(LogicalNeighbors[r]) : LogicalNeighbors[r][j] = n
      BY <2>1, <2>2 DEF WorkOf
    <3> HIDE DEF n, path
    <3>3. RouteOf(Append(path, n), n)
      BY <3>1, <3>2, RouteToNeighbour
    <3> QED BY <2>1, <3>3 DEF WorkOf, RequestFor, n, path
  <2>4. CallOnRoute(call)
    BY <2>2, <2>3 DEF CallOnRoute, Asks, Replies
  <2>5. \A w \in PassOn(work.request, Tail(work.todo)) : WorkOf(w, r)
    <3> DEFINE rest == Tail(work.todo)
    <3>1. \A i \in 1 .. Len(rest) : \E j \in 1 .. Len(LogicalNeighbors[r]) : LogicalNeighbors[r][j] = rest[i]
      <4> SUFFICES ASSUME NEW i \in 1 .. Len(rest)
                   PROVE  \E j \in 1 .. Len(LogicalNeighbors[r]) : LogicalNeighbors[r][j] = rest[i]
        OBVIOUS
      <4>1. PICK k \in 1 .. Len(work.todo) : rest[i] = work.todo[k]
        BY <2>2
      <4> HIDE DEF rest
      <4> QED BY <2>1, <4>1 DEF WorkOf
    <3>2. rest \in Seq(Ranks) /\ IsRequest(work.request) /\ RouteOf(work.request.requested_by, r)
      BY <2>1, <2>2 DEF WorkOf
    <3> HIDE DEF rest
    <3>3. \A w \in PassOn(work.request, rest) : WorkOf(w, r)
      BY <3>1, <3>2 DEF PassOn, WorkOf
    <3> QED BY <3>3 DEF rest
  <2>6. /\ calls' = calls \cup {call}
        /\ requestWork' = [requestWork EXCEPT ![r] = (@ \ {work}) \cup PassOn(work.request, Tail(work.todo))]
        /\ UNCHANGED <<requestCounter, pendingRequests, pendingResponses, shmResults>>
    BY <1>4 DEF QueryPeer
  <2> HIDE DEF call
  <2> QED BY <2>4, <2>5, <2>6 DEF RoutesOK
<1>5. ASSUME NEW call \in calls, SendRequest(call) PROVE RoutesOK'
  <2>1. call.to \in Ranks /\ RequestFor(call.SendRequest, call.to)
    BY <1>5 DEF RoutesOK, CallOnRoute, SendRequest, Asks
  <2>2. \/ UNCHANGED pendingRequests
        \/ pendingRequests' = [pendingRequests EXCEPT ![call.to] = @ \cup {call.SendRequest}]
    BY <1>5 DEF SendRequest, Push
  <2>3. calls' \subseteq calls /\ UNCHANGED <<requestCounter, requestWork, pendingResponses, shmResults>>
    BY <1>5 DEF SendRequest
  <2> QED BY <2>1, <2>2, <2>3 DEF RoutesOK
<1>6. ASSUME NEW r \in Ranks, NEW response \in pendingResponses[r], HandleResponse(r, response) PROVE RoutesOK'
  <2> DEFINE parent == Parent(response.requested_by)
             forwarded == [response EXCEPT !.requested_by = PopBack(@)]
             call == [ReceiveResponse |-> response, to |-> parent]
  <2>1. ResponseAt(response, r) /\ r # 0
    BY <1>6 DEF RoutesOK, HandleResponse
  <2>2. parent \in Ranks /\ ResponseAt(forwarded, parent)
    BY <2>1, ResponseToParent
  <2>3. CallOnRoute(call)
    BY <2>1, <2>2 DEF CallOnRoute, Asks, Replies
  <2>4. /\ pendingResponses' = [pendingResponses EXCEPT ![r] = @ \ {response}]
        /\ calls' = calls \/ calls' = calls \cup {call}
        /\ shmResults' = shmResults \/ shmResults' = [shmResults EXCEPT ![parent] = @ \cup {forwarded}]
        /\ UNCHANGED <<requestCounter, pendingRequests, requestWork>>
    BY <1>6 DEF HandleResponse, SendThroughSharedMemory, Push
  <2> HIDE DEF parent, forwarded, call
  <2> QED BY <2>2, <2>3, <2>4 DEF RoutesOK
<1>7. ASSUME NEW call \in calls, ReceiveResponse(call) PROVE RoutesOK'
  <2> DEFINE forwarded == [call.ReceiveResponse EXCEPT !.requested_by = PopBack(@)]
  <2>1. PICK r \in Ranks \ {0} :
           ResponseAt(call.ReceiveResponse, r) /\ call.to = Parent(call.ReceiveResponse.requested_by)
    BY <1>7 DEF RoutesOK, CallOnRoute, ReceiveResponse, Replies
  <2>2. call.to \in Ranks /\ ResponseAt(forwarded, call.to)
    BY <2>1, ResponseToParent
  <2>3. /\ \/ UNCHANGED pendingResponses
           \/ pendingResponses' = [pendingResponses EXCEPT ![call.to] = @ \cup {forwarded}]
        /\ calls' \subseteq calls /\ UNCHANGED <<requestCounter, pendingRequests, requestWork, shmResults>>
    BY <1>7 DEF ReceiveResponse, Push
  <2> HIDE DEF forwarded
  <2> QED BY <2>2, <2>3 DEF RoutesOK
<1>8. ASSUME NEW r \in Ranks, NEW response \in shmResults[r], HandleSharedMemoryResponse(r, response)
      PROVE  RoutesOK'
  <2> DEFINE parent == Parent(response.requested_by)
             forwarded == [response EXCEPT !.requested_by = PopBack(@)]
             popped == [shmResults EXCEPT ![r] = @ \ {response}]
  <2>1. ResponseAt(response, r)
    BY DEF RoutesOK
  <2>2. UNCHANGED <<requestCounter, pendingRequests, requestWork, calls>>
    BY <1>8 DEF HandleSharedMemoryResponse
  <2>3. DOMAIN popped = Ranks /\ \A s \in Ranks : popped[s] \subseteq shmResults[s]
    BY DEF RoutesOK
  <2>4. CASE r # 0 /\ isSameNodeProcess(r, parent)
    <3>1. parent \in Ranks /\ ResponseAt(forwarded, parent)
      BY <2>1, <2>4, ResponseToParent
    <3>2. /\ shmResults' = popped \/ shmResults' = [popped EXCEPT ![parent] = @ \cup {forwarded}]
          /\ UNCHANGED pendingResponses
      BY <1>8, <2>4 DEF HandleSharedMemoryResponse
    <3> HIDE DEF parent, forwarded, popped
    <3> QED BY <2>2, <2>3, <3>1, <3>2 DEF RoutesOK
  <2>5. CASE ~(r # 0 /\ isSameNodeProcess(r, parent))
    <3>1. /\ shmResults' = popped
          /\ \/ UNCHANGED pendingResponses
             \/ pendingResponses' = [pendingResponses EXCEPT ![r] = @ \cup {response}]
      BY <1>8, <2>5 DEF HandleSharedMemoryResponse, Push
    <3> HIDE DEF popped
    <3> QED BY <2>1, <2>2, <2>3, <3>1 DEF RoutesOK
  <2> QED BY <2>4, <2>5
<1>9. ASSUME NEW response \in pendingResponses[0], HandleClientResponse(response) PROVE RoutesOK'
  <2>1. /\ pendingResponses' = [pendingResponses EXCEPT ![0] = @ \ {response}]
        /\ UNCHANGED <<requestCounter, pendingRequests, requestWork, shmResults, calls>>
    BY <1>9 DEF HandleClientResponse
  <2> QED BY <1>1, <2>1 DEF RoutesOK
<1>10. ASSUME NEW call \in calls, LoseCall(call) PROVE RoutesOK'
  BY <1>10 DEF LoseCall, RoutesOK
<1>11. ASSUME NEW r \in Ranks, Restart(r) PROVE RoutesOK'
  BY <1>11 DEF Restart, RoutesOK
<1>12. CASE UNCHANGED vars
  BY <1>12 DEF vars, RoutesOK
<1> QED BY <1>1, <1>2, <1>3, <1>4, <1>5, <1>6, <1>7, <1>8, <1>9, <1>10, <1>11, <1>12
        DEF Next, Submit, Process, RequestWorker, ResponseWorker, ShmResponseWorker, HandleRpcs

\* Whatever the topology, and whatever calls are lost and processes restarted, a
\* response is with the rank its path ends in, or on its way from there to the
\* one before, which has asked for it: the code's requested_by.end() - 2 exists.
THEOREM RoutesAreFollowed == Spec => []ResponsesFollowTheirRoute
<1>1. RoutesOK => ResponsesFollowTheirRoute
  BY DEF RoutesOK, ResponsesFollowTheirRoute, ResponseAt, CallOnRoute, Replies, RouteOf
<1> QED BY <1>1, RoutesInit, RoutesStep, PTL DEF Spec

-----------------------------------------------------------------------------
(* Refinement *)

\* An entry holds one result of every rank it says has answered, and an id is
\* given once between two restarts of rank 0.
EntryOK(entry) ==
    /\ entry.ranks \subseteq Ranks
    /\ entry.collisions = [r \in Ranks |-> IF r \in entry.ranks THEN 1 ELSE 0]

EntriesOK ==
    /\ requestCounter \in Nat
    /\ \A id \in DOMAIN pendingClientRequests :
          /\ id \in Queries /\ id < requestCounter
          /\ EntryOK(pendingClientRequests[id])
    /\ \A id \in DOMAIN answers : id \in Queries /\ id < requestCounter

LEMMA EveryRankPresent ==
    ASSUME NEW S \in SUBSET Ranks, Cardinality(S) = NumProcesses
    PROVE  S = Ranks
<1>1. NumProcesses - 1 \in Int /\ ~(0 > NumProcesses - 1) /\ (NumProcesses - 1) - 0 + 1 = NumProcesses
  BY NetworkAssumption
<1>2. IsFiniteSet(Ranks) /\ Cardinality(Ranks) = NumProcesses
  BY <1>1, FS_Interval DEF Ranks
<1> QED BY <1>2, FS_Subset

LEMMA CountFacts ==
    ASSUME NEW entry, EntryOK(entry), NEW from \in Ranks, from \notin entry.ranks
    PROVE  /\ EntryOK(Count(entry, from))
           /\ Cardinality(Count(entry, from).ranks) = NumProcesses =>
                  /\ Count(entry, from).ranks = Ranks
                  /\ Count(entry, from).collisions = [r \in Ranks |-> 1]
<1> DEFINE counted == Count(entry, from)
<1>1. /\ counted.ranks = entry.ranks \cup {from}
      /\ counted.collisions = [entry.collisions EXCEPT ![from] = @ + 1]
  BY DEF Count
<1>2. counted.collisions = [r \in Ranks |-> IF r \in counted.ranks THEN 1 ELSE 0]
  BY <1>1 DEF EntryOK
<1>3. counted.ranks \in SUBSET Ranks
  BY <1>1 DEF EntryOK
<1> HIDE DEF counted
<1>4. Cardinality(counted.ranks) = NumProcesses =>
         counted.ranks = Ranks /\ counted.collisions = [r \in Ranks |-> 1]
  BY <1>2, <1>3, EveryRankPresent
<1>5. EntryOK(counted)
  BY <1>2, <1>3 DEF EntryOK
<1> QED BY <1>4, <1>5 DEF counted

LEMMA ServiceStep ==
    ASSUME RoutesOK, EntriesOK, [Next]_vars
    PROVE  EntriesOK' /\ [Service!Next]_(Service!servicevars)
<1> DEFINE unchanged == UNCHANGED <<requestCounter, pendingClientRequests, answers>>
<1>0. unchanged => EntriesOK' /\ [Service!Next]_(Service!servicevars)
  BY DEF EntriesOK, Service!servicevars
<1>1. ASSUME NEW path \in ClientPaths, GetCollisions(path)
      PROVE  EntriesOK' /\ Service!Submit(requestCounter) /\ requestCounter \in Queries
  <2>1. /\ requestCounter \in Queries /\ requestCounter' = requestCounter + 1 /\ UNCHANGED answers
        /\ DOMAIN pendingClientRequests' = DOMAIN pendingClientRequests \cup {requestCounter}
    BY <1>1 DEF GetCollisions
  <2>2. requestCounter \in Nat /\ requestCounter \notin DOMAIN pendingClientRequests
        /\ requestCounter \notin DOMAIN answers
    BY DEF EntriesOK
  <2>3. \A id \in DOMAIN pendingClientRequests : pendingClientRequests'[id] = pendingClientRequests[id]
    BY <1>1, <2>2 DEF GetCollisions
  <2>4. EntryOK(pendingClientRequests'[requestCounter])
    <3>1. pendingClientRequests'[requestCounter] = [ranks |-> {}, collisions |-> [r \in Ranks |-> 0]]
      BY <1>1 DEF GetCollisions
    <3> QED BY <3>1 DEF EntryOK
  <2>5. EntriesOK'
    <3>1. \A n \in Nat : n < requestCounter \/ n = requestCounter => n < requestCounter'
      BY <2>1, <2>2
    <3>2. \A id \in Queries : id \in Nat
      BY DEF Queries
    <3>3. \A id \in DOMAIN pendingClientRequests' :
             id \in Queries /\ id < requestCounter' /\ EntryOK(pendingClientRequests'[id])
      BY <2>1, <2>3, <2>4, <3>1, <3>2 DEF EntriesOK
    <3>4. \A id \in DOMAIN answers' : id \in Queries /\ id < requestCounter'
      BY <2>1, <3>1, <3>2 DEF EntriesOK
    <3> QED BY <2>1, <2>2, <3>3, <3>4 DEF EntriesOK, EntryOK
  <2> QED BY <2>1, <2>2, <2>5 DEF Service!Submit
<1>2. ASSUME NEW response \in pendingResponses[0], HandleClientResponse(response)
      PROVE  EntriesOK' /\ (unchanged \/ (Service!Answer(response.id) /\ response.id \in Queries)
                            \/ UNCHANGED <<DOMAIN pendingClientRequests, answers>>)
  <2> DEFINE id == response.id
             from == response.results_from
             entry == Count(pendingClientRequests[id], from)
  <2>1. from \in Ranks
    BY RankFacts DEF RoutesOK, ResponseAt, IsResponse
  <2>2. requestCounter' = requestCounter
    BY <1>2 DEF HandleClientResponse
  <2>3. CASE ~Wanted(id, from)
    BY <1>0, <1>2, <2>2, <2>3 DEF HandleClientResponse
  <2>4. CASE Wanted(id, from) /\ Cardinality(entry.ranks) = NumProcesses
    <3>1. CompleteRequest(id, entry)
      BY <1>2, <2>4 DEF HandleClientResponse
    <3>2. /\ id \in DOMAIN pendingClientRequests /\ id \in Queries /\ id < requestCounter
          /\ entry.collisions = [r \in Ranks |-> 1]
      BY <2>1, <2>4, CountFacts DEF Wanted, EntriesOK
    <3> HIDE DEF id, entry
    <3>3. Service!Answer(id)
      BY <3>1, <3>2 DEF CompleteRequest, Service!Answer
    <3>4. EntriesOK'
      BY <2>2, <3>1, <3>2 DEF CompleteRequest, EntriesOK
    <3> QED BY <3>2, <3>3, <3>4 DEF id
  <2>5. CASE Wanted(id, from) /\ Cardinality(entry.ranks) # NumProcesses
    <3>1. pendingClientRequests' = [pendingClientRequests EXCEPT ![id] = entry] /\ UNCHANGED answers
      BY <1>2, <2>5 DEF HandleClientResponse
    <3>2. id \in DOMAIN pendingClientRequests /\ EntryOK(entry)
      BY <2>1, <2>5, CountFacts DEF Wanted, EntriesOK
    <3> HIDE DEF id, entry
    <3> QED BY <2>2, <3>1, <3>2 DEF EntriesOK
  <2> QED BY <2>3, <2>4, <2>5
<1>3. ASSUME NEW r \in Ranks, Restart(r)
      PROVE  EntriesOK' /\ (unchanged \/ Service!Restart)
  <2>1. CASE r = 0
    BY <1>3, <2>1 DEF Restart, EntriesOK, Service!Restart
  <2>2. CASE r # 0
    BY <1>0, <1>3, <2>2 DEF Restart
  <2> QED BY <2>1, <2>2
<1>4. ASSUME NEW r \in Ranks, RequestWorker(r) PROVE unchanged
  BY <1>4 DEF RequestWorker, HandleRequest, QueryPeer
<1>5. ASSUME NEW r \in Ranks, \E response \in pendingResponses[r] : HandleResponse(r, response) PROVE unchanged
  BY <1>5 DEF HandleResponse
<1>6. ASSUME NEW r \in Ranks, ShmResponseWorker(r) PROVE unchanged
  BY <1>6 DEF ShmResponseWorker, HandleSharedMemoryResponse
<1>7. ASSUME NEW r \in Ranks, HandleRpcs(r) PROVE unchanged
  BY <1>7 DEF HandleRpcs, SendRequest, ReceiveResponse
<1>8. ASSUME NEW call \in calls, LoseCall(call) PROVE unchanged
  BY <1>8 DEF LoseCall
<1>9. UNCHANGED vars => unchanged
  BY DEF vars
<1> HIDE DEF unchanged
<1>10. /\ EntriesOK'
       /\ \/ unchanged
          \/ \E q \in Queries : Service!Submit(q) \/ Service!Answer(q)
          \/ UNCHANGED <<DOMAIN pendingClientRequests, answers>>
          \/ Service!Restart
  BY <1>0, <1>1, <1>2, <1>3, <1>4, <1>5, <1>6, <1>7, <1>8, <1>9
     DEF Next, Submit, Process, ResponseWorker
<1> QED BY <1>0, <1>10 DEF Service!Next, Service!servicevars

\* Whatever the topology, and whatever calls are lost, results come twice, and
\* processes terminate or are restarted, a client is answered once, with the
\* result of every rank, each taken once.
THEOREM NetworkImplementsService == Spec => ImplementsService
<1>1. Init => RoutesOK /\ EntriesOK /\ Service!Init
  <2>1. Init => EntriesOK /\ Service!Init
    BY DEF Init, EntriesOK, Service!Init
  <2> QED BY <2>1, RoutesInit
<1>2. RoutesOK /\ EntriesOK /\ [Next]_vars =>
          /\ RoutesOK' /\ EntriesOK'
          /\ [Service!Next]_(Service!servicevars)
  BY RoutesStep, ServiceStep
<1> QED BY <1>1, <1>2, PTL DEF Spec, ImplementsService, Service!SafeSpec

-----------------------------------------------------------------------------
(* Every result once *)

\* No process is restarted, rank 0 is nobody's neighbour, and the window of ids
\* holds all queries.
NobodyForgets ==
    /\ MaxRestarts = 0
    /\ \A r \in Ranks : \A i \in 1 .. Len(LogicalNeighbors[r]) : LogicalNeighbors[r][i] # 0
    /\ MaxQueries <= LATEST_QUERY_IDS

Window(r) == {latestQueryIDs[r][i] : i \in 1 .. Len(latestQueryIDs[r])}

\* The window has each id once, and no query goes to rank 0 again.
WindowOK ==
    /\ restarts = 0
    /\ DOMAIN latestQueryIDs = Ranks
    /\ \A r \in Ranks :
          /\ latestQueryIDs[r] \in Seq(Queries)
          /\ Cardinality(Window(r)) = Len(latestQueryIDs[r])
    /\ \A r \in Ranks : \A m \in pendingRequests[r] : m.id \in Queries
    /\ \A r \in Ranks : \A w \in requestWork[r] : w.request.id \in Queries
    /\ \A call \in calls :
          /\ Asks(call) => call.SendRequest.id \in Queries /\ call.to # 0
          /\ Replies(call) => call = [ReceiveResponse |-> call.ReceiveResponse, to |-> call.to]

\* Rank r has accepted the query.
Known(id, r) == IF r = 0 THEN id < requestCounter ELSE id \in Window(r)

Counted(id, from) ==
    \/ id \in DOMAIN answers
    \/ id \in DOMAIN pendingClientRequests /\ from \in pendingClientRequests[id].ranks

\* A rank's part of a query is in one place: still to be done, under way, or counted.
OnePlace ==
    /\ \A r \in Ranks : \A m, n \in pendingRequests[r] : m.id = n.id => m = n
    /\ \A r \in Ranks : \A m \in pendingRequests[r] :
          /\ Known(m.id, r) /\ ~Counted(m.id, r)
          /\ \A u \in UnderWay : ~(u[3].id = m.id /\ u[3].results_from = r)
    /\ \A u \in UnderWay :
          /\ Known(u[3].id, u[3].results_from) /\ ~Counted(u[3].id, u[3].results_from)
          /\ u[3].results_from \in Ranks
    /\ \A u, v \in UnderWay : u[3].id = v[3].id /\ u[3].results_from = v[3].results_from => u = v
    /\ \A id \in Nat, r \in Ranks : Counted(id, r) => Known(id, r)

LEMMA UnderWayIs ==
    /\ \A u : u \in UnderWay <=>
          \/ \E r \in Ranks : \E m \in pendingResponses[r] : u = <<"pendingResponses", r, m>>
          \/ \E r \in Ranks : \E m \in shmResults[r] : u = <<"shmResults", r, m>>
          \/ \E c \in calls : Replies(c) /\ u = <<"calls", c.to, c.ReceiveResponse>>
    /\ \A u : u \in UnderWay' <=>
          \/ \E r \in Ranks : \E m \in pendingResponses'[r] : u = <<"pendingResponses", r, m>>
          \/ \E r \in Ranks : \E m \in shmResults'[r] : u = <<"shmResults", r, m>>
          \/ \E c \in calls' : Replies(c) /\ u = <<"calls", c.to, c.ReceiveResponse>>
BY DEF UnderWay, Replies

LEMMA QueryFacts == IsFiniteSet(Queries) /\ Cardinality(Queries) = MaxQueries /\ MaxQueries \in Nat
<1>1. MaxQueries \in Nat /\ (IF 1 > MaxQueries THEN 0 ELSE MaxQueries - 1 + 1) = MaxQueries
  BY NetworkAssumption
<1> QED BY <1>1, FS_Interval DEF Queries

\* The window has room for an id that is not in it.
LEMMA RoomInWindow ==
    ASSUME NobodyForgets, WindowOK, NEW r \in Ranks, NEW id \in Queries \ Window(r)
    PROVE  Len(latestQueryIDs[r]) # LATEST_QUERY_IDS
<1>1. latestQueryIDs[r] \in Seq(Queries) /\ Cardinality(Window(r)) = Len(latestQueryIDs[r])
  BY DEF WindowOK
<1>2. Window(r) \cup {id} \in SUBSET Queries /\ Window(r) \in SUBSET Queries
  BY <1>1, ElementOfSeq DEF Window
<1>3. IsFiniteSet(Window(r)) /\ Cardinality(Window(r) \cup {id}) <= MaxQueries
  BY <1>2, QueryFacts, FS_Subset
<1>4. Cardinality(Window(r) \cup {id}) = Len(latestQueryIDs[r]) + 1 /\ Len(latestQueryIDs[r]) \in Nat
  <2>1. Len(latestQueryIDs[r]) \in Nat
    BY <1>1
  <2>2. Cardinality(Window(r) \cup {id}) = Cardinality(Window(r)) + 1
    BY <1>3, FS_AddElement
  <2> QED BY <1>1, <2>1, <2>2
<1>5. LATEST_QUERY_IDS \in Nat /\ MaxQueries <= LATEST_QUERY_IDS
  BY NetworkAssumption DEF NobodyForgets
<1> QED BY <1>3, <1>4, <1>5, QueryFacts

LEMMA WindowGrows ==
    ASSUME NobodyForgets, WindowOK, NEW r \in Ranks, NEW id \in Queries \ Window(r), appendQueryID(r, id)
    PROVE  /\ latestQueryIDs' = [latestQueryIDs EXCEPT ![r] = Append(@, id)]
           /\ Window(r)' = Window(r) \cup {id}
           /\ \A s \in Ranks \ {r} : Window(s)' = Window(s)
           /\ latestQueryIDs'[r] \in Seq(Queries)
           /\ Cardinality(Window(r)') = Len(latestQueryIDs'[r])
<1>1. latestQueryIDs[r] \in Seq(Queries) /\ Cardinality(Window(r)) = Len(latestQueryIDs[r])
      /\ DOMAIN latestQueryIDs = Ranks
  BY DEF WindowOK
<1>2. latestQueryIDs' = [latestQueryIDs EXCEPT ![r] = Append(@, id)]
  BY RoomInWindow DEF appendQueryID
<1> DEFINE s == latestQueryIDs[r]
           t == Append(s, id)
<1>3. /\ latestQueryIDs'[r] = t /\ s \in Seq(Queries) /\ t \in Seq(Queries) /\ Len(s) \in Nat
      /\ Len(t) = Len(s) + 1 /\ t[Len(s) + 1] = id /\ \A i \in 1 .. Len(s) : t[i] = s[i]
  BY <1>1, <1>2
<1>4. {t[i] : i \in 1 .. Len(t)} = {s[i] : i \in 1 .. Len(s)} \cup {id}
  <2> HIDE DEF t, s
  <2>1. 1 .. Len(t) = (1 .. Len(s)) \cup {Len(s) + 1}
    BY <1>3
  <2> QED BY <1>3, <2>1
<1>5. Window(r)' = Window(r) \cup {id}
  BY <1>3, <1>4 DEF Window
<1>6. \A q \in Ranks \ {r} : Window(q)' = Window(q)
  BY <1>1, <1>2 DEF Window
<1>7. Window(r) \in SUBSET Queries
  BY <1>1, ElementOfSeq DEF Window
<1>8. Cardinality(Window(r) \cup {id}) = Len(s) + 1
  BY <1>1, <1>7, QueryFacts, FS_Subset, FS_AddElement
<1> QED BY <1>2, <1>3, <1>5, <1>6, <1>8

\* What becomes of a rank's result: it moves to another place, or comes into
\* being as its query is taken off the queue, or is counted.
LEMMA ResultMoves ==
    ASSUME OnePlace, NEW old \in UnderWay, NEW new,
           UnderWay' \subseteq (UnderWay \ {old}) \cup {new},
           new[3].id = old[3].id, new[3].results_from = old[3].results_from,
           UNCHANGED <<requestCounter, latestQueryIDs, pendingRequests, pendingClientRequests, answers>>
    PROVE  OnePlace'
<1>1. /\ \A id, r : Known(id, r)' <=> Known(id, r)
      /\ \A id, r : Counted(id, r)' <=> Counted(id, r)
  BY DEF Known, Window, Counted
<1>2. \A u \in UnderWay' : (u \in UnderWay /\ u # old) \/ u = new
  OBVIOUS
<1> QED BY <1>1, <1>2 DEF OnePlace

LEMMA ResultAppears ==
    ASSUME OnePlace, NEW r \in Ranks, NEW request \in pendingRequests[r], NEW new,
           UnderWay' \subseteq UnderWay \cup {new},
           new[3].id = request.id, new[3].results_from = r,
           DOMAIN pendingRequests = Ranks,
           pendingRequests' = [pendingRequests EXCEPT ![r] = @ \ {request}],
           UNCHANGED <<requestCounter, latestQueryIDs, pendingClientRequests, answers>>
    PROVE  OnePlace'
<1>1. /\ \A id, q : Known(id, q)' <=> Known(id, q)
      /\ \A id, q : Counted(id, q)' <=> Counted(id, q)
  BY DEF Known, Window, Counted
<1>2. \A u \in UnderWay' : u \in UnderWay \/ u = new
  OBVIOUS
<1>3. /\ \A q \in Ranks : pendingRequests'[q] \subseteq pendingRequests[q]
      /\ request \notin pendingRequests'[r]
  OBVIOUS
<1> QED BY <1>1, <1>2, <1>3 DEF OnePlace

LEMMA ResultsStay ==
    ASSUME OnePlace, UnderWay' \subseteq UnderWay,
           \A r \in Ranks : pendingRequests'[r] \subseteq pendingRequests[r],
           UNCHANGED <<requestCounter, latestQueryIDs, pendingClientRequests, answers>>
    PROVE  OnePlace'
<1>1. /\ \A id, r : Known(id, r)' <=> Known(id, r)
      /\ \A id, r : Counted(id, r)' <=> Counted(id, r)
  BY DEF Known, Window, Counted
<1> QED BY <1>1 DEF OnePlace

\* A query comes to a rank that does not know it.
LEMMA QueryArrives ==
    ASSUME OnePlace, NEW r \in Ranks, NEW id \in Nat, NEW request,
           request.id = id, ~Known(id, r), UnderWay' \subseteq UnderWay,
           DOMAIN pendingRequests = Ranks,
           \/ UNCHANGED pendingRequests
           \/ pendingRequests' = [pendingRequests EXCEPT ![r] = @ \cup {request}],
           Known(id, r)',
           \A i \in Nat, q \in Ranks : Known(i, q) => Known(i, q)',
           \A i \in Nat, q \in Ranks : Counted(i, q)' <=> Counted(i, q),
           \A q \in Ranks : \A m \in pendingRequests[q] : m.id \in Nat,
           \A u \in UnderWay : u[3].id \in Nat
    PROVE  OnePlace'
<1>1. \A u \in UnderWay : ~(u[3].id = id /\ u[3].results_from = r)
  BY DEF OnePlace
<1>2. ~Counted(id, r)
  BY DEF OnePlace
<1>3. \A m \in pendingRequests[r] : m.id # id
  BY DEF OnePlace
<1>4. \A q \in Ranks : \A m \in pendingRequests'[q] : m \in pendingRequests[q] \/ (m = request /\ q = r)
  OBVIOUS
<1>5. \A q \in Ranks : \A m, n \in pendingRequests'[q] : m.id = n.id => m = n
  BY <1>3, <1>4 DEF OnePlace
<1>6. \A q \in Ranks : \A m \in pendingRequests'[q] :
          /\ Known(m.id, q)' /\ ~Counted(m.id, q)'
          /\ \A u \in UnderWay' : ~(u[3].id = m.id /\ u[3].results_from = q)
  BY <1>1, <1>2, <1>4 DEF OnePlace
<1>7. \A u \in UnderWay' :
          /\ Known(u[3].id, u[3].results_from)' /\ ~Counted(u[3].id, u[3].results_from)'
          /\ u[3].results_from \in Ranks
  BY DEF OnePlace
<1> QED BY <1>5, <1>6, <1>7 DEF OnePlace

LEMMA WindowStep ==
    ASSUME NobodyForgets, RoutesOK, WindowOK, [Next]_vars
    PROVE  WindowOK'
<1>1. ASSUME UNCHANGED <<latestQueryIDs, restarts>>,
             \A r \in Ranks : \A m \in pendingRequests'[r] : m.id \in Queries,
             \A r \in Ranks : \A w \in requestWork'[r] : w.request.id \in Queries,
             \A call \in calls' :
                 /\ Asks(call) => call.SendRequest.id \in Queries /\ call.to # 0
                 /\ Replies(call) => call = [ReceiveResponse |-> call.ReceiveResponse, to |-> call.to]
      PROVE  WindowOK'
  <2>1. \A r : Window(r)' = Window(r)
    BY <1>1 DEF Window
  <2> QED BY <1>1, <2>1 DEF WindowOK
<1>2. ASSUME UNCHANGED <<latestQueryIDs, restarts, pendingRequests, requestWork>>, calls' \subseteq calls
      PROVE  WindowOK'
  BY <1>1, <1>2 DEF WindowOK
<1>3. ASSUME NEW path \in ClientPaths, GetCollisions(path) PROVE WindowOK'
  <2> DEFINE m == [id |-> requestCounter, requested_by |-> path]
  <2>1. m.id \in Queries
    BY <1>3 DEF GetCollisions
  <2>2. /\ \/ UNCHANGED pendingRequests
           \/ pendingRequests' = [pendingRequests EXCEPT ![0] = @ \cup {m}]
        /\ UNCHANGED <<latestQueryIDs, restarts, requestWork, calls>>
    BY <1>3 DEF GetCollisions, Push
  <2> HIDE DEF m
  <2>3. \A r \in Ranks : \A n \in pendingRequests'[r] : n.id \in Queries
    BY <2>1, <2>2 DEF WindowOK, RoutesOK
  <2> QED BY <1>1, <2>2, <2>3 DEF WindowOK
<1>4. ASSUME NEW r \in Ranks, NEW request \in pendingRequests[r], HandleRequest(r, request) PROVE WindowOK'
  <2> DEFINE mine == [request EXCEPT !.requested_by = Append(@, r)]
  <2>1. mine.id \in Queries
    BY DEF WindowOK
  <2>2. /\ pendingRequests' = [pendingRequests EXCEPT ![r] = @ \ {request}]
        /\ requestWork' = [requestWork EXCEPT ![r] = @ \cup PassOn(mine, LogicalNeighbors[r])]
        /\ UNCHANGED <<latestQueryIDs, restarts, calls>>
    BY <1>4 DEF HandleRequest
  <2> HIDE DEF mine
  <2>3. \A w \in PassOn(mine, LogicalNeighbors[r]) : w.request.id \in Queries
    BY <2>1 DEF PassOn
  <2>4. \A q \in Ranks : pendingRequests'[q] \subseteq pendingRequests[q]
    BY <2>2 DEF RoutesOK
  <2>5. \A q \in Ranks : \A w \in requestWork'[q] : w.request.id \in Queries
    BY <2>2, <2>3 DEF WindowOK, RoutesOK
  <2> QED BY <1>1, <2>2, <2>4, <2>5 DEF WindowOK
<1>5. ASSUME NEW r \in Ranks, NEW work \in requestWork[r], QueryPeer(r, work) PROVE WindowOK'
  <2> DEFINE call == [SendRequest |-> work.request, to |-> Head(work.todo)]
             rest == PassOn(work.request, Tail(work.todo))
  <2>1. work.request.id \in Queries
    BY DEF WindowOK
  <2>2. Head(work.todo) # 0
    <3>1. work.todo \in Seq(Ranks) /\ work.todo # <<>>
          /\ \A i \in 1 .. Len(work.todo) :
                \E j \in 1 .. Len(LogicalNeighbors[r]) : LogicalNeighbors[r][j] = work.todo[i]
      BY DEF RoutesOK, WorkOf
    <3>2. 1 \in 1 .. Len(work.todo) /\ Head(work.todo) = work.todo[1]
      BY <3>1
    <3> QED BY <3>1, <3>2 DEF NobodyForgets
  <2>3. /\ calls' = calls \cup {call}
        /\ requestWork' = [requestWork EXCEPT ![r] = (@ \ {work}) \cup rest]
        /\ UNCHANGED <<latestQueryIDs, restarts, pendingRequests>>
    BY <1>5 DEF QueryPeer
  <2>4. Asks(call) /\ ~Replies(call) /\ call.SendRequest = work.request /\ call.to = Head(work.todo)
    BY DEF Asks, Replies
  <2>5. \A w \in rest : w.request.id \in Queries
    BY <2>1 DEF PassOn
  <2> HIDE DEF call, rest
  <2>6. \A q \in Ranks : \A w \in requestWork'[q] : w.request.id \in Queries
    BY <2>3, <2>5 DEF WindowOK, RoutesOK
  <2> QED BY <1>1, <2>1, <2>2, <2>3, <2>4, <2>6 DEF WindowOK
<1>6. ASSUME NEW call \in calls, SendRequest(call) PROVE WindowOK'
  <2> DEFINE r == call.to
             id == call.SendRequest.id
  <2>1. r \in Ranks /\ id \in Queries /\ calls' \subseteq calls /\ UNCHANGED <<restarts, requestWork>>
    BY <1>6 DEF SendRequest, WindowOK, RoutesOK, CallOnRoute, Asks
  <2>2. CASE isDuplicateQueryID(r, id)
    BY <1>2, <1>6, <2>1, <2>2 DEF SendRequest
  <2>3. CASE ~isDuplicateQueryID(r, id)
    <3>1. /\ appendQueryID(r, id)
          /\ \/ UNCHANGED pendingRequests
             \/ pendingRequests' = [pendingRequests EXCEPT ![r] = @ \cup {call.SendRequest}]
      BY <1>6, <2>3 DEF SendRequest, Push
    <3>2. id \notin Window(r)
      BY <2>3 DEF isDuplicateQueryID, Window
    <3>3. /\ latestQueryIDs' = [latestQueryIDs EXCEPT ![r] = Append(@, id)]
          /\ \A s \in Ranks \ {r} : Window(s)' = Window(s)
          /\ latestQueryIDs'[r] \in Seq(Queries)
          /\ Cardinality(Window(r)') = Len(latestQueryIDs'[r])
      <4> HIDE DEF r, id
      <4> QED BY <2>1, <3>1, <3>2, WindowGrows
    <3>4. \A q \in Ranks : \A n \in pendingRequests'[q] : n.id \in Queries
      <4>1. DOMAIN pendingRequests = Ranks /\ \A q \in Ranks : \A n \in pendingRequests[q] : n.id \in Queries
        BY DEF WindowOK, RoutesOK
      <4>2. \A q \in Ranks : \A n \in pendingRequests'[q] : n \in pendingRequests[q] \/ n = call.SendRequest
        BY <2>1, <3>1, <4>1
      <4> QED BY <2>1, <4>1, <4>2
    <3> HIDE DEF r, id
    <3>5. /\ DOMAIN latestQueryIDs' = Ranks
          /\ \A q \in Ranks : /\ latestQueryIDs'[q] \in Seq(Queries)
                              /\ Cardinality(Window(q)') = Len(latestQueryIDs'[q])
      BY <2>1, <3>3 DEF WindowOK
    <3> QED BY <2>1, <3>4, <3>5 DEF WindowOK
  <2> QED BY <2>2, <2>3
<1>7. ASSUME NEW r \in Ranks, NEW response \in pendingResponses[r], HandleResponse(r, response) PROVE WindowOK'
  <2> DEFINE call == [ReceiveResponse |-> response, to |-> Parent(response.requested_by)]
  <2>1. /\ calls' = calls \/ calls' = calls \cup {call}
        /\ UNCHANGED <<latestQueryIDs, restarts, pendingRequests, requestWork>>
    BY <1>7 DEF HandleResponse
  <2>2. ~Asks(call) /\ call = [ReceiveResponse |-> call.ReceiveResponse, to |-> call.to]
    BY DEF Asks
  <2> HIDE DEF call
  <2> QED BY <1>1, <2>1, <2>2 DEF WindowOK
<1>8. ASSUME NEW call \in calls, ReceiveResponse(call) PROVE WindowOK'
  BY <1>2, <1>8 DEF ReceiveResponse
<1>9. ASSUME NEW r \in Ranks, NEW response \in shmResults[r], HandleSharedMemoryResponse(r, response)
      PROVE  WindowOK'
  BY <1>2, <1>9 DEF HandleSharedMemoryResponse
<1>10. ASSUME NEW response \in pendingResponses[0], HandleClientResponse(response) PROVE WindowOK'
  BY <1>2, <1>10 DEF HandleClientResponse
<1>11. ASSUME NEW call \in calls, LoseCall(call) PROVE WindowOK'
  BY <1>2, <1>11 DEF LoseCall
<1>12. ASSUME NEW r \in Ranks PROVE ~Restart(r)
  BY DEF Restart, WindowOK, NobodyForgets
<1>13. CASE UNCHANGED vars
  BY <1>2, <1>13 DEF vars
<1> QED BY <1>3, <1>4, <1>5, <1>6, <1>7, <1>8, <1>9, <1>10, <1>11, <1>12, <1>13
        DEF Next, Submit, Process, RequestWorker, ResponseWorker, ShmResponseWorker, HandleRpcs

LEMMA OnceStep ==
    ASSUME NobodyForgets, RoutesOK, EntriesOK, WindowOK, OnePlace, [Next]_vars
    PROVE  OnePlace'
<1> DEFINE others == <<requestCounter, latestQueryIDs, pendingClientRequests, answers>>
<1>1. /\ DOMAIN pendingRequests = Ranks /\ DOMAIN pendingResponses = Ranks /\ DOMAIN shmResults = Ranks
      /\ requestCounter \in Nat /\ 0 \in Ranks /\ Queries \subseteq Nat
      /\ \A q \in Ranks : \A m \in pendingRequests[q] : m.id \in Nat
  BY RankFacts DEF RoutesOK, RequestFor, IsRequest, Queries
<1>2. \A u \in UnderWay : u[3].id \in Nat
  BY UnderWayIs DEF RoutesOK, CallOnRoute, ResponseAt, IsResponse, IsRequest
<1>3. ASSUME NEW path \in ClientPaths, GetCollisions(path) PROVE OnePlace'
  <2> DEFINE m == [id |-> requestCounter, requested_by |-> path]
  <2>1. /\ requestCounter' = requestCounter + 1
        /\ \/ UNCHANGED pendingRequests
           \/ pendingRequests' = [pendingRequests EXCEPT ![0] = @ \cup {m}]
        /\ UNCHANGED <<latestQueryIDs, answers, pendingResponses, shmResults, calls>>
    BY <1>3 DEF GetCollisions, Push
  <2>2. UnderWay' \subseteq UnderWay
    BY <2>1 DEF UnderWay
  <2>3. \A i \in Nat, q \in Ranks : Known(i, q) => Known(i, q)'
    BY <1>1, <2>1 DEF Known, Window
  <2>4. \A i \in Nat, q \in Ranks : Counted(i, q)' <=> Counted(i, q)
    <3>1. requestCounter \notin DOMAIN pendingClientRequests
      BY <1>1 DEF EntriesOK
    <3>2. /\ DOMAIN pendingClientRequests' = DOMAIN pendingClientRequests \cup {requestCounter}
          /\ pendingClientRequests'[requestCounter].ranks = {}
          /\ \A id \in DOMAIN pendingClientRequests : pendingClientRequests'[id] = pendingClientRequests[id]
      BY <1>3, <3>1 DEF GetCollisions
    <3> QED BY <2>1, <3>1, <3>2 DEF Counted
  <2>5. PICK id, request : id \in Nat /\ id = requestCounter /\ request = m
    BY <1>1
  <2>6. ~Known(id, 0) /\ Known(id, 0)' /\ request.id = id
    BY <1>1, <2>1, <2>5 DEF Known
  <2>7. UNCHANGED pendingRequests \/ pendingRequests' = [pendingRequests EXCEPT ![0] = @ \cup {request}]
    BY <2>1, <2>5
  <2> HIDE DEF m
  <2> QED BY <1>1, <1>2, <2>2, <2>3, <2>4, <2>5, <2>6, <2>7, QueryArrives
<1>4. ASSUME NEW r \in Ranks, NEW request \in pendingRequests[r], HandleRequest(r, request) PROVE OnePlace'
  <2> DEFINE mine == [request EXCEPT !.requested_by = Append(@, r)]
             response == [id |-> mine.id, requested_by |-> mine.requested_by, results_from |-> r]
             new == <<"pendingResponses", r, response>>
  <2>1. new[3].id = request.id /\ new[3].results_from = r
    BY DEF RoutesOK, RequestFor, IsRequest
  <2>2. /\ pendingRequests' = [pendingRequests EXCEPT ![r] = @ \ {request}]
        /\ \/ UNCHANGED pendingResponses
           \/ pendingResponses' = [pendingResponses EXCEPT ![r] = @ \cup {response}]
        /\ UNCHANGED <<requestCounter, latestQueryIDs, pendingClientRequests, answers, shmResults, calls>>
    BY <1>4 DEF HandleRequest, Push
  <2>3. UnderWay' \subseteq UnderWay \cup {new}
    <3>1. new = <<"pendingResponses", r, response>>
      OBVIOUS
    <3> HIDE DEF new, response
    <3>2. \A q \in Ranks : \A m \in pendingResponses'[q] : m \in pendingResponses[q] \/ (q = r /\ m = response)
      BY <1>1, <2>2
    <3> QED BY <2>2, <3>1, <3>2, UnderWayIs
  <2> HIDE DEF new
  <2> QED BY <1>1, <2>1, <2>2, <2>3, ResultAppears
<1>5. ASSUME NEW r \in Ranks, NEW work \in requestWork[r], QueryPeer(r, work) PROVE OnePlace'
  <2>1. ~Replies([SendRequest |-> work.request, to |-> Head(work.todo)])
    BY DEF Replies
  <2>2. /\ calls' = calls \cup {[SendRequest |-> work.request, to |-> Head(work.todo)]}
        /\ UNCHANGED <<requestCounter, latestQueryIDs, pendingClientRequests, answers, pendingRequests,
                       pendingResponses, shmResults>>
    BY <1>5 DEF QueryPeer
  <2>3. UnderWay' \subseteq UnderWay
    BY <2>1, <2>2, UnderWayIs
  <2> QED BY <2>2, <2>3, ResultsStay
<1>6. ASSUME NEW call \in calls, SendRequest(call) PROVE OnePlace'
  <2>1. PICK r, id, request :
           r = call.to /\ request = call.SendRequest /\ id = request.id
    OBVIOUS
  <2>2. /\ r \in Ranks \ {0} /\ id \in Queries /\ id \in Nat /\ calls' = calls \ {call}
        /\ UNCHANGED <<requestCounter, pendingClientRequests, answers, pendingResponses, shmResults>>
    BY <1>1, <1>6, <2>1 DEF SendRequest, WindowOK, RoutesOK, CallOnRoute, Asks
  <2>3. UnderWay' \subseteq UnderWay
    BY <2>2, UnderWayIs
  <2>4. CASE isDuplicateQueryID(r, id)
    <3>1. UNCHANGED <<pendingRequests, latestQueryIDs>>
      BY <1>6, <2>1, <2>4 DEF SendRequest
    <3> QED BY <2>2, <2>3, <3>1, ResultsStay
  <2>5. CASE ~isDuplicateQueryID(r, id)
    <3>1. /\ appendQueryID(r, id)
          /\ \/ UNCHANGED pendingRequests
             \/ pendingRequests' = [pendingRequests EXCEPT ![r] = @ \cup {request}]
      BY <1>6, <2>1, <2>5 DEF SendRequest, Push
    <3>2. id \notin Window(r)
      BY <2>5 DEF isDuplicateQueryID, Window
    <3>3. /\ Window(r)' = Window(r) \cup {id}
          /\ \A s \in Ranks \ {r} : Window(s)' = Window(s)
      BY <2>2, <3>1, <3>2, WindowGrows
    <3>4. ~Known(id, r) /\ Known(id, r)' /\ \A i \in Nat, q \in Ranks : Known(i, q) => Known(i, q)'
      BY <2>2, <3>2, <3>3 DEF Known
    <3>5. \A i \in Nat, q \in Ranks : Counted(i, q)' <=> Counted(i, q)
      BY <2>2 DEF Counted
    <3> QED BY <1>1, <1>2, <2>1, <2>2, <2>3, <3>1, <3>4, <3>5, QueryArrives
  <2> QED BY <2>4, <2>5
<1>7. ASSUME NEW r \in Ranks, NEW response \in pendingResponses[r], HandleResponse(r, response) PROVE OnePlace'
  <2>1. PICK parent, forwarded :
           /\ parent = Parent(response.requested_by)
           /\ forwarded = [response EXCEPT !.requested_by = PopBack(@)]
    OBVIOUS
  <2>2. forwarded.id = response.id /\ forwarded.results_from = response.results_from
    BY <2>1 DEF RoutesOK, ResponseAt, IsResponse, IsRequest
  <2>3. /\ pendingResponses' = [pendingResponses EXCEPT ![r] = @ \ {response}]
        /\ \/ /\ shmResults' = shmResults \/ shmResults' = [shmResults EXCEPT ![parent] = @ \cup {forwarded}]
              /\ UNCHANGED calls
           \/ /\ calls' = calls \cup {[ReceiveResponse |-> response, to |-> parent]}
              /\ UNCHANGED shmResults
        /\ UNCHANGED <<requestCounter, latestQueryIDs, pendingClientRequests, answers, pendingRequests>>
    BY <1>7, <2>1 DEF HandleResponse, SendThroughSharedMemory, Push
  <2>4. PICK old \in UnderWay : old = <<"pendingResponses", r, response>>
    BY UnderWayIs
  <2>5. \A q \in Ranks : \A m \in pendingResponses'[q] :
           m \in pendingResponses[q] /\ <<"pendingResponses", q, m>> # old
    BY <1>1, <2>3, <2>4
  <2>6. CASE UNCHANGED calls /\ (shmResults' = shmResults
                                \/ shmResults' = [shmResults EXCEPT ![parent] = @ \cup {forwarded}])
    <3>1. PICK new : new = <<"shmResults", parent, forwarded>>
      OBVIOUS
    <3>2. \A q \in Ranks : \A m \in shmResults'[q] : m \in shmResults[q] \/ <<"shmResults", q, m>> = new
      BY <1>1, <2>6, <3>1
    <3>3. UnderWay' \subseteq (UnderWay \ {old}) \cup {new}
      BY <2>4, <2>5, <2>6, <3>1, <3>2, UnderWayIs
    <3>4. new[3].id = old[3].id /\ new[3].results_from = old[3].results_from
      BY <2>2, <2>4, <3>1
    <3> QED BY <2>3, <3>3, <3>4, ResultMoves
  <2>7. CASE UNCHANGED shmResults /\ calls' = calls \cup {[ReceiveResponse |-> response, to |-> parent]}
    <3>1. PICK new : new = <<"calls", parent, response>>
      OBVIOUS
    <3>2. \A c \in calls' : c \in calls \/ <<"calls", c.to, c.ReceiveResponse>> = new
      BY <2>7, <3>1
    <3>3. UnderWay' \subseteq (UnderWay \ {old}) \cup {new}
      BY <2>4, <2>5, <2>7, <3>1, <3>2, UnderWayIs
    <3>4. new[3].id = old[3].id /\ new[3].results_from = old[3].results_from
      BY <2>4, <3>1
    <3> QED BY <2>3, <3>3, <3>4, ResultMoves
  <2> QED BY <2>3, <2>6, <2>7
<1>8. ASSUME NEW call \in calls, ReceiveResponse(call) PROVE OnePlace'
  <2>1. PICK r, response, forwarded :
           /\ r = call.to /\ response = call.ReceiveResponse
           /\ forwarded = [response EXCEPT !.requested_by = PopBack(@)]
    OBVIOUS
  <2>2. Replies(call) /\ IsResponse(response) /\ call = [ReceiveResponse |-> response, to |-> r]
    BY <1>8, <2>1 DEF ReceiveResponse, Replies, RoutesOK, WindowOK, CallOnRoute, ResponseAt
  <2>3. forwarded.id = response.id /\ forwarded.results_from = response.results_from
    BY <2>1, <2>2 DEF IsResponse, IsRequest
  <2>4. /\ calls' = calls \ {call}
        /\ \/ UNCHANGED pendingResponses
           \/ pendingResponses' = [pendingResponses EXCEPT ![r] = @ \cup {forwarded}]
        /\ UNCHANGED <<requestCounter, latestQueryIDs, pendingClientRequests, answers, pendingRequests, shmResults>>
    BY <1>8, <2>1 DEF ReceiveResponse, Push
  <2>5. PICK old, new :
           /\ old \in UnderWay /\ old = <<"calls", r, response>>
           /\ new = <<"pendingResponses", r, forwarded>>
    BY <2>1, <2>2, UnderWayIs
  <2>6. \A c \in calls' : c \in calls /\ (Replies(c) => <<"calls", c.to, c.ReceiveResponse>> # old)
    BY <2>2, <2>4, <2>5 DEF WindowOK
  <2>7. \A q \in Ranks : \A m \in pendingResponses'[q] :
           m \in pendingResponses[q] \/ <<"pendingResponses", q, m>> = new
    BY <1>1, <2>4, <2>5
  <2>8. UnderWay' \subseteq (UnderWay \ {old}) \cup {new}
    BY <2>4, <2>5, <2>6, <2>7, UnderWayIs
  <2>9. new[3].id = old[3].id /\ new[3].results_from = old[3].results_from
    BY <2>3, <2>5
  <2> QED BY <2>4, <2>5, <2>8, <2>9, ResultMoves
<1>9. ASSUME NEW r \in Ranks, NEW response \in shmResults[r], HandleSharedMemoryResponse(r, response)
      PROVE  OnePlace'
  <2>1. PICK parent, forwarded, popped :
           /\ parent = Parent(response.requested_by)
           /\ forwarded = [response EXCEPT !.requested_by = PopBack(@)]
           /\ popped = [shmResults EXCEPT ![r] = @ \ {response}]
    OBVIOUS
  <2>2. forwarded.id = response.id /\ forwarded.results_from = response.results_from
    BY <2>1 DEF RoutesOK, ResponseAt, IsResponse, IsRequest
  <2>3. UNCHANGED <<requestCounter, latestQueryIDs, pendingClientRequests, answers, pendingRequests, calls>>
    BY <1>9 DEF HandleSharedMemoryResponse
  <2>4. PICK old \in UnderWay : old = <<"shmResults", r, response>>
    BY UnderWayIs
  <2>5. DOMAIN popped = Ranks
        /\ \A q \in Ranks : \A m \in popped[q] : m \in shmResults[q] /\ <<"shmResults", q, m>> # old
    BY <1>1, <2>1, <2>4
  <2>6. CASE r # 0 /\ isSameNodeProcess(r, parent)
    <3>1. /\ shmResults' = popped \/ shmResults' = [popped EXCEPT ![parent] = @ \cup {forwarded}]
          /\ UNCHANGED pendingResponses
      BY <1>9, <2>1, <2>6 DEF HandleSharedMemoryResponse
    <3>2. PICK new : new = <<"shmResults", parent, forwarded>>
      OBVIOUS
    <3>3. \A q \in Ranks : \A m \in shmResults'[q] :
             (m \in shmResults[q] /\ <<"shmResults", q, m>> # old) \/ <<"shmResults", q, m>> = new
      BY <2>5, <3>1, <3>2
    <3>4. UnderWay' \subseteq (UnderWay \ {old}) \cup {new}
      BY <2>3, <2>4, <3>1, <3>2, <3>3, UnderWayIs
    <3>5. new[3].id = old[3].id /\ new[3].results_from = old[3].results_from
      BY <2>2, <2>4, <3>2
    <3> QED BY <2>3, <3>4, <3>5, ResultMoves
  <2>7. CASE ~(r # 0 /\ isSameNodeProcess(r, parent))
    <3>1. /\ shmResults' = popped
          /\ \/ UNCHANGED pendingResponses
             \/ pendingResponses' = [pendingResponses EXCEPT ![r] = @ \cup {response}]
      BY <1>9, <2>1, <2>7 DEF HandleSharedMemoryResponse, Push
    <3>2. PICK new : new = <<"pendingResponses", r, response>>
      OBVIOUS
    <3>3. \A q \in Ranks : \A m \in pendingResponses'[q] :
             m \in pendingResponses[q] \/ <<"pendingResponses", q, m>> = new
      BY <1>1, <3>1, <3>2
    <3>4. UnderWay' \subseteq (UnderWay \ {old}) \cup {new}
      BY <2>3, <2>4, <2>5, <3>1, <3>2, <3>3, UnderWayIs
    <3>5. new[3].id = old[3].id /\ new[3].results_from = old[3].results_from
      BY <2>4, <3>2
    <3> QED BY <2>3, <3>4, <3>5, ResultMoves
  <2> QED BY <2>6, <2>7
<1>10. ASSUME NEW response \in pendingResponses[0], HandleClientResponse(response) PROVE OnePlace'
  <2>0. PICK old \in UnderWay : old = <<"pendingResponses", 0, response>>
    BY <1>1, UnderWayIs
  <2>1. PICK id, from, entry :
           /\ id = response.id /\ from = response.results_from
           /\ entry = Count(pendingClientRequests[id], from)
    OBVIOUS
  <2>2. /\ pendingResponses' = [pendingResponses EXCEPT ![0] = @ \ {response}]
        /\ UNCHANGED <<requestCounter, latestQueryIDs, pendingRequests, shmResults, calls>>
    BY <1>10 DEF HandleClientResponse
  <2>3. \A q \in Ranks : \A m \in pendingResponses'[q] :
           m \in pendingResponses[q] /\ <<"pendingResponses", q, m>> # old
    BY <1>1, <2>0, <2>2
  <2>4. UnderWay' \subseteq UnderWay \ {old}
    BY <2>0, <2>2, <2>3, UnderWayIs
  <2>5. /\ id \in Nat /\ from \in Ranks /\ old[3].id = id /\ old[3].results_from = from
        /\ Known(id, from) /\ ~Counted(id, from)
    BY <1>2, <2>0, <2>1 DEF OnePlace
  <2>6. \A i, q : Known(i, q)' <=> Known(i, q)
    BY <2>2 DEF Known, Window
  <2>7. \A u \in UnderWay' : u \in UnderWay /\ ~(u[3].id = id /\ u[3].results_from = from)
    BY <2>4, <2>5 DEF OnePlace
  <2>8. \A q \in Ranks : \A m \in pendingRequests[q] : ~(m.id = id /\ q = from)
    BY <2>5 DEF OnePlace
  <2>9. CASE ~Wanted(id, from)
    <3>1. UNCHANGED <<pendingClientRequests, answers>>
      BY <1>10, <2>1, <2>9 DEF HandleClientResponse
    <3> QED BY <1>1, <2>2, <2>4, <3>1, ResultsStay
  <2>10. CASE Wanted(id, from)
    <3>1. id \in DOMAIN pendingClientRequests /\ EntryOK(pendingClientRequests[id])
      BY <2>10 DEF Wanted, EntriesOK
    <3>2. /\ entry.ranks = pendingClientRequests[id].ranks \cup {from}
          /\ Cardinality(entry.ranks) = NumProcesses => entry.ranks = Ranks
      <4>1. from \notin pendingClientRequests[id].ranks
        BY <2>10 DEF Wanted
      <4>2. Cardinality(entry.ranks) = NumProcesses => entry.ranks = Ranks
        BY <2>1, <2>5, <3>1, <4>1, CountFacts
      <4> QED BY <2>1, <4>2 DEF Count
    <3>3. \A i \in Nat, q \in Ranks : Counted(i, q)' => Counted(i, q) \/ (i = id /\ q = from)
      <4>1. CASE Cardinality(entry.ranks) = NumProcesses
        <5>1. CompleteRequest(id, entry)
          BY <1>10, <2>1, <2>10, <4>1 DEF HandleClientResponse
        <5> QED BY <3>1, <3>2, <4>1, <5>1 DEF CompleteRequest, Counted
      <4>2. CASE Cardinality(entry.ranks) # NumProcesses
        <5>1. pendingClientRequests' = [pendingClientRequests EXCEPT ![id] = entry] /\ UNCHANGED answers
          BY <1>10, <2>1, <2>10, <4>2 DEF HandleClientResponse
        <5> QED BY <3>1, <3>2, <5>1 DEF Counted
      <4> QED BY <4>1, <4>2
    <3>4. \A q \in Ranks : \A m \in pendingRequests'[q] :
             /\ Known(m.id, q)' /\ ~Counted(m.id, q)'
             /\ \A u \in UnderWay' : ~(u[3].id = m.id /\ u[3].results_from = q)
      BY <1>1, <2>2, <2>6, <2>7, <2>8, <3>3 DEF OnePlace
    <3>5. \A u \in UnderWay' :
             /\ Known(u[3].id, u[3].results_from)' /\ ~Counted(u[3].id, u[3].results_from)'
             /\ u[3].results_from \in Ranks
      BY <1>2, <2>6, <2>7, <3>3 DEF OnePlace
    <3>6. \A i \in Nat, q \in Ranks : Counted(i, q)' => Known(i, q)'
      BY <2>5, <2>6, <3>3 DEF OnePlace
    <3> QED BY <2>2, <2>4, <3>4, <3>5, <3>6 DEF OnePlace
  <2> QED BY <2>9, <2>10
<1>11. ASSUME NEW call \in calls, LoseCall(call) PROVE OnePlace'
  <2>1. /\ calls' \subseteq calls
        /\ UNCHANGED <<requestCounter, latestQueryIDs, pendingClientRequests, answers, pendingRequests,
                       pendingResponses, shmResults>>
    BY <1>11 DEF LoseCall
  <2>2. UnderWay' \subseteq UnderWay
    BY <2>1, UnderWayIs
  <2> QED BY <2>1, <2>2, ResultsStay
<1>12. ASSUME NEW r \in Ranks PROVE ~Restart(r)
  BY DEF Restart, WindowOK, NobodyForgets
<1>13. CASE UNCHANGED vars
  <2>1. UnderWay' = UnderWay
    BY <1>13 DEF vars, UnderWay
  <2> QED BY <1>13, <2>1, ResultsStay DEF vars
<1> QED BY <1>3, <1>4, <1>5, <1>6, <1>7, <1>8, <1>9, <1>10, <1>11, <1>12, <1>13
        DEF Next, Submit, Process, RequestWorker, ResponseWorker, ShmResponseWorker, HandleRpcs

LEMMA OnceInit == Init => RoutesOK /\ EntriesOK /\ WindowOK /\ OnePlace
<1> SUFFICES ASSUME Init PROVE RoutesOK /\ EntriesOK /\ WindowOK /\ OnePlace
  OBVIOUS
<1>1. RoutesOK /\ EntriesOK
  BY RoutesInit DEF Init, EntriesOK
<1>2. \A r \in Ranks : Window(r) = {} /\ Len(latestQueryIDs[r]) = 0 /\ latestQueryIDs[r] \in Seq(Queries)
  BY DEF Init, Window
<1>3. WindowOK
  BY <1>2, FS_EmptySet DEF Init, WindowOK
<1>4. \A u : u \notin UnderWay
  BY UnderWayIs DEF Init
<1>5. OnePlace
  BY <1>4 DEF Init, OnePlace, Counted
<1> QED BY <1>1, <1>3, <1>5

\* Where no process is restarted, no neighbour list leads back to rank 0 and the
\* window of a rank holds all ids, over whatever routes a query and its results
\* go and whatever calls are lost, a rank's result exists once: the diamond of
\* the configuration (rank 4 is queried by 2 and by 3) makes no second one.
THEOREM ResultsExistOnce == NobodyForgets => (Spec => []EveryResultOnce)
<1> SUFFICES ASSUME NobodyForgets PROVE Spec => []EveryResultOnce
  OBVIOUS
<1>1. Init => RoutesOK /\ EntriesOK /\ WindowOK /\ OnePlace
  BY OnceInit
<1>2. RoutesOK /\ EntriesOK /\ WindowOK /\ OnePlace /\ [Next]_vars =>
          RoutesOK' /\ EntriesOK' /\ WindowOK' /\ OnePlace'
  BY RoutesStep, ServiceStep, WindowStep, OnceStep
<1>3. OnePlace => EveryResultOnce
  <2> SUFFICES ASSUME OnePlace, NEW id \in Queries, NEW from \in Ranks
               PROVE  Cardinality({u \in UnderWay : u[3].id = id /\ u[3].results_from = from})
                         <= IF Counted(id, from) THEN 0 ELSE 1
    BY DEF EveryResultOnce, Counted
  <2>1. PICK mine : mine = {u \in UnderWay : u[3].id = id /\ u[3].results_from = from}
    OBVIOUS
  <2>2. CASE mine = {}
    <3>1. Cardinality(mine) = 0
      BY <2>2, FS_EmptySet
    <3> QED BY <2>1, <3>1
  <2>3. CASE mine # {}
    <3>1. PICK u \in mine : mine = {u}
      BY <2>1, <2>3 DEF OnePlace
    <3>2. ~Counted(id, from)
      BY <2>1, <3>1 DEF OnePlace
    <3>3. Cardinality(mine) = 1
      BY <3>1, FS_Singleton
    <3> QED BY <2>1, <3>2, <3>3
  <2> QED BY <2>2, <2>3
<1> QED BY <1>1, <1>2, <1>3, PTL DEF Spec

-----------------------------------------------------------------------------
(* No ring overflows *)

\* The rings have room for the requests, or all results, of as many queries as
\* clients wait for at a time: with five processes and MAX_CONCURRENT_REQUESTS
\* clients this is what the code's "5 * MAX_CONCURRENT_REQUESTS" gives.
RoomForClients ==
    /\ MaxClients \in Nat
    /\ MaxClients <= MAX_CONCURRENT_REQUESTS
    /\ MaxClients * NumProcesses <= MAX_CONCURRENT_RESPONSES
    /\ MaxClients * NumProcesses <= SHM_RESULTS

Open == DOMAIN pendingClientRequests

Issued(id) == id \in Open \/ id \in DOMAIN answers

\* Only queries that have been numbered are asked, searched for and answered.
IdsIssued ==
    /\ \A r \in Ranks : \A m \in pendingRequests[r] : Issued(m.id)
    /\ \A r \in Ranks : \A w \in requestWork[r] : Issued(w.request.id)
    /\ \A call \in calls : Asks(call) => Issued(call.SendRequest.id)
    /\ \A u \in UnderWay : Issued(u[3].id)

ClientsBounded == IsFiniteSet(Open) /\ Cardinality(Open) <= MaxClients

NobodyTerminated == DOMAIN running = Ranks /\ NoRingOverflows

RoomInv == IdsIssued /\ ClientsBounded /\ NobodyTerminated

LEMMA Multiplied ==
    ASSUME NEW a \in Nat, NEW b \in Nat, NEW n \in Nat, a <= b
    PROVE  a * n <= b * n
OBVIOUS

\* What is still to be done or under way belongs to a client that waits.
LEMMA OnlyOpen ==
    ASSUME OnePlace, IdsIssued
    PROVE  /\ \A r \in Ranks : \A m \in pendingRequests[r] : m.id \in Open
           /\ \A u \in UnderWay : u[3].id \in Open
BY DEF OnePlace, IdsIssued, Issued, Counted

\* As many requests as clients wait for, at most, and one less if a rank has not
\* got the request of one of them.
LEMMA RoomForRequest ==
    ASSUME OnePlace, IdsIssued, ClientsBounded, NEW r \in Ranks
    PROVE  /\ IsFiniteSet(pendingRequests[r]) /\ Cardinality(pendingRequests[r]) <= Cardinality(Open)
           /\ \A id \in Open : (\A m \in pendingRequests[r] : m.id # id)
                               => Cardinality(pendingRequests[r]) < Cardinality(Open)
<1> DEFINE f == [m \in pendingRequests[r] |-> m.id]
<1>1. \A m, n \in pendingRequests[r] : m.id = n.id => m = n
  BY DEF OnePlace
<1>2. \A m \in pendingRequests[r] : m.id \in Open
  BY OnlyOpen
<1>3. IsFiniteSet(Open) /\ Cardinality(Open) \in Nat
  BY FS_CardinalityType DEF ClientsBounded
<1>4. ASSUME NEW K, IsFiniteSet(K), \A m \in pendingRequests[r] : m.id \in K
      PROVE  IsFiniteSet(pendingRequests[r]) /\ Cardinality(pendingRequests[r]) <= Cardinality(K)
  <2>1. f \in Injection(pendingRequests[r], K)
    BY <1>1, <1>4 DEF Injection, IsInjective
  <2> HIDE DEF f
  <2> QED BY <1>4, <2>1, FS_Injection
<1>5. ASSUME NEW id \in Open, \A m \in pendingRequests[r] : m.id # id
      PROVE  Cardinality(pendingRequests[r]) < Cardinality(Open)
  <2>1. IsFiniteSet(Open \ {id}) /\ Cardinality(Open \ {id}) = Cardinality(Open) - 1
    BY <1>3, <1>5, FS_RemoveElement
  <2>2. \A m \in pendingRequests[r] : m.id \in Open \ {id}
    BY <1>2, <1>5
  <2>3. IsFiniteSet(pendingRequests[r]) /\ Cardinality(pendingRequests[r]) <= Cardinality(Open \ {id})
    BY <1>4, <2>1, <2>2
  <2>4. Cardinality(pendingRequests[r]) \in Nat
    BY <2>3, FS_CardinalityType
  <2> QED BY <1>3, <2>1, <2>3, <2>4
<1> QED BY <1>2, <1>3, <1>4, <1>5

\* A set of results, none of which is the one of rank "from" for query id, has
\* not got all results of the clients that wait.
LEMMA RoomForResult ==
    ASSUME RoomForClients, ClientsBounded, NEW S, NEW id \in Open, NEW from \in Ranks,
           \A m \in S : /\ m.id \in Open /\ m.results_from \in Ranks
                        /\ ~(m.id = id /\ m.results_from = from),
           \A m, n \in S : m.id = n.id /\ m.results_from = n.results_from => m = n
    PROVE  /\ Cardinality(S) < MAX_CONCURRENT_RESPONSES
           /\ Cardinality(S) < SHM_RESULTS
<1> DEFINE f == [m \in S |-> <<m.id, m.results_from>>]
           K == (Open \X Ranks) \ {<<id, from>>}
<1>1. f \in Injection(S, K)
  BY DEF Injection, IsInjective
<1>2. IsFiniteSet(Ranks) /\ Cardinality(Ranks) = NumProcesses /\ NumProcesses \in Nat
  <2>1. NumProcesses - 1 \in Int /\ ~(0 > NumProcesses - 1) /\ (NumProcesses - 1) - 0 + 1 = NumProcesses
    BY NetworkAssumption
  <2> QED BY <2>1, FS_Interval, NetworkAssumption DEF Ranks
<1>3. IsFiniteSet(Open) /\ Cardinality(Open) \in Nat /\ Cardinality(Open) <= MaxClients /\ MaxClients \in Nat
  BY FS_CardinalityType DEF ClientsBounded, RoomForClients
<1>4. IsFiniteSet(Open \X Ranks) /\ Cardinality(Open \X Ranks) = Cardinality(Open) * NumProcesses
  BY <1>2, <1>3, FS_Product
<1>5. IsFiniteSet(K) /\ Cardinality(K) = Cardinality(Open \X Ranks) - 1
  BY <1>4, FS_RemoveElement
<1> HIDE DEF f, K
<1>6. IsFiniteSet(S) /\ Cardinality(S) <= Cardinality(K)
  BY <1>1, <1>5, FS_Injection
<1>7. Cardinality(S) \in Nat /\ Cardinality(Open \X Ranks) \in Nat
  BY <1>4, <1>6, FS_CardinalityType
<1>8. Cardinality(Open \X Ranks) <= MaxClients * NumProcesses /\ MaxClients * NumProcesses \in Nat
  BY <1>2, <1>3, <1>4, Multiplied
<1>9. /\ MAX_CONCURRENT_RESPONSES \in Nat /\ SHM_RESULTS \in Nat
      /\ MaxClients * NumProcesses <= MAX_CONCURRENT_RESPONSES
      /\ MaxClients * NumProcesses <= SHM_RESULTS
  BY NetworkAssumption DEF RoomForClients
<1> QED BY <1>5, <1>6, <1>7, <1>8, <1>9

\* Where a result is held there is none that is about the same.
LEMMA HeldResults ==
    ASSUME OnePlace, IdsIssued, NEW r \in Ranks
    PROVE  /\ \A m \in pendingResponses[r] \cup shmResults[r] : m.id \in Open /\ m.results_from \in Ranks
           /\ \A m, n \in pendingResponses[r] : m.id = n.id /\ m.results_from = n.results_from => m = n
           /\ \A m, n \in shmResults[r] : m.id = n.id /\ m.results_from = n.results_from => m = n
<1>1. /\ \A m \in pendingResponses[r] : <<"pendingResponses", r, m>> \in UnderWay
      /\ \A m \in shmResults[r] : <<"shmResults", r, m>> \in UnderWay
  BY UnderWayIs
<1>2. \A m : <<"pendingResponses", r, m>>[3] = m /\ <<"shmResults", r, m>>[3] = m
  OBVIOUS
<1>3. \A m \in pendingResponses[r] \cup shmResults[r] : m.id \in Open /\ m.results_from \in Ranks
  BY <1>1, <1>2, OnlyOpen DEF OnePlace
<1>4. ASSUME NEW m \in pendingResponses[r], NEW n \in pendingResponses[r],
             m.id = n.id, m.results_from = n.results_from
      PROVE  m = n
  <2>1. PICK u, v : u = <<"pendingResponses", r, m>> /\ v = <<"pendingResponses", r, n>>
    OBVIOUS
  <2>2. u \in UnderWay /\ v \in UnderWay /\ u[3] = m /\ v[3] = n
    BY <1>1, <2>1
  <2>3. u = v
    BY <1>4, <2>2 DEF OnePlace
  <2> QED BY <2>1, <2>3
<1>5. ASSUME NEW m \in shmResults[r], NEW n \in shmResults[r],
             m.id = n.id, m.results_from = n.results_from
      PROVE  m = n
  <2>1. PICK u, v : u = <<"shmResults", r, m>> /\ v = <<"shmResults", r, n>>
    OBVIOUS
  <2>2. u \in UnderWay /\ v \in UnderWay /\ u[3] = m /\ v[3] = n
    BY <1>1, <2>1
  <2>3. u = v
    BY <1>5, <2>2 DEF OnePlace
  <2> QED BY <2>1, <2>3
<1> QED BY <1>3, <1>4, <1>5

\* What goes on, whatever is done: nobody has to be numbered or waits anew, no
\* process has terminated.
LEMMA RoomKept ==
    ASSUME RoomInv, UNCHANGED <<pendingClientRequests, answers, running>>,
           \A r \in Ranks : \A m \in pendingRequests'[r] : Issued(m.id),
           \A r \in Ranks : \A w \in requestWork'[r] : Issued(w.request.id),
           \A call \in calls' : Asks(call) => Issued(call.SendRequest.id),
           \A u \in UnderWay' : Issued(u[3].id)
    PROVE  RoomInv'
<1>1. Open' = Open /\ \A id : Issued(id)' <=> Issued(id)
  BY DEF Open, Issued
<1> QED BY <1>1 DEF RoomInv, IdsIssued, ClientsBounded, NobodyTerminated, NoRingOverflows

\* A push onto a ring that has room does not throw.
LEMMA PushFits ==
    ASSUME NEW r, NEW to, NEW item, NEW capacity
    PROVE  /\ Push(pendingRequests, to, item, capacity, r) /\ Cardinality(pendingRequests[to]) < capacity
              => pendingRequests' = [pendingRequests EXCEPT ![to] = @ \cup {item}] /\ UNCHANGED running
           /\ Push(pendingResponses, to, item, capacity, r) /\ Cardinality(pendingResponses[to]) < capacity
              => pendingResponses' = [pendingResponses EXCEPT ![to] = @ \cup {item}] /\ UNCHANGED running
           /\ Push(shmResults, to, item, capacity, r) /\ Cardinality(shmResults[to]) < capacity
              => shmResults' = [shmResults EXCEPT ![to] = @ \cup {item}] /\ UNCHANGED running
BY DEF Push

\* A message that is under way after a step is one that was, or it is new
\* where it is held; what a rank holds is under way.
LEMMA HeldUnderWay ==
    /\ \A u \in UnderWay' :
          \/ u \in UnderWay
          \/ \E r \in Ranks : u[3] \in pendingResponses'[r] \ pendingResponses[r]
          \/ \E r \in Ranks : u[3] \in shmResults'[r] \ shmResults[r]
          \/ \E c \in calls' \ calls : Replies(c) /\ u[3] = c.ReceiveResponse
    /\ \A r \in Ranks : \A m \in pendingResponses[r] :
          \E u \in UnderWay : u[1] = "pendingResponses" /\ u[2] = r /\ u[3] = m
    /\ \A r \in Ranks : \A m \in shmResults[r] :
          \E u \in UnderWay : u[1] = "shmResults" /\ u[2] = r /\ u[3] = m
<1>1. ASSUME NEW u \in UnderWay'
      PROVE  \/ u \in UnderWay
             \/ \E r \in Ranks : u[3] \in pendingResponses'[r] \ pendingResponses[r]
             \/ \E r \in Ranks : u[3] \in shmResults'[r] \ shmResults[r]
             \/ \E c \in calls' \ calls : Replies(c) /\ u[3] = c.ReceiveResponse
  <2>1. CASE \E r \in Ranks : \E m \in pendingResponses'[r] : u = <<"pendingResponses", r, m>>
    <3>1. PICK r, m : r \in Ranks /\ m \in pendingResponses'[r] /\ u = <<"pendingResponses", r, m>>
      BY <2>1
    <3>2. u[3] = m /\ (m \in pendingResponses[r] => u \in UnderWay)
      BY <3>1, UnderWayIs
    <3> QED BY <3>1, <3>2
  <2>2. CASE \E r \in Ranks : \E m \in shmResults'[r] : u = <<"shmResults", r, m>>
    <3>1. PICK r, m : r \in Ranks /\ m \in shmResults'[r] /\ u = <<"shmResults", r, m>>
      BY <2>2
    <3>2. u[3] = m /\ (m \in shmResults[r] => u \in UnderWay)
      BY <3>1, UnderWayIs
    <3> QED BY <3>1, <3>2
  <2>3. CASE \E c \in calls' : Replies(c) /\ u = <<"calls", c.to, c.ReceiveResponse>>
    <3>1. PICK c : c \in calls' /\ Replies(c) /\ u = <<"calls", c.to, c.ReceiveResponse>>
      BY <2>3
    <3>2. u[3] = c.ReceiveResponse /\ (c \in calls => u \in UnderWay)
      BY <3>1, UnderWayIs
    <3> QED BY <3>1, <3>2
  <2> QED BY <2>1, <2>2, <2>3, UnderWayIs
<1>2. ASSUME NEW r \in Ranks, NEW m \in pendingResponses[r]
      PROVE  \E u \in UnderWay : u[1] = "pendingResponses" /\ u[2] = r /\ u[3] = m
  <2>1. PICK u : u = <<"pendingResponses", r, m>>
    OBVIOUS
  <2> QED BY <2>1, UnderWayIs
<1>3. ASSUME NEW r \in Ranks, NEW m \in shmResults[r]
      PROVE  \E u \in UnderWay : u[1] = "shmResults" /\ u[2] = r /\ u[3] = m
  <2>1. PICK u : u = <<"shmResults", r, m>>
    OBVIOUS
  <2> QED BY <2>1, UnderWayIs
<1> QED BY <1>1, <1>2, <1>3

LEMMA RoomStep ==
    ASSUME NobodyForgets, RoomForClients, RoutesOK, EntriesOK, WindowOK, OnePlace, RoomInv, [MCNext]_vars
    PROVE  RoomInv'
<1>1. /\ DOMAIN pendingRequests = Ranks /\ DOMAIN pendingResponses = Ranks /\ DOMAIN shmResults = Ranks
      /\ DOMAIN requestWork = Ranks /\ 0 \in Ranks
  BY RankFacts DEF RoutesOK
<1>2. /\ IdsIssued /\ ClientsBounded /\ NobodyTerminated
      /\ Cardinality(Open) \in Nat /\ MaxClients \in Nat /\ MAX_CONCURRENT_REQUESTS \in Nat
      /\ MaxClients <= MAX_CONCURRENT_REQUESTS /\ Cardinality(Open) <= MaxClients
  BY FS_CardinalityType, NetworkAssumption DEF RoomInv, ClientsBounded, RoomForClients
<1>3. ASSUME NEW path \in ClientPaths, GetCollisions(path), Cardinality(Open) < MaxClients PROVE RoomInv'
  <2> PICK id, request : id = requestCounter /\ request = [id |-> requestCounter, requested_by |-> path]
    OBVIOUS
  <2>1. /\ Open' = Open \cup {id}
        /\ Push(pendingRequests, 0, request, MAX_CONCURRENT_REQUESTS, 0)
        /\ UNCHANGED <<answers, requestWork, calls, pendingResponses, shmResults>>
    BY <1>3 DEF GetCollisions, Open
  <2>2. /\ IsFiniteSet(pendingRequests[0]) /\ Cardinality(pendingRequests[0]) <= Cardinality(Open)
        /\ Cardinality(pendingRequests[0]) \in Nat
    BY <1>1, <1>2, RoomForRequest, FS_CardinalityType
  <2>3. pendingRequests' = [pendingRequests EXCEPT ![0] = @ \cup {request}] /\ UNCHANGED running
    BY <1>2, <1>3, <2>1, <2>2, PushFits
  <2>4. /\ Issued(id)' /\ request.id = id /\ \A i : Issued(i) => Issued(i)'
    BY <2>1 DEF Issued
  <2>5. IsFiniteSet(Open') /\ Cardinality(Open') <= MaxClients
    BY <1>2, <1>3, <2>1, FS_AddElement DEF ClientsBounded
  <2>6. \A r \in Ranks : \A m \in pendingRequests'[r] : m \in pendingRequests[r] \/ m = request
    BY <1>1, <2>3
  <2>7. UnderWay' = UnderWay
    BY <2>1 DEF UnderWay
  <2> QED BY <1>2, <2>1, <2>3, <2>4, <2>5, <2>6, <2>7
          DEF RoomInv, IdsIssued, ClientsBounded, NobodyTerminated, NoRingOverflows
<1>4. ASSUME NEW r \in Ranks, NEW request \in pendingRequests[r], HandleRequest(r, request) PROVE RoomInv'
  <2> DEFINE mine == [request EXCEPT !.requested_by = Append(@, r)]
  <2> PICK response, todo :
        /\ response = [id |-> mine.id, requested_by |-> mine.requested_by, results_from |-> r]
        /\ todo = PassOn(mine, LogicalNeighbors[r])
    OBVIOUS
  <2>1. /\ response.id = request.id /\ response.results_from = r
        /\ \A w \in todo : w.request.id = request.id
    <3>1. mine.id = request.id
      BY DEF RoutesOK, RequestFor, IsRequest
    <3> HIDE DEF mine
    <3>2. \A w \in todo : w.request = mine
      BY DEF PassOn
    <3> QED BY <3>1, <3>2
  <2>2. /\ pendingRequests' = [pendingRequests EXCEPT ![r] = @ \ {request}]
        /\ Push(pendingResponses, r, response, MAX_CONCURRENT_RESPONSES, r)
        /\ requestWork' = [requestWork EXCEPT ![r] = @ \cup todo]
        /\ UNCHANGED <<pendingClientRequests, answers, shmResults, calls>>
    BY <1>4 DEF HandleRequest
  <2>3. request.id \in Open /\ Issued(request.id)
    BY <1>2, OnlyOpen DEF IdsIssued
  <2>4. \A m \in pendingResponses[r] : ~(m.id = request.id /\ m.results_from = r)
    <3> SUFFICES ASSUME NEW m \in pendingResponses[r] PROVE ~(m.id = request.id /\ m.results_from = r)
      OBVIOUS
    <3>1. PICK u \in UnderWay : u[3] = m
      BY HeldUnderWay
    <3> QED BY <3>1 DEF OnePlace
  <2>5. Cardinality(pendingResponses[r]) < MAX_CONCURRENT_RESPONSES
    <3>1. OnePlace /\ IdsIssued /\ ClientsBounded /\ RoomForClients
      BY <1>2
    <3>2. /\ \A m \in pendingResponses[r] : m.id \in Open /\ m.results_from \in Ranks
          /\ \A m, n \in pendingResponses[r] : m.id = n.id /\ m.results_from = n.results_from => m = n
      BY <3>1, HeldResults
    <3> QED BY <2>3, <2>4, <3>1, <3>2, RoomForResult
  <2>6. pendingResponses' = [pendingResponses EXCEPT ![r] = @ \cup {response}] /\ UNCHANGED running
    BY <2>2, <2>5 DEF Push
  <2>7. \A q \in Ranks : \A m \in pendingResponses'[q] : m \in pendingResponses[q] \/ m = response
    BY <1>1, <2>6
  <2>8. \A u \in UnderWay' : u \in UnderWay \/ u[3] = response
    <3>1. \A c : c \notin calls' \ calls
      BY <2>2
    <3>2. \A q : shmResults'[q] = shmResults[q]
      BY <2>2
    <3>3. \A u \in UnderWay' : u \in UnderWay
                               \/ \E q \in Ranks : u[3] \in pendingResponses'[q] \ pendingResponses[q]
      BY <3>1, <3>2, HeldUnderWay
    <3> QED BY <2>7, <3>3
  <2>9. /\ \A q \in Ranks : pendingRequests'[q] \subseteq pendingRequests[q]
        /\ \A q \in Ranks : \A w \in requestWork'[q] : w \in requestWork[q] \/ w \in todo
    BY <1>1, <2>2
  <2> QED BY <1>2, <2>1, <2>2, <2>3, <2>6, <2>8, <2>9, RoomKept DEF IdsIssued
<1>5. ASSUME NEW r \in Ranks, NEW work \in requestWork[r], QueryPeer(r, work) PROVE RoomInv'
  <2> PICK call, rest :
        /\ call = [SendRequest |-> work.request, to |-> Head(work.todo)]
        /\ rest = PassOn(work.request, Tail(work.todo))
    OBVIOUS
  <2>1. ~Replies(call) /\ call.SendRequest = work.request /\ \A w \in rest : w.request = work.request
    BY DEF Replies, PassOn
  <2>2. /\ calls' = calls \cup {call}
        /\ requestWork' = [requestWork EXCEPT ![r] = (@ \ {work}) \cup rest]
        /\ UNCHANGED <<pendingClientRequests, answers, running, pendingRequests, pendingResponses, shmResults>>
    BY <1>5 DEF QueryPeer
  <2>3. Issued(work.request.id)
    BY <1>2 DEF IdsIssued
  <2>4. \A u \in UnderWay' : u \in UnderWay
    BY <2>1, <2>2, UnderWayIs
  <2>5. \A q \in Ranks : \A w \in requestWork'[q] : w \in requestWork[q] \/ w \in rest
    BY <1>1, <2>2
  <2> QED BY <1>2, <2>1, <2>2, <2>3, <2>4, <2>5, RoomKept DEF IdsIssued
<1>6. ASSUME NEW call \in calls, SendRequest(call) PROVE RoomInv'
  <2> PICK r, id, request : r = call.to /\ request = call.SendRequest /\ id = request.id
    OBVIOUS
  <2>1. /\ r \in Ranks \ {0} /\ id \in Queries /\ id \in Nat /\ calls' = calls \ {call} /\ Issued(id)
        /\ UNCHANGED <<pendingClientRequests, answers, requestWork, pendingResponses, shmResults>>
    BY <1>2, <1>6 DEF SendRequest, WindowOK, RoutesOK, CallOnRoute, Asks, IdsIssued, Queries
  <2>2. UnderWay' \subseteq UnderWay
    BY <2>1, UnderWayIs
  <2>3. UNCHANGED running /\ \A q \in Ranks : \A m \in pendingRequests'[q] : m \in pendingRequests[q] \/ m = request
    <3>1. CASE isDuplicateQueryID(r, id)
      BY <1>6, <3>1 DEF SendRequest
    <3>2. CASE ~isDuplicateQueryID(r, id)
      <4>1. ~Known(id, r) /\ Push(pendingRequests, r, request, MAX_CONCURRENT_REQUESTS, r)
        BY <1>6, <2>1, <3>2 DEF SendRequest, isDuplicateQueryID, Known, Window
      <4>2. ~Counted(id, r) /\ \A m \in pendingRequests[r] : m.id # id
        BY <2>1, <4>1 DEF OnePlace
      <4>3. id \in Open
        BY <2>1, <4>2 DEF Issued, Counted
      <4>4. /\ IsFiniteSet(pendingRequests[r]) /\ Cardinality(pendingRequests[r]) < Cardinality(Open)
            /\ Cardinality(pendingRequests[r]) \in Nat
        BY <1>2, <2>1, <4>2, <4>3, RoomForRequest, FS_CardinalityType
      <4>5. pendingRequests' = [pendingRequests EXCEPT ![r] = @ \cup {request}] /\ UNCHANGED running
        BY <1>2, <4>1, <4>4, PushFits
      <4> QED BY <1>1, <4>5
    <3> QED BY <3>1, <3>2
  <2> QED BY <1>2, <2>1, <2>2, <2>3, RoomKept DEF IdsIssued
<1>7. ASSUME NEW r \in Ranks, NEW response \in pendingResponses[r], HandleResponse(r, response) PROVE RoomInv'
  <2> PICK parent, forwarded, old :
        /\ parent = Parent(response.requested_by)
        /\ forwarded = [response EXCEPT !.requested_by = PopBack(@)]
        /\ old = <<"pendingResponses", r, response>>
    OBVIOUS
  <2>1. /\ forwarded.id = response.id /\ forwarded.results_from = response.results_from
        /\ old \in UnderWay /\ old[3] = response /\ Issued(response.id) /\ parent \in Ranks
    <3>1. ResponseAt(response, r) /\ r \in Ranks \ {0}
      BY <1>7 DEF RoutesOK, HandleResponse
    <3>2. forwarded.id = response.id /\ forwarded.results_from = response.results_from /\ parent \in Ranks
      BY <3>1, ResponseToParent DEF ResponseAt, IsResponse, IsRequest
    <3>3. old \in UnderWay /\ old[3] = response
      BY UnderWayIs
    <3> QED BY <1>2, <3>2, <3>3 DEF IdsIssued
  <2>2. /\ pendingResponses' = [pendingResponses EXCEPT ![r] = @ \ {response}]
        /\ \/ Push(shmResults, parent, forwarded, SHM_RESULTS, r) /\ UNCHANGED calls
           \/ /\ calls' = calls \cup {[ReceiveResponse |-> response, to |-> parent]}
              /\ UNCHANGED <<shmResults, running>>
        /\ UNCHANGED <<pendingClientRequests, answers, pendingRequests, requestWork>>
    BY <1>7 DEF HandleResponse, SendThroughSharedMemory
  <2>3. Cardinality(shmResults[parent]) < SHM_RESULTS
    <3>1. ASSUME NEW m \in shmResults[parent], m.id = response.id, m.results_from = response.results_from
          PROVE  FALSE
      <4>1. PICK u \in UnderWay : u = <<"shmResults", parent, m>>
        BY <2>1, UnderWayIs
      <4>2. u[3] = m /\ u # old
        BY <4>1
      <4> QED BY <2>1, <3>1, <4>2 DEF OnePlace
    <3>2. response.id \in Open /\ response.results_from \in Ranks
      BY <1>2, HeldResults
    <3> QED BY <1>2, <2>1, <3>1, <3>2, HeldResults, RoomForResult
  <2>4. /\ UNCHANGED running
        /\ \A q \in Ranks : \A m \in pendingResponses'[q] : m \in pendingResponses[q]
        /\ \A q \in Ranks : \A m \in shmResults'[q] : m \in shmResults[q] \/ m = forwarded
        /\ \A c \in calls' : c \in calls \/ (c.ReceiveResponse = response /\ ~Asks(c))
    <3>1. CASE Push(shmResults, parent, forwarded, SHM_RESULTS, r) /\ UNCHANGED calls
      <4>1. shmResults' = [shmResults EXCEPT ![parent] = @ \cup {forwarded}] /\ UNCHANGED running
        BY <2>3, <3>1 DEF Push
      <4> QED BY <1>1, <2>2, <3>1, <4>1
    <3>2. CASE /\ calls' = calls \cup {[ReceiveResponse |-> response, to |-> parent]}
               /\ UNCHANGED <<shmResults, running>>
      <4>1. PICK c : c = [ReceiveResponse |-> response, to |-> parent]
        OBVIOUS
      <4>2. c.ReceiveResponse = response /\ ~Asks(c)
        BY <4>1 DEF Asks
      <4> QED BY <1>1, <2>2, <3>2, <4>1, <4>2
    <3> QED BY <2>2, <3>1, <3>2
  <2>5. \A u \in UnderWay' : u \in UnderWay \/ u[3].id = response.id
    <3>1. forwarded.id = response.id
      BY <2>1
    <3>2. \A u \in UnderWay' : u \in UnderWay \/ u[3] = response \/ u[3] = forwarded
      BY <2>4, HeldUnderWay
    <3> QED BY <3>1, <3>2
  <2> QED BY <1>2, <2>1, <2>2, <2>4, <2>5, RoomKept DEF IdsIssued
<1>8. ASSUME NEW call \in calls, ReceiveResponse(call) PROVE RoomInv'
  <2> PICK r, response, forwarded, old :
        /\ r = call.to /\ response = call.ReceiveResponse
        /\ forwarded = [response EXCEPT !.requested_by = PopBack(@)]
        /\ old = <<"calls", r, response>>
    OBVIOUS
  <2>1. /\ r \in Ranks /\ forwarded.id = response.id /\ forwarded.results_from = response.results_from
        /\ old \in UnderWay /\ old[3] = response
    <3>1. Replies(call) /\ IsResponse(response) /\ r \in Ranks
      BY <1>8 DEF ReceiveResponse, Replies, RoutesOK, CallOnRoute, ResponseAt
    <3>2. old \in UnderWay /\ old[3] = response
      BY <3>1, UnderWayIs
    <3> QED BY <3>1, <3>2 DEF IsResponse, IsRequest
  <2>2. /\ calls' = calls \ {call}
        /\ Push(pendingResponses, r, forwarded, MAX_CONCURRENT_RESPONSES, r)
        /\ UNCHANGED <<pendingClientRequests, answers, pendingRequests, requestWork, shmResults>>
    BY <1>8 DEF ReceiveResponse
  <2>3. Issued(response.id) /\ response.id \in Open /\ response.results_from \in Ranks
    BY <1>2, <2>1, OnlyOpen DEF IdsIssued, OnePlace
  <2>4. Cardinality(pendingResponses[r]) < MAX_CONCURRENT_RESPONSES
    <3>1. ASSUME NEW m \in pendingResponses[r], m.id = response.id, m.results_from = response.results_from
          PROVE  FALSE
      <4>1. PICK u \in UnderWay : u = <<"pendingResponses", r, m>>
        BY <2>1, UnderWayIs
      <4>2. u[3] = m /\ u # old
        BY <4>1
      <4> QED BY <2>1, <3>1, <4>2 DEF OnePlace
    <3> QED BY <1>2, <2>1, <2>3, <3>1, HeldResults, RoomForResult
  <2>5. pendingResponses' = [pendingResponses EXCEPT ![r] = @ \cup {forwarded}] /\ UNCHANGED running
    BY <2>2, <2>4, PushFits
  <2>6. \A q \in Ranks : \A m \in pendingResponses'[q] : m \in pendingResponses[q] \/ m = forwarded
    BY <1>1, <2>5
  <2>7. \A u \in UnderWay' : u \in UnderWay \/ u[3].id = response.id
    <3>1. forwarded.id = response.id
      BY <2>1
    <3>2. \A u \in UnderWay' : u \in UnderWay \/ u[3] = forwarded
      <4>1. \A c : c \notin calls' \ calls
        BY <2>2
      <4>2. \A q : shmResults'[q] = shmResults[q]
        BY <2>2
      <4> QED BY <2>6, <4>1, <4>2, HeldUnderWay
    <3> QED BY <3>1, <3>2
  <2> QED BY <1>2, <2>2, <2>3, <2>5, <2>7, RoomKept DEF IdsIssued
<1>9. ASSUME NEW r \in Ranks, NEW response \in shmResults[r], HandleSharedMemoryResponse(r, response)
      PROVE  RoomInv'
  <2> PICK parent, forwarded, popped, old :
        /\ parent = Parent(response.requested_by)
        /\ forwarded = [response EXCEPT !.requested_by = PopBack(@)]
        /\ popped = [shmResults EXCEPT ![r] = @ \ {response}]
        /\ old = <<"shmResults", r, response>>
    OBVIOUS
  <2>1. /\ forwarded.id = response.id /\ forwarded.results_from = response.results_from
        /\ old \in UnderWay /\ old[3] = response /\ Issued(response.id)
        /\ response.id \in Open /\ response.results_from \in Ranks
        /\ r # 0 => parent \in Ranks
    <3>1. ResponseAt(response, r)
      BY DEF RoutesOK
    <3>2. /\ forwarded.id = response.id /\ forwarded.results_from = response.results_from
          /\ r # 0 => parent \in Ranks
      BY <3>1, ResponseToParent DEF ResponseAt, IsResponse, IsRequest
    <3>3. old \in UnderWay /\ old[3] = response
      BY UnderWayIs
    <3> QED BY <1>2, <3>2, <3>3, HeldResults DEF IdsIssued
  <2>2. UNCHANGED <<pendingClientRequests, answers, pendingRequests, requestWork, calls>>
    BY <1>9 DEF HandleSharedMemoryResponse
  <2>3. \A q \in Ranks : \A m \in popped[q] : m \in shmResults[q] /\ (q # r \/ m # response)
    BY <1>1
  <2>4. \A q \in Ranks : \A m \in popped[q] \cup pendingResponses[q] :
           ~(m.id = response.id /\ m.results_from = response.results_from)
    <3> SUFFICES ASSUME NEW q \in Ranks, NEW m \in popped[q] \cup pendingResponses[q],
                        m.id = response.id, m.results_from = response.results_from
                 PROVE  FALSE
      OBVIOUS
    <3>1. PICK u \in UnderWay : u[3] = m /\ u # old
      <4>1. old[1] = "shmResults" /\ old[2] = r /\ old[3] = response
        OBVIOUS
      <4>2. CASE m \in popped[q]
        <5>1. m \in shmResults[q] /\ (q # r \/ m # response)
          BY <2>3, <4>2
        <5> QED BY <4>1, <5>1, HeldUnderWay
      <4>3. CASE m \in pendingResponses[q]
        BY <4>1, <4>3, HeldUnderWay
      <4> QED BY <4>2, <4>3
    <3> QED BY <2>1, <3>1 DEF OnePlace
  <2>5. CASE r # 0 /\ isSameNodeProcess(r, parent)
    <3>1. Cardinality(popped[parent]) < SHM_RESULTS
      BY <1>2, <2>1, <2>3, <2>4, <2>5, HeldResults, RoomForResult
    <3>2. shmResults' = [popped EXCEPT ![parent] = @ \cup {forwarded}] /\ UNCHANGED <<running, pendingResponses>>
      BY <1>9, <2>5, <3>1 DEF HandleSharedMemoryResponse
    <3>3. \A q \in Ranks : \A m \in shmResults'[q] : m \in shmResults[q] \/ m = forwarded
      BY <1>1, <2>3, <3>2
    <3>4. \A u \in UnderWay' : u \in UnderWay \/ u[3].id = response.id
      <4>1. \A c : c \notin calls' \ calls
        BY <2>2
      <4>2. \A q : pendingResponses'[q] = pendingResponses[q]
        BY <3>2
      <4>3. \A u \in UnderWay' : u \in UnderWay \/ u[3] = forwarded
        BY <3>3, <4>1, <4>2, HeldUnderWay
      <4> QED BY <2>1, <4>3
    <3> QED BY <1>2, <2>1, <2>2, <3>2, <3>4, RoomKept DEF IdsIssued
  <2>6. CASE ~(r # 0 /\ isSameNodeProcess(r, parent))
    <3>1. Cardinality(pendingResponses[r]) < MAX_CONCURRENT_RESPONSES
      BY <1>2, <2>1, <2>4, HeldResults, RoomForResult
    <3>2. /\ shmResults' = popped
          /\ Push(pendingResponses, r, response, MAX_CONCURRENT_RESPONSES, r)
      BY <1>9, <2>6 DEF HandleSharedMemoryResponse
    <3>3. pendingResponses' = [pendingResponses EXCEPT ![r] = @ \cup {response}] /\ UNCHANGED running
      BY <3>1, <3>2, PushFits
    <3>4. \A q \in Ranks : \A m \in pendingResponses'[q] : m \in pendingResponses[q] \/ m = response
      BY <1>1, <3>3
    <3>5. \A u \in UnderWay' : u \in UnderWay \/ u[3].id = response.id
      BY <1>1, <2>2, <2>3, <3>2, <3>4, HeldUnderWay
    <3> QED BY <1>2, <2>1, <2>2, <3>3, <3>5, RoomKept DEF IdsIssued
  <2> QED BY <2>5, <2>6
\* The one step that closes a query: its answer is given.
<1>10. ASSUME NEW response \in pendingResponses[0], HandleClientResponse(response) PROVE RoomInv'
  <2> PICK id, entry : id = response.id /\ entry = Count(pendingClientRequests[id], response.results_from)
    OBVIOUS
  <2>1. /\ pendingResponses' = [pendingResponses EXCEPT ![0] = @ \ {response}]
        /\ UNCHANGED <<pendingRequests, requestWork, shmResults, calls, running>>
    BY <1>10 DEF HandleClientResponse
  <2>2. \A u \in UnderWay' : u \in UnderWay
    <3>1. \A q \in Ranks : \A m \in pendingResponses'[q] : m \in pendingResponses[q]
      BY <1>1, <2>1
    <3> QED BY <2>1, <3>1, UnderWayIs
  <2>3. Open' \subseteq Open /\ \A i : Issued(i) => Issued(i)'
    <3>1. CASE CompleteRequest(id, entry)
      BY <3>1 DEF CompleteRequest, Open, Issued
    <3>2. CASE pendingClientRequests' = [pendingClientRequests EXCEPT ![id] = entry] /\ UNCHANGED answers
      BY <3>2 DEF Open, Issued
    <3>3. CASE UNCHANGED <<pendingClientRequests, answers>>
      BY <3>3 DEF Open, Issued
    <3> QED BY <1>10, <3>1, <3>2, <3>3 DEF HandleClientResponse
  <2>4. ClientsBounded'
    <3>1. IsFiniteSet(Open') /\ Cardinality(Open') <= Cardinality(Open)
      BY <1>2, <2>3, FS_Subset DEF ClientsBounded
    <3>2. Cardinality(Open') \in Nat
      BY <3>1, FS_CardinalityType
    <3> QED BY <1>2, <3>1, <3>2 DEF ClientsBounded
  <2> QED BY <1>2, <2>1, <2>2, <2>3, <2>4 DEF RoomInv, IdsIssued, NobodyTerminated, NoRingOverflows
<1>11. ASSUME NEW call \in calls, LoseCall(call) PROVE RoomInv'
  <2>1. /\ calls' \subseteq calls
        /\ UNCHANGED <<pendingClientRequests, answers, running, pendingRequests, requestWork,
                       pendingResponses, shmResults>>
    BY <1>11 DEF LoseCall
  <2>2. \A u \in UnderWay' : u \in UnderWay
    BY <2>1, UnderWayIs
  <2> QED BY <1>2, <2>1, <2>2, RoomKept DEF IdsIssued
<1>12. ASSUME NEW r \in Ranks PROVE ~Restart(r)
  BY DEF Restart, WindowOK, NobodyForgets
<1>13. CASE UNCHANGED vars
  <2>1. UnderWay' = UnderWay
    BY <1>13 DEF vars, UnderWay
  <2> QED BY <1>2, <1>13, <2>1, RoomKept DEF vars, IdsIssued
<1>14. SubmitBounded => \E path \in ClientPaths : GetCollisions(path) /\ Cardinality(Open) < MaxClients
  BY DEF SubmitBounded, Submit, Open
<1> QED BY <1>3, <1>4, <1>5, <1>6, <1>7, <1>8, <1>9, <1>10, <1>11, <1>12, <1>13, <1>14
        DEF MCNext, Finished, Process, RequestWorker, ResponseWorker, ShmResponseWorker, HandleRpcs


LEMMA RoomInit == RoomForClients /\ Init => RoomInv
<1> SUFFICES ASSUME RoomForClients, Init PROVE RoomInv
  OBVIOUS
<1>1. \A u : u \notin UnderWay
  BY UnderWayIs DEF Init
<1>2. Open = {}
  BY DEF Init, Open
<1> QED BY <1>1, <1>2, FS_EmptySet
        DEF Init, RoomInv, IdsIssued, ClientsBounded, NobodyTerminated, NoRingOverflows, RoomForClients

\* With no more clients at a time than the rings have room for no push ever
\* throws, whichever calls fail, so that no process terminates: a rank holds a
\* query at most once, and a query's results are as many as there are ranks,
\* wherever they are.
THEOREM NoPushThrows ==
    NobodyForgets /\ RoomForClients => (MCSpec \/ MCReliableSpec => []NoRingOverflows)
<1> SUFFICES ASSUME NobodyForgets, RoomForClients PROVE MCSpec \/ MCReliableSpec => []NoRingOverflows
  OBVIOUS
<1>1. Init => RoutesOK /\ EntriesOK /\ WindowOK /\ OnePlace
  BY OnceInit
<1>2. Init => RoomInv
  BY RoomInit
<1>3. [MCNext]_vars => [Next]_vars
  BY DEF MCNext, Next, SubmitBounded, Finished
<1>4. [MCReliableNext]_vars => [MCNext]_vars
  BY DEF MCReliableNext, MCNext
<1>5. RoutesOK /\ EntriesOK /\ WindowOK /\ OnePlace /\ RoomInv /\ [MCNext]_vars =>
          RoutesOK' /\ EntriesOK' /\ WindowOK' /\ OnePlace' /\ RoomInv'
  BY <1>3, RoutesStep, ServiceStep, WindowStep, OnceStep, RoomStep
<1>6. RoomInv => NoRingOverflows
  BY DEF RoomInv, NobodyTerminated
<1> QED BY <1>1, <1>2, <1>4, <1>5, <1>6, PTL DEF MCSpec, MCReliableSpec

-----------------------------------------------------------------------------
(* Nothing is lost *)

Neighbour(r, n) == \E i \in 1 .. Len(LogicalNeighbors[r]) : LogicalNeighbors[r][i] = n

HasRequest(id, r) == \E m \in pendingRequests[r] : m.id = id

\* Rank r has still to ask rank n, or has asked it and the call is under way.
ToAsk(id, r, n) ==
    \E w \in requestWork[r] : w.request.id = id /\ \E i \in 1 .. Len(w.todo) : w.todo[i] = n

Asked(id, r, n) ==
    \E c \in calls : Asks(c) /\ c.to = n /\ c.SendRequest.id = id /\ LastOf(c.SendRequest.requested_by) = r

ResultUnderWay(id, r) == \E u \in UnderWay : u[3].id = id /\ u[3].results_from = r

\* What a rank that has the query owes it: its result, and that its neighbours
\* get it.
ResultKept(id, r) ==
    HasRequest(id, r) \/ ResultUnderWay(id, r) \/ r \in pendingClientRequests[id].ranks

PassedOn(id, r) ==
    \/ HasRequest(id, r)
    \/ \A n \in Ranks : Neighbour(r, n) => Known(id, n) \/ ToAsk(id, r, n) \/ Asked(id, r, n)

\* The ids that ranks remember have been given.
KnownIds == \A r \in Ranks : \A id \in Window(r) : id < requestCounter

NothingLost ==
    \A id \in Open :
        /\ pendingClientRequests[id].ranks # Ranks
        /\ \A r \in Ranks : Known(id, r) => ResultKept(id, r) /\ PassedOn(id, r)

\* Something of the query is with a rank or under way.
OfQuery(id) ==
    \/ \E r \in Ranks :
          \/ \E m \in pendingRequests[r] : m.id = id
          \/ \E w \in requestWork[r] : w.request.id = id
          \/ \E m \in pendingResponses[r] \cup shmResults[r] : m.id = id
    \/ \E c \in calls : \/ Asks(c) /\ c.SendRequest.id = id
                        \/ Replies(c) /\ c.ReceiveResponse.id = id

NoQueryIsForgotten == \A id \in Open : OfQuery(id)

\* A push onto a ring has happened if its process has not terminated.
LEMMA PushHappens ==
    ASSUME NEW r \in Ranks, NEW to, NEW item, NEW capacity, DOMAIN running = Ranks, NobodyTerminated'
    PROVE  /\ Push(pendingRequests, to, item, capacity, r)
              => pendingRequests' = [pendingRequests EXCEPT ![to] = @ \cup {item}]
           /\ Push(pendingResponses, to, item, capacity, r)
              => pendingResponses' = [pendingResponses EXCEPT ![to] = @ \cup {item}]
           /\ Push(shmResults, to, item, capacity, r)
              => shmResults' = [shmResults EXCEPT ![to] = @ \cup {item}]
<1>1. running' # [running EXCEPT ![r] = FALSE]
  BY DEF NobodyTerminated, NoRingOverflows
<1> QED BY <1>1 DEF Push

\* What a rank owes a query it keeps owing until it is done: a request becomes
\* a result and work, work becomes a call, and a call makes the query known.
LEMMA PartsGoOn ==
    ASSUME NothingLost, UNCHANGED pendingClientRequests,
           \A id \in Open, r \in Ranks : Known(id, r) => Known(id, r)',
           \A id \in Open, r \in Ranks : Known(id, r)' => Known(id, r) \/ HasRequest(id, r)',
           \A id \in Open, r \in Ranks : HasRequest(id, r) =>
               \/ HasRequest(id, r)'
               \/ ResultUnderWay(id, r)' /\ \A n \in Ranks : Neighbour(r, n) => ToAsk(id, r, n)',
           \A id \in Open, r \in Ranks : ResultUnderWay(id, r) =>
               ResultUnderWay(id, r)' \/ r \in pendingClientRequests[id].ranks,
           \A id \in Open, r, n \in Ranks : ToAsk(id, r, n) => ToAsk(id, r, n)' \/ Asked(id, r, n)',
           \A id \in Open, r, n \in Ranks : Asked(id, r, n) => Asked(id, r, n)' \/ Known(id, n)'
    PROVE  NothingLost'
<1>1. Open' = Open /\ \A id \in Open : pendingClientRequests'[id].ranks = pendingClientRequests[id].ranks
  BY DEF Open
<1> SUFFICES ASSUME NEW id \in Open, NEW r \in Ranks, Known(id, r)'
             PROVE  ResultKept(id, r)' /\ PassedOn(id, r)'
  BY <1>1 DEF NothingLost
<1>2. CASE HasRequest(id, r)'
  BY <1>2 DEF ResultKept, PassedOn
<1>3. CASE ~HasRequest(id, r)'
  <2>1. Known(id, r) /\ ResultKept(id, r) /\ PassedOn(id, r)
    BY <1>3 DEF NothingLost
  <2>2. CASE HasRequest(id, r)
    <3>1. ResultUnderWay(id, r)' /\ \A n \in Ranks : Neighbour(r, n) => ToAsk(id, r, n)'
      BY <1>3, <2>2
    <3>2. \A n \in Ranks : Neighbour(r, n)' <=> Neighbour(r, n)
      BY DEF Neighbour
    <3> QED BY <3>1, <3>2 DEF ResultKept, PassedOn
  <2>3. CASE ~HasRequest(id, r)
    <3>1. ResultUnderWay(id, r) \/ r \in pendingClientRequests[id].ranks
      BY <2>1, <2>3 DEF ResultKept
    <3>2. ResultKept(id, r)'
      BY <1>1, <3>1 DEF ResultKept
    <3>3. \A n \in Ranks : Neighbour(r, n) => Known(id, n) \/ ToAsk(id, r, n) \/ Asked(id, r, n)
      BY <2>1, <2>3 DEF PassedOn
    <3>4. \A n \in Ranks : Neighbour(r, n) => Known(id, n)' \/ ToAsk(id, r, n)' \/ Asked(id, r, n)'
      BY <3>3
    <3>5. \A n \in Ranks : Neighbour(r, n)' <=> Neighbour(r, n)
      BY DEF Neighbour
    <3> QED BY <3>2, <3>4, <3>5 DEF PassedOn
  <2> QED BY <2>2, <2>3
<1> QED BY <1>2, <1>3

\* Where a result goes to another place, and nothing else happens.
LEMMA ResultGoesOn ==
    ASSUME NothingLost, NEW old \in UnderWay, NEW new \in UnderWay', UnderWay \ {old} \subseteq UnderWay',
           new[3].id = old[3].id, new[3].results_from = old[3].results_from,
           \A c \in calls : Asks(c) => c \in calls',
           UNCHANGED <<requestCounter, latestQueryIDs, pendingRequests, requestWork, pendingClientRequests>>
    PROVE  NothingLost'
<1>1. \A id \in Open, r \in Ranks : Known(id, r)' <=> Known(id, r)
  BY DEF Known, Window
<1>2. \A id \in Open, r \in Ranks : HasRequest(id, r)' <=> HasRequest(id, r)
  BY DEF HasRequest
<1>3. \A id \in Open, r, n \in Ranks : ToAsk(id, r, n)' <=> ToAsk(id, r, n)
  BY DEF ToAsk
<1>4. \A id \in Open, r, n \in Ranks : Asked(id, r, n) => Asked(id, r, n)'
  BY DEF Asked
<1>5. \A id \in Open, r \in Ranks : ResultUnderWay(id, r) => ResultUnderWay(id, r)'
  BY DEF ResultUnderWay
<1> QED BY <1>1, <1>2, <1>3, <1>4, <1>5, PartsGoOn

LEMMA LostStep ==
    ASSUME NobodyForgets, RoutesOK, EntriesOK, WindowOK, KnownIds, NobodyTerminated, NobodyTerminated',
           NothingLost, [MCReliableNext]_vars
    PROVE  NothingLost'
<1>1. /\ DOMAIN pendingRequests = Ranks /\ DOMAIN pendingResponses = Ranks /\ DOMAIN shmResults = Ranks
      /\ DOMAIN requestWork = Ranks /\ DOMAIN running = Ranks /\ 0 \in Ranks /\ requestCounter \in Nat
  BY RankFacts DEF RoutesOK, NobodyTerminated
<1>2. ASSUME UNCHANGED <<requestCounter, latestQueryIDs>>
      PROVE  \A id \in Open, r \in Ranks : Known(id, r)' <=> Known(id, r)
  BY <1>2 DEF Known, Window
<1>3. ASSUME NEW path \in ClientPaths, GetCollisions(path) PROVE NothingLost'
  <2> PICK new, request : new = requestCounter /\ request = [id |-> requestCounter, requested_by |-> path]
    OBVIOUS
  <2>1. /\ requestCounter' = requestCounter + 1 /\ new \notin Open /\ request.id = new
        /\ Push(pendingRequests, 0, request, MAX_CONCURRENT_REQUESTS, 0)
        /\ UNCHANGED <<latestQueryIDs, requestWork, pendingResponses, shmResults, calls>>
        /\ \A id \in Open : id < requestCounter /\ id \in Nat
    BY <1>1, <1>3 DEF GetCollisions, EntriesOK, Open, Queries
  <2>2. pendingRequests' = [pendingRequests EXCEPT ![0] = @ \cup {request}]
    BY <1>1, <2>1, PushHappens
  <2>3. /\ Open' = Open \cup {new} /\ pendingClientRequests'[new].ranks = {}
        /\ \A id \in Open : pendingClientRequests'[id] = pendingClientRequests[id]
    BY <1>3, <2>1 DEF GetCollisions, Open
  <2>4. /\ \A id \in Open, r \in Ranks : Known(id, r)' <=> Known(id, r)
        /\ \A r \in Ranks \ {0} : Known(new, r)' <=> Known(new, r)
    BY <1>1, <2>1 DEF Known, Window
  <2>5. UnderWay' = UnderWay
    BY <2>1 DEF UnderWay
  <2>6. \A id \in Open, r \in Ranks : HasRequest(id, r) => HasRequest(id, r)'
    BY <1>1, <2>2 DEF HasRequest
  <2>7. \A id \in Open, r \in Ranks : ResultUnderWay(id, r) => ResultUnderWay(id, r)'
    BY <2>5 DEF ResultUnderWay
  <2>8. \A id \in Open, r, n \in Ranks : (ToAsk(id, r, n) => ToAsk(id, r, n)')
                                         /\ (Asked(id, r, n) => Asked(id, r, n)')
    BY <2>1 DEF ToAsk, Asked
  <2>9. HasRequest(new, 0)' /\ \A r \in Ranks \ {0} : ~Known(new, r)
    BY <1>1, <2>1, <2>2 DEF HasRequest, Known, KnownIds
  <2>10. ASSUME NEW id \in Open, NEW r \in Ranks, Known(id, r)' PROVE ResultKept(id, r)' /\ PassedOn(id, r)'
    <3>1. Known(id, r) /\ ResultKept(id, r) /\ PassedOn(id, r)
      BY <2>4, <2>10 DEF NothingLost
    <3>2. ResultKept(id, r)'
      BY <2>3, <2>6, <2>7, <3>1 DEF ResultKept
    <3>3. CASE HasRequest(id, r)
      BY <2>6, <3>2, <3>3 DEF PassedOn
    <3>4. CASE ~HasRequest(id, r)
      <4>1. \A n \in Ranks : Neighbour(r, n) => Known(id, n) \/ ToAsk(id, r, n) \/ Asked(id, r, n)
        BY <3>1, <3>4 DEF PassedOn
      <4>2. \A n \in Ranks : Neighbour(r, n) => Known(id, n)' \/ ToAsk(id, r, n)' \/ Asked(id, r, n)'
        BY <2>4, <2>8, <4>1
      <4>3. \A n \in Ranks : Neighbour(r, n)' <=> Neighbour(r, n)
        BY DEF Neighbour
      <4> QED BY <3>2, <4>2, <4>3 DEF PassedOn
    <3> QED BY <3>3, <3>4
  <2>11. ASSUME NEW r \in Ranks, Known(new, r)' PROVE ResultKept(new, r)' /\ PassedOn(new, r)'
    <3>1. r = 0
      BY <2>4, <2>9, <2>11
    <3> QED BY <2>9, <3>1 DEF ResultKept, PassedOn
  <2>12. \A id \in Open' : pendingClientRequests'[id].ranks # Ranks
    BY <1>1, <2>3 DEF NothingLost
  <2> QED BY <2>3, <2>10, <2>11, <2>12 DEF NothingLost
<1>4. ASSUME NEW r \in Ranks, NEW request \in pendingRequests[r], HandleRequest(r, request) PROVE NothingLost'
  <2>1. PICK mine, response :
        /\ mine = [request EXCEPT !.requested_by = Append(@, r)]
        /\ response = [id |-> mine.id, requested_by |-> mine.requested_by, results_from |-> r]
    OBVIOUS
  <2>3. mine.id = request.id /\ response.id = request.id /\ response.results_from = r
    BY <2>1 DEF RoutesOK, RequestFor, IsRequest
  <2>2. PICK u, work : u = <<"pendingResponses", r, response>> /\ work = [request |-> mine, todo |-> LogicalNeighbors[r]]
    OBVIOUS
  <2>4. /\ pendingRequests' = [pendingRequests EXCEPT ![r] = @ \ {request}]
        /\ Push(pendingResponses, r, response, MAX_CONCURRENT_RESPONSES, r)
        /\ requestWork' = [requestWork EXCEPT ![r] = @ \cup PassOn(mine, LogicalNeighbors[r])]
        /\ UNCHANGED <<requestCounter, latestQueryIDs, pendingClientRequests, answers, shmResults, calls>>
    BY <1>4, <2>1 DEF HandleRequest
  <2>5. u[3].id = request.id /\ u[3].results_from = r /\ work.request.id = request.id
    BY <2>3, <2>2
  <2>6. LogicalNeighbors[r] # <<>> => work \in requestWork'[r]
    BY <1>1, <2>4, <2>2 DEF PassOn
  <2>7. pendingResponses' = [pendingResponses EXCEPT ![r] = @ \cup {response}]
    <3>1. running' # [running EXCEPT ![r] = FALSE]
      BY <1>1 DEF NobodyTerminated, NoRingOverflows
    <3> QED BY <2>4, <3>1 DEF Push
  <2>8. u \in UnderWay' /\ UnderWay \subseteq UnderWay'
    BY <1>1, <2>4, <2>7, <2>2, UnderWayIs
  <2>9. ResultUnderWay(request.id, r)'
    BY <2>5, <2>8 DEF ResultUnderWay
  <2>10. \A n \in Ranks : Neighbour(r, n) => ToAsk(request.id, r, n)'
    <3>1. LogicalNeighbors[r] \in Seq(Ranks) /\ work.todo = LogicalNeighbors[r]
      BY <2>2, RankFacts
    <3>2. \A n \in Ranks : Neighbour(r, n) => LogicalNeighbors[r] # <<>>
      BY <3>1 DEF Neighbour
    <3> QED BY <2>5, <2>6, <3>1, <3>2 DEF Neighbour, ToAsk
  <2>11. \A id \in Open, q \in Ranks : HasRequest(id, q) => HasRequest(id, q)' \/ (id = request.id /\ q = r)
    BY <1>1, <2>4 DEF HasRequest
  <2>12. \A id \in Open, q \in Ranks : ResultUnderWay(id, q) => ResultUnderWay(id, q)'
    BY <2>8 DEF ResultUnderWay
  <2>13. \A id \in Open, q, n \in Ranks : ToAsk(id, q, n) => ToAsk(id, q, n)'
    <3>1. \A q \in Ranks : requestWork[q] \subseteq requestWork'[q]
      BY <1>1, <2>4
    <3> QED BY <3>1 DEF ToAsk
  <2>14. \A id \in Open, q, n \in Ranks : Asked(id, q, n) => Asked(id, q, n)'
    BY <2>4 DEF Asked
  <2> QED BY <1>2, <2>4, <2>9, <2>10, <2>11, <2>12, <2>13, <2>14, PartsGoOn
<1>5. ASSUME NEW r \in Ranks, NEW work \in requestWork[r], QueryPeer(r, work) PROVE NothingLost'
  <2> PICK call, n : n = Head(work.todo) /\ call = [SendRequest |-> work.request, to |-> n]
    OBVIOUS
  <2>1. /\ calls' = calls \cup {call}
        /\ requestWork' = [requestWork EXCEPT ![r] = (@ \ {work}) \cup PassOn(work.request, Tail(work.todo))]
        /\ UNCHANGED <<requestCounter, latestQueryIDs, pendingClientRequests, answers, pendingRequests,
                       pendingResponses, shmResults>>
    BY <1>5 DEF QueryPeer
  <2>2. Asks(call) /\ call.to = n /\ call.SendRequest = work.request /\ ~Replies(call)
    BY DEF Asks, Replies
  <2>3. LastOf(work.request.requested_by) = r /\ work.todo \in Seq(Ranks) /\ work.todo # <<>>
    BY DEF RoutesOK, WorkOf, RouteOf
  <2>4. UnderWay \subseteq UnderWay'
    BY <2>1, UnderWayIs
  <2>5. \A id \in Open, q \in Ranks : (HasRequest(id, q) => HasRequest(id, q)')
                                      /\ (ResultUnderWay(id, q) => ResultUnderWay(id, q)')
    BY <2>1, <2>4 DEF HasRequest, ResultUnderWay
  <2>6. \A id \in Open, q, m \in Ranks : Asked(id, q, m) => Asked(id, q, m)'
    BY <2>1 DEF Asked
  <2>7. Asked(work.request.id, r, n)'
    BY <2>1, <2>2, <2>3 DEF Asked
  <2>8. ASSUME NEW id \in Open, NEW q \in Ranks, NEW m \in Ranks, ToAsk(id, q, m)
        PROVE  ToAsk(id, q, m)' \/ Asked(id, q, m)'
    <3>1. PICK w \in requestWork[q] : w.request.id = id /\ \E i \in 1 .. Len(w.todo) : w.todo[i] = m
      BY <2>8 DEF ToAsk
    <3>2. CASE w \in requestWork'[q]
      BY <3>1, <3>2 DEF ToAsk
    <3>3. CASE w \notin requestWork'[q]
      <4>1. w = work /\ q = r
        BY <1>1, <2>1, <3>3
      <4>2. CASE m = n
        BY <2>7, <3>1, <4>1, <4>2
      <4>3. CASE m # n
        <5>1. PICK i \in 1 .. Len(work.todo) : work.todo[i] = m
          BY <3>1, <4>1
        <5>2. i # 1 /\ n = work.todo[1]
          BY <2>3, <4>3, <5>1
        <5>3. /\ Len(Tail(work.todo)) = Len(work.todo) - 1
              /\ i - 1 \in 1 .. Len(work.todo) - 1 /\ Tail(work.todo)[i - 1] = work.todo[i]
          BY <2>3, <5>2
        <5> PICK rest : rest = [request |-> work.request, todo |-> Tail(work.todo)]
          OBVIOUS
        <5>4. rest \in requestWork'[r]
          <6>1. Tail(work.todo) # <<>>
            <7>1. Len(Tail(work.todo)) \in Nat \ {0} /\ Len(<<>>) = 0
              BY <2>3, <5>3
            <7> QED BY <7>1
          <6> QED BY <1>1, <2>1, <6>1 DEF PassOn
        <5>5. i - 1 \in 1 .. Len(rest.todo) /\ rest.todo[i - 1] = m /\ rest.request.id = id
          BY <3>1, <4>1, <5>1, <5>3
        <5> QED BY <4>1, <5>4, <5>5 DEF ToAsk
      <4> QED BY <4>2, <4>3
    <3> QED BY <3>2, <3>3
  <2> QED BY <1>2, <2>1, <2>5, <2>6, <2>8, PartsGoOn
<1>6. ASSUME NEW call \in calls, SendRequest(call) PROVE NothingLost'
  <2>1. PICK r, id, request : r = call.to /\ request = call.SendRequest /\ id = request.id
    OBVIOUS
  <2>2. /\ Asks(call) /\ r \in Ranks \ {0} /\ id \in Queries /\ calls' = calls \ {call}
        /\ UNCHANGED <<requestCounter, pendingClientRequests, requestWork, pendingResponses, shmResults>>
    BY <1>6, <2>1 DEF SendRequest, WindowOK, RoutesOK, CallOnRoute, Asks
  <2>3. UnderWay \subseteq UnderWay'
    <3>1. ~Replies(call)
      BY <1>6, <2>2 DEF WindowOK, Asks
    <3> QED BY <2>2, <3>1, UnderWayIs
  <2>4. /\ Known(id, r)' /\ \A i \in Open, q \in Ranks : Known(i, q) => Known(i, q)'
        /\ \A i \in Open, q \in Ranks : Known(i, q)' => Known(i, q) \/ HasRequest(i, q)'
        /\ \A i \in Open, q \in Ranks : HasRequest(i, q) => HasRequest(i, q)'
    <3>1. CASE isDuplicateQueryID(r, id)
      <4>1. UNCHANGED <<pendingRequests, latestQueryIDs>>
        BY <1>6, <2>1, <3>1 DEF SendRequest
      <4>2. id \in Window(r)
        BY <3>1 DEF isDuplicateQueryID, Window
      <4> QED BY <2>2, <4>1, <4>2 DEF Known, Window, HasRequest
    <3>2. CASE ~isDuplicateQueryID(r, id)
      <4>1. /\ appendQueryID(r, id)
            /\ Push(pendingRequests, r, request, MAX_CONCURRENT_REQUESTS, r)
        BY <1>6, <2>1, <3>2 DEF SendRequest
      <4>2. pendingRequests' = [pendingRequests EXCEPT ![r] = @ \cup {request}]
        BY <1>1, <2>2, <4>1, PushHappens
      <4>3. id \notin Window(r)
        BY <3>2 DEF isDuplicateQueryID, Window
      <4>4. /\ Window(r)' = Window(r) \cup {id}
            /\ \A s \in Ranks \ {r} : Window(s)' = Window(s)
        BY <2>2, <4>1, <4>3, WindowGrows
      <4>5. HasRequest(id, r)' /\ \A i \in Open, q \in Ranks : HasRequest(i, q) => HasRequest(i, q)'
        BY <1>1, <2>1, <2>2, <4>2 DEF HasRequest
      <4> QED BY <2>2, <4>4, <4>5 DEF Known
    <3> QED BY <3>1, <3>2
  <2>5. \A i \in Open, q \in Ranks : ResultUnderWay(i, q) => ResultUnderWay(i, q)'
    BY <2>3 DEF ResultUnderWay
  <2>6. \A i \in Open, q, n \in Ranks : ToAsk(i, q, n) => ToAsk(i, q, n)'
    BY <2>2 DEF ToAsk
  <2>7. \A i \in Open, q, n \in Ranks : Asked(i, q, n) => Asked(i, q, n)' \/ (i = id /\ n = r)
    BY <2>1, <2>2 DEF Asked
  <2> QED BY <2>2, <2>4, <2>5, <2>6, <2>7, PartsGoOn
<1>7. ASSUME NEW r \in Ranks, NEW response \in pendingResponses[r], HandleResponse(r, response) PROVE NothingLost'
  <2>1. PICK parent, forwarded :
           /\ parent = Parent(response.requested_by)
           /\ forwarded = [response EXCEPT !.requested_by = PopBack(@)]
    OBVIOUS
  <2>2. /\ forwarded.id = response.id /\ forwarded.results_from = response.results_from
        /\ r # 0 /\ parent \in Ranks
    BY <1>7, <2>1, ResponseToParent DEF HandleResponse, RoutesOK, ResponseAt, IsResponse, IsRequest
  <2>3. /\ pendingResponses' = [pendingResponses EXCEPT ![r] = @ \ {response}]
        /\ UNCHANGED <<requestCounter, latestQueryIDs, pendingRequests, requestWork, pendingClientRequests>>
    BY <1>7 DEF HandleResponse
  <2>4. PICK old \in UnderWay : old = <<"pendingResponses", r, response>>
    BY UnderWayIs
  <2>5. \A q \in Ranks : \A m \in pendingResponses[q] :
           m \in pendingResponses'[q] \/ <<"pendingResponses", q, m>> = old
    BY <1>1, <2>3, <2>4
  <2>6. CASE isSameNodeProcess(r, parent)
    <3>1. /\ shmResults' = [shmResults EXCEPT ![parent] = @ \cup {forwarded}]
          /\ UNCHANGED calls
      <4>1. Push(shmResults, parent, forwarded, SHM_RESULTS, r) /\ UNCHANGED calls
        BY <1>7, <2>1, <2>6 DEF HandleResponse, SendThroughSharedMemory
      <4> QED BY <1>1, <4>1, PushHappens
    <3>2. PICK new : new = <<"shmResults", parent, forwarded>>
      OBVIOUS
    <3>3. (\A q \in Ranks : shmResults[q] \subseteq shmResults'[q]) /\ forwarded \in shmResults'[parent]
      BY <1>1, <2>2, <3>1
    <3>4. new \in UnderWay' /\ UnderWay \ {old} \subseteq UnderWay'
      BY <2>2, <2>5, <3>1, <3>2, <3>3, UnderWayIs
    <3>5. new[3].id = old[3].id /\ new[3].results_from = old[3].results_from
      BY <2>2, <2>4, <3>2
    <3> QED BY <2>3, <3>1, <3>4, <3>5, ResultGoesOn
  <2>7. CASE ~isSameNodeProcess(r, parent)
    <3> PICK call : call = [ReceiveResponse |-> response, to |-> parent]
      OBVIOUS
    <3>1. UNCHANGED shmResults /\ calls' = calls \cup {call}
      BY <1>7, <2>1, <2>7 DEF HandleResponse
    <3>2. PICK new : new = <<"calls", parent, response>>
      OBVIOUS
    <3>3. Replies(call) /\ new = <<"calls", call.to, call.ReceiveResponse>>
      BY <3>2 DEF Replies
    <3>4. new \in UnderWay' /\ UnderWay \ {old} \subseteq UnderWay'
      BY <2>5, <3>1, <3>3, UnderWayIs
    <3>5. new[3].id = old[3].id /\ new[3].results_from = old[3].results_from
      BY <2>4, <3>2
    <3> QED BY <2>3, <3>1, <3>4, <3>5, ResultGoesOn
  <2> QED BY <2>6, <2>7
<1>8. ASSUME NEW call \in calls, ReceiveResponse(call) PROVE NothingLost'
  <2>1. PICK r, response, forwarded :
           /\ r = call.to /\ response = call.ReceiveResponse
           /\ forwarded = [response EXCEPT !.requested_by = PopBack(@)]
    OBVIOUS
  <2>2. /\ Replies(call) /\ IsResponse(response) /\ r \in Ranks
        /\ call = [ReceiveResponse |-> response, to |-> r] /\ ~Asks(call)
    BY <1>8, <2>1 DEF ReceiveResponse, Replies, RoutesOK, WindowOK, CallOnRoute, ResponseAt, Asks
  <2>3. forwarded.id = response.id /\ forwarded.results_from = response.results_from
    BY <2>1, <2>2 DEF IsResponse, IsRequest
  <2>4. /\ calls' = calls \ {call}
        /\ Push(pendingResponses, r, forwarded, MAX_CONCURRENT_RESPONSES, r)
        /\ UNCHANGED <<requestCounter, latestQueryIDs, pendingRequests, requestWork, pendingClientRequests, shmResults>>
    BY <1>8, <2>1 DEF ReceiveResponse
  <2>5. pendingResponses' = [pendingResponses EXCEPT ![r] = @ \cup {forwarded}]
    BY <1>1, <2>2, <2>4, PushHappens
  <2>6. PICK old, new :
           /\ old \in UnderWay /\ old = <<"calls", r, response>>
           /\ new = <<"pendingResponses", r, forwarded>>
    BY <2>1, <2>2, UnderWayIs
  <2>7. \A c \in calls : Replies(c) => c \in calls' \/ <<"calls", c.to, c.ReceiveResponse>> = old
    BY <2>2, <2>4, <2>6 DEF WindowOK
  <2>8. (\A q \in Ranks : pendingResponses[q] \subseteq pendingResponses'[q]) /\ forwarded \in pendingResponses'[r]
    BY <1>1, <2>2, <2>5
  <2>9. new \in UnderWay' /\ UnderWay \ {old} \subseteq UnderWay'
    BY <2>2, <2>4, <2>6, <2>7, <2>8, UnderWayIs
  <2>10. new[3].id = old[3].id /\ new[3].results_from = old[3].results_from
    BY <2>3, <2>6
  <2> QED BY <2>2, <2>4, <2>6, <2>9, <2>10, ResultGoesOn
<1>9. ASSUME NEW r \in Ranks, NEW response \in shmResults[r], HandleSharedMemoryResponse(r, response)
      PROVE  NothingLost'
  <2>1. PICK parent, forwarded, popped :
           /\ parent = Parent(response.requested_by)
           /\ forwarded = [response EXCEPT !.requested_by = PopBack(@)]
           /\ popped = [shmResults EXCEPT ![r] = @ \ {response}]
    OBVIOUS
  <2>2. /\ forwarded.id = response.id /\ forwarded.results_from = response.results_from
        /\ r # 0 => parent \in Ranks
    BY <2>1, ResponseToParent DEF RoutesOK, ResponseAt, IsResponse, IsRequest
  <2>3. UNCHANGED <<requestCounter, latestQueryIDs, pendingRequests, requestWork, pendingClientRequests, calls>>
    BY <1>9 DEF HandleSharedMemoryResponse
  <2>4. PICK old \in UnderWay : old = <<"shmResults", r, response>>
    BY UnderWayIs
  <2>5. DOMAIN popped = Ranks
        /\ \A q \in Ranks : \A m \in shmResults[q] : m \in popped[q] \/ <<"shmResults", q, m>> = old
    BY <1>1, <2>1, <2>4
  <2>6. CASE r # 0 /\ isSameNodeProcess(r, parent)
    <3>1. shmResults' = [popped EXCEPT ![parent] = @ \cup {forwarded}] /\ UNCHANGED pendingResponses
      <4>1. running' # [running EXCEPT ![r] = FALSE]
        BY <1>1 DEF NobodyTerminated, NoRingOverflows
      <4> QED BY <1>9, <2>1, <2>6, <4>1 DEF HandleSharedMemoryResponse
    <3>2. PICK new : new = <<"shmResults", parent, forwarded>>
      OBVIOUS
    <3>3. (\A q \in Ranks : popped[q] \subseteq shmResults'[q]) /\ forwarded \in shmResults'[parent]
      BY <2>2, <2>5, <2>6, <3>1
    <3>4. new \in UnderWay' /\ UnderWay \ {old} \subseteq UnderWay'
      BY <2>2, <2>3, <2>5, <2>6, <3>1, <3>2, <3>3, UnderWayIs
    <3>5. new[3].id = old[3].id /\ new[3].results_from = old[3].results_from
      BY <2>2, <2>4, <3>2
    <3> QED BY <2>3, <3>4, <3>5, ResultGoesOn
  <2>7. CASE ~(r # 0 /\ isSameNodeProcess(r, parent))
    <3>1. /\ shmResults' = popped
          /\ Push(pendingResponses, r, response, MAX_CONCURRENT_RESPONSES, r)
      BY <1>9, <2>1, <2>7 DEF HandleSharedMemoryResponse
    <3>2. pendingResponses' = [pendingResponses EXCEPT ![r] = @ \cup {response}]
      BY <1>1, <3>1, PushHappens
    <3>3. PICK new : new = <<"pendingResponses", r, response>>
      OBVIOUS
    <3>4. (\A q \in Ranks : pendingResponses[q] \subseteq pendingResponses'[q]) /\ response \in pendingResponses'[r]
      BY <1>1, <3>2
    <3>5. new \in UnderWay' /\ UnderWay \ {old} \subseteq UnderWay'
      BY <2>3, <2>5, <3>1, <3>3, <3>4, UnderWayIs
    <3>6. new[3].id = old[3].id /\ new[3].results_from = old[3].results_from
      BY <2>4, <3>3
    <3> QED BY <2>3, <3>5, <3>6, ResultGoesOn
  <2> QED BY <2>6, <2>7
<1>10. ASSUME NEW response \in pendingResponses[0], HandleClientResponse(response) PROVE NothingLost'
  <2>1. PICK id, from, entry, old :
           /\ id = response.id /\ from = response.results_from
           /\ entry = Count(pendingClientRequests[id], from)
           /\ old = <<"pendingResponses", 0, response>>
    OBVIOUS
  <2>2. /\ pendingResponses' = [pendingResponses EXCEPT ![0] = @ \ {response}]
        /\ UNCHANGED <<requestCounter, latestQueryIDs, pendingRequests, requestWork, shmResults, calls>>
    BY <1>10 DEF HandleClientResponse
  <2>3. \A q \in Ranks : \A m \in pendingResponses[q] :
           m \in pendingResponses'[q] \/ <<"pendingResponses", q, m>> = old
    BY <1>1, <2>1, <2>2
  <2>4. UnderWay \ {old} \subseteq UnderWay' /\ old[3].id = id /\ old[3].results_from = from
    BY <2>1, <2>2, <2>3, UnderWayIs
  <2>5. from \in Ranks
    BY <1>1, <2>1 DEF RoutesOK, ResponseAt, IsResponse
  <2>6. /\ Open' \subseteq Open
        /\ \A i \in Open' : /\ pendingClientRequests[i].ranks \subseteq pendingClientRequests'[i].ranks
                            /\ pendingClientRequests'[i].ranks # Ranks
        /\ id \in Open' => from \in pendingClientRequests'[id].ranks
    <3>1. CASE ~Wanted(id, from)
      <4>1. UNCHANGED pendingClientRequests
        BY <1>10, <2>1, <3>1 DEF HandleClientResponse
      <4> QED BY <3>1, <4>1 DEF Wanted, Open, NothingLost
    <3>2. CASE Wanted(id, from) /\ Cardinality(entry.ranks) = NumProcesses
      <4>1. CompleteRequest(id, entry)
        BY <1>10, <2>1, <3>2 DEF HandleClientResponse
      <4> QED BY <4>1 DEF CompleteRequest, Open, NothingLost
    <3>3. CASE Wanted(id, from) /\ Cardinality(entry.ranks) # NumProcesses
      <4>1. pendingClientRequests' = [pendingClientRequests EXCEPT ![id] = entry]
        BY <1>10, <2>1, <3>3 DEF HandleClientResponse
      <4>2. entry.ranks = pendingClientRequests[id].ranks \cup {from}
        BY <2>1 DEF Count
      <4>3. Cardinality(Ranks) = NumProcesses
        <5>1. NumProcesses - 1 \in Int /\ ~(0 > NumProcesses - 1) /\ (NumProcesses - 1) - 0 + 1 = NumProcesses
          BY NetworkAssumption
        <5> QED BY <5>1, FS_Interval DEF Ranks
      <4>4. entry.ranks # Ranks
        BY <3>3, <4>3
      <4> QED BY <3>3, <4>1, <4>2, <4>4 DEF Wanted, Open, NothingLost
    <3> QED BY <3>1, <3>2, <3>3
  <2>7. ASSUME NEW i \in Open', NEW r \in Ranks, Known(i, r)' PROVE ResultKept(i, r)' /\ PassedOn(i, r)'
    <3>1. i \in Open /\ Known(i, r) /\ ResultKept(i, r) /\ PassedOn(i, r)
      BY <1>2, <2>2, <2>6, <2>7 DEF NothingLost
    <3>2. HasRequest(i, r)' <=> HasRequest(i, r)
      BY <2>2 DEF HasRequest
    <3>3. ResultUnderWay(i, r) => ResultUnderWay(i, r)' \/ (i = id /\ r = from)
      BY <2>4 DEF ResultUnderWay
    <3>4. ResultKept(i, r)'
      BY <2>6, <3>1, <3>2, <3>3 DEF ResultKept
    <3>5. \A n \in Ranks : /\ Known(i, n)' <=> Known(i, n)
                           /\ ToAsk(i, r, n)' <=> ToAsk(i, r, n)
                           /\ Asked(i, r, n)' <=> Asked(i, r, n)
                           /\ Neighbour(r, n)' <=> Neighbour(r, n)
      BY <1>2, <2>2, <3>1 DEF ToAsk, Asked, Neighbour
    <3>6. PassedOn(i, r)'
      BY <3>1, <3>2, <3>5 DEF PassedOn
    <3> QED BY <3>4, <3>6
  <2> QED BY <2>6, <2>7 DEF NothingLost
<1>11. CASE UNCHANGED vars
  <2>1. UnderWay' = UnderWay
    BY <1>11 DEF vars, UnderWay
  <2>2. \A id \in Open, r \in Ranks :
            /\ HasRequest(id, r) => HasRequest(id, r)'
            /\ ResultUnderWay(id, r) => ResultUnderWay(id, r)'
    BY <1>11, <2>1 DEF vars, HasRequest, ResultUnderWay
  <2>3. \A id \in Open, r, n \in Ranks :
            /\ ToAsk(id, r, n) => ToAsk(id, r, n)'
            /\ Asked(id, r, n) => Asked(id, r, n)'
    BY <1>11 DEF vars, ToAsk, Asked
  <2> QED BY <1>2, <1>11, <2>2, <2>3, PartsGoOn DEF vars
<1> QED BY <1>3, <1>4, <1>5, <1>6, <1>7, <1>8, <1>9, <1>10, <1>11
        DEF MCReliableNext, SubmitBounded, Submit, Finished, Process, RequestWorker, ResponseWorker,
            ShmResponseWorker, HandleRpcs

LEMMA KnownIdsStep ==
    ASSUME NobodyForgets, RoutesOK, EntriesOK, WindowOK, RoomInv, KnownIds, [Next]_vars
    PROVE  KnownIds'
<1>1. /\ requestCounter \in Nat /\ \A id : Issued(id) => id < requestCounter /\ id \in Nat
      /\ \A r \in Ranks : \A id \in Window(r) : id \in Nat
  <2>1. requestCounter \in Nat /\ \A id : Issued(id) => id < requestCounter /\ id \in Nat
    BY DEF EntriesOK, Issued, Open, Queries
  <2>2. ASSUME NEW r \in Ranks, NEW id \in Window(r) PROVE id \in Nat
    <3>1. latestQueryIDs[r] \in Seq(Queries)
      BY DEF WindowOK
    <3>2. PICK i \in 1 .. Len(latestQueryIDs[r]) : latestQueryIDs[r][i] = id
      BY DEF Window
    <3>3. id \in Queries
      BY <3>1, <3>2, ElementOfSeq
    <3> QED BY <3>3 DEF Queries
  <2> QED BY <2>1, <2>2
<1>2. CASE UNCHANGED latestQueryIDs /\ requestCounter' \in {requestCounter, requestCounter + 1}
  <2>1. \A r \in Ranks : Window(r)' = Window(r)
    BY <1>2 DEF Window
  <2> QED BY <1>1, <1>2, <2>1 DEF KnownIds
<1>3. ASSUME NEW call \in calls, SendRequest(call) PROVE KnownIds'
  <2>1. PICK r, id : r = call.to /\ id = call.SendRequest.id
    OBVIOUS
  <2>2. r \in Ranks /\ id \in Queries /\ Issued(id) /\ requestCounter' = requestCounter
    BY <1>3, <2>1 DEF SendRequest, WindowOK, RoutesOK, CallOnRoute, Asks, RoomInv, IdsIssued
  <2>3. CASE isDuplicateQueryID(r, id)
    BY <1>2, <1>3, <2>1, <2>2, <2>3 DEF SendRequest
  <2>4. CASE ~isDuplicateQueryID(r, id)
    <3>1. appendQueryID(r, id) /\ id \notin Window(r)
      BY <1>3, <2>1, <2>4 DEF SendRequest, isDuplicateQueryID, Window
    <3>2. /\ Window(r)' = Window(r) \cup {id}
          /\ \A s \in Ranks \ {r} : Window(s)' = Window(s)
      BY <2>2, <3>1, WindowGrows
    <3> QED BY <1>1, <2>2, <3>2 DEF KnownIds
  <2> QED BY <2>3, <2>4
<1>4. ASSUME NEW path \in ClientPaths, GetCollisions(path) PROVE KnownIds'
  BY <1>2, <1>4 DEF GetCollisions
<1>5. ASSUME NEW r \in Ranks PROVE ~Restart(r)
  BY DEF Restart, WindowOK, NobodyForgets
<1>6. ASSUME NEW r \in Ranks, NEW request, HandleRequest(r, request) \/ QueryPeer(r, request) PROVE KnownIds'
  BY <1>2, <1>6 DEF HandleRequest, QueryPeer
<1>7. ASSUME NEW r \in Ranks, NEW m, HandleResponse(r, m) \/ HandleSharedMemoryResponse(r, m) PROVE KnownIds'
  BY <1>2, <1>7 DEF HandleResponse, HandleSharedMemoryResponse
<1>8. ASSUME NEW m, ReceiveResponse(m) \/ HandleClientResponse(m) \/ LoseCall(m) PROVE KnownIds'
  BY <1>2, <1>8 DEF ReceiveResponse, HandleClientResponse, LoseCall
<1>9. CASE UNCHANGED vars
  BY <1>2, <1>9 DEF vars
<1> QED BY <1>3, <1>4, <1>5, <1>6, <1>7, <1>8, <1>9
        DEF Next, Submit, Process, RequestWorker, ResponseWorker, ShmResponseWorker, HandleRpcs

\* If nothing of an open query is left anywhere, the ranks that have it are
\* closed under neighbours, so all ranks have it and have been counted.
LEMMA OpenMeansUnderWay ==
    ASSUME EveryRankReachable, RoutesOK, EntriesOK, NothingLost
    PROVE  NoQueryIsForgotten
<1> SUFFICES ASSUME NEW id \in Open, ~OfQuery(id) PROVE FALSE
  BY DEF NoQueryIsForgotten
<1>1. \A r, n \in Ranks : ~HasRequest(id, r) /\ ~ToAsk(id, r, n) /\ ~Asked(id, r, n)
  BY DEF OfQuery, HasRequest, ToAsk, Asked
<1>2. \A r \in Ranks : ~ResultUnderWay(id, r)
  <2> SUFFICES ASSUME NEW u \in UnderWay, u[3].id = id PROVE FALSE
    BY DEF ResultUnderWay
  <2>1. CASE \E r \in Ranks : \E m \in pendingResponses[r] : u = <<"pendingResponses", r, m>>
    BY <2>1 DEF OfQuery
  <2>2. CASE \E r \in Ranks : \E m \in shmResults[r] : u = <<"shmResults", r, m>>
    BY <2>2 DEF OfQuery
  <2>3. CASE \E c \in calls : Replies(c) /\ u = <<"calls", c.to, c.ReceiveResponse>>
    BY <2>3 DEF OfQuery
  <2> QED BY <2>1, <2>2, <2>3, UnderWayIs
<1> DEFINE S == {r \in Ranks : Known(id, r)}
<1>3. 0 \in S
  BY RankFacts DEF Known, EntriesOK, Open
<1>4. \A r \in S : \A i \in 1 .. Len(LogicalNeighbors[r]) : LogicalNeighbors[r][i] \in S
  <2> SUFFICES ASSUME NEW r \in S, NEW i \in 1 .. Len(LogicalNeighbors[r])
               PROVE  LogicalNeighbors[r][i] \in S
    OBVIOUS
  <2>1. PICK n : n = LogicalNeighbors[r][i]
    OBVIOUS
  <2>2. n \in Ranks /\ Neighbour(r, n)
    BY <2>1, RankFacts, ElementOfSeq DEF Neighbour
  <2>3. PassedOn(id, r)
    BY DEF NothingLost
  <2>4. Known(id, n)
    BY <1>1, <2>2, <2>3 DEF PassedOn
  <2> QED BY <2>1, <2>2, <2>4
<1>5. S = Ranks
  <2> HIDE DEF S
  <2>1. S \in SUBSET Ranks
    BY DEF S
  <2> QED BY <1>3, <1>4, <2>1 DEF EveryRankReachable
<1>6. \A r \in Ranks : r \in pendingClientRequests[id].ranks
  BY <1>1, <1>2, <1>5 DEF NothingLost, ResultKept
<1>7. pendingClientRequests[id].ranks \subseteq Ranks
  BY DEF EntriesOK, EntryOK, Open
<1>8. pendingClientRequests[id].ranks = Ranks
  BY <1>6, <1>7
<1> QED BY <1>8 DEF NothingLost

\* As long as a client waits for the answer to its query, some rank has
\* something of the query to do, or a call is under way for it: where no call
\* fails and the rings have room, no query is forgotten half way, whatever
\* routes it and its results take.  It is why the weak fairness of the threads
\* is enough for EveryQueryIsAnswered.
THEOREM NothingIsForgotten ==
    NobodyForgets /\ RoomForClients /\ EveryRankReachable => (MCReliableSpec => []NoQueryIsForgotten)
<1> SUFFICES ASSUME NobodyForgets, RoomForClients, EveryRankReachable
             PROVE  MCReliableSpec => []NoQueryIsForgotten
  OBVIOUS
<1>1. Init => RoutesOK /\ EntriesOK /\ WindowOK /\ OnePlace
  BY OnceInit
<1>2. Init => RoomInv
  BY RoomInit
<1>3. Init => KnownIds /\ NothingLost
  BY DEF Init, KnownIds, Window, NothingLost, Open
<1>4. [MCReliableNext]_vars => [MCNext]_vars /\ [Next]_vars
  BY DEF MCReliableNext, MCNext, Next, SubmitBounded, Finished
<1>5. RoutesOK /\ EntriesOK /\ WindowOK /\ OnePlace /\ RoomInv /\ KnownIds /\ NothingLost /\ [MCReliableNext]_vars =>
          RoutesOK' /\ EntriesOK' /\ WindowOK' /\ OnePlace' /\ RoomInv' /\ KnownIds' /\ NothingLost'
  <2> SUFFICES ASSUME RoutesOK, EntriesOK, WindowOK, OnePlace, RoomInv, KnownIds, NothingLost,
                      [MCReliableNext]_vars
               PROVE  RoutesOK' /\ EntriesOK' /\ WindowOK' /\ OnePlace' /\ RoomInv' /\ KnownIds' /\ NothingLost'
    OBVIOUS
  <2>1. RoutesOK' /\ EntriesOK' /\ WindowOK' /\ OnePlace' /\ RoomInv' /\ KnownIds'
    BY <1>4, RoutesStep, ServiceStep, WindowStep, OnceStep, RoomStep, KnownIdsStep
  <2>2. NobodyTerminated /\ NobodyTerminated'
    BY <2>1 DEF RoomInv
  <2> QED BY <2>1, <2>2, LostStep
<1>6. RoutesOK /\ EntriesOK /\ NothingLost => NoQueryIsForgotten
  BY OpenMeansUnderWay
<1> QED BY <1>1, <1>2, <1>3, <1>5, <1>6, PTL DEF MCReliableSpec

-----------------------------------------------------------------------------
(* Every query ends *)

\* Rank r has not searched for the query.
ToDo(id, r) == ~Known(id, r) \/ HasRequest(id, r)

OnPath(path, x) == \E i \in 1 .. Len(path) : path[i] = x

\* Rank x has still to read the result from shared memory, or to send it, or
\* the result has still to leave it.
StillTo(step, u, x) ==
    /\ OnPath(u[3].requested_by, x)
    /\ \/ x # LastOf(u[3].requested_by)
       \/ u[1] = "shmResults"
       \/ step = "send" /\ u[1] = "pendingResponses"
       \/ step = "leave"

\* The step is left for the query: to be accepted and searched for by r, for r
\* to ask x and x to take the call, and for r's result to go through x.
Left(step, id, r, x) ==
    \/ step = "accept" /\ x = r /\ ~Known(id, r)
    \/ step = "search" /\ x = r /\ ToDo(id, r)
    \/ step = "ask"    /\ (ToDo(id, r) \/ ToAsk(id, r, x))
    \/ step = "take"   /\ (ToDo(id, r) \/ ToAsk(id, r, x) \/ Asked(id, r, x))
    \/ /\ step \in {"read", "send", "leave"}
       /\ \/ ToDo(id, r)
          \/ \E u \in UnderWay : u[3].id = id /\ u[3].results_from = r /\ StillTo(step, u, x)

Steps == {"accept", "search", "ask", "take", "read", "send", "leave"}

Tasks == {t \in Steps \X Queries \X Ranks \X Ranks : Left(t[1], t[2], t[3], t[4])}

\* A path has each rank once, and the ranks on it have searched.
PathOnce(path) ==
    \A i, j \in 1 .. Len(path) : path[i] = path[j] /\ path[i] \in Ranks => i = j

DoneAlong(m) == \A x \in Ranks : OnPath(m.requested_by, x) => ~ToDo(m.id, x)

Forward(m) == PathOnce(m.requested_by) /\ DoneAlong(m)

WorkAsks(r, w) ==
    /\ \A i, j \in 1 .. Len(w.todo) : w.todo[i] = w.todo[j] => i = j
    /\ \A i \in 1 .. Len(w.todo) : ~Asked(w.request.id, r, w.todo[i])

\* A query goes only to ranks that are not on its path, and along an edge of the
\* network once.
Asking ==
    /\ \A r \in Ranks : \A m \in pendingRequests[r] : Forward(m)
    /\ \A r \in Ranks : \A w \in requestWork[r] : Forward(w.request) /\ WorkAsks(r, w)
    /\ \A r \in Ranks : \A v, w \in requestWork[r] : v.request.id = w.request.id => v = w
    /\ \A c \in calls : Asks(c) \/ Replies(c)
    /\ \A c \in calls : Asks(c) => Forward(c.SendRequest) /\ c = [SendRequest |-> c.SendRequest, to |-> c.to]
    /\ \A c, d \in calls :
          /\ Asks(c) /\ Asks(d) /\ c.SendRequest.id = d.SendRequest.id /\ c.to = d.to
          /\ LastOf(c.SendRequest.requested_by) = LastOf(d.SendRequest.requested_by)
          => c = d
    /\ \A u \in UnderWay : u[3].id \in Queries /\ PathOnce(u[3].requested_by)

LEMMA PopOnce ==
    ASSUME NEW path \in Seq(Int), Len(path) > 0, PathOnce(path)
    PROVE  /\ PathOnce(PopBack(path))
           /\ \A x \in Ranks : OnPath(PopBack(path), x) => OnPath(path, x) /\ x # LastOf(path)
           /\ OnPath(path, LastOf(path))
<1> DEFINE p == PopBack(path)
           m == Len(path) - 1
<1>1. Len(path) \in Nat /\ Len(p) = Len(path) - 1 /\ \A i \in 1 .. Len(p) : p[i] = path[i]
  <2>1. Len(path) \in Nat /\ m \in Nat /\ m - 1 + 1 = m /\ (1 <= m \/ m = 0)
    <3>1. \A n \in Nat : n > 0 => n - 1 \in Nat /\ (n - 1) - 1 + 1 = n - 1 /\ (1 <= n - 1 \/ n - 1 = 0)
      OBVIOUS
    <3>2. Len(path) \in Nat /\ Len(path) > 0
      OBVIOUS
    <3> HIDE DEF p
    <3> QED BY <3>1, <3>2
  <2>2. \A i \in 1 .. m : path[i] \in Int /\ 1 + i - 1 = i
    <3>1. \A i \in 1 .. m : i \in 1 .. Len(path) /\ 1 + i - 1 = i
      BY <2>1
    <3> QED BY <3>1, ElementOfSeq
  <2> HIDE DEF m
  <2>3. /\ Len(SubSeq(path, 1, m)) = IF 1 <= m THEN m - 1 + 1 ELSE 0
        /\ \A i \in 1 .. m - 1 + 1 : SubSeq(path, 1, m)[i] = path[1 + i - 1]
    BY <2>1, <2>2, SubSeqProperties
  <2>4. p = SubSeq(path, 1, m)
    BY DEF PopBack, m
  <2>5. Len(p) = m /\ \A i \in 1 .. m : p[i] = path[i]
    BY <2>1, <2>2, <2>3, <2>4
  <2> QED BY <2>1, <2>5 DEF m
<1> HIDE DEF p
<1>2. \A i \in 1 .. Len(p) : i \in 1 .. Len(path) /\ i # Len(path)
  BY <1>1
<1>3. Len(path) \in 1 .. Len(path)
  BY <1>1
<1>4. PathOnce(p)
  BY <1>1, <1>2 DEF PathOnce
<1>5. ASSUME NEW x \in Ranks, OnPath(p, x) PROVE OnPath(path, x) /\ x # LastOf(path)
  BY <1>1, <1>2, <1>3, <1>5 DEF PathOnce, OnPath, LastOf
<1>6. OnPath(path, LastOf(path))
  BY <1>3 DEF OnPath, LastOf
<1> QED BY <1>4, <1>5, <1>6 DEF p

LEMMA AppendOnce ==
    ASSUME NEW path \in Seq(Int), NEW r \in Ranks, PathOnce(path), ~OnPath(path, r)
    PROVE  /\ PathOnce(Append(path, r))
           /\ \A x : OnPath(Append(path, r), x) => OnPath(path, x) \/ x = r
<1> DEFINE q == Append(path, r)
<1>1. /\ Len(path) \in Nat /\ Len(q) = Len(path) + 1 /\ q[Len(q)] = r
      /\ \A i \in 1 .. Len(q) : i # Len(q) => i \in 1 .. Len(path) /\ q[i] = path[i]
  BY RankFacts
<1> HIDE DEF q
<1>2. \A i \in 1 .. Len(q) : q[i] = r => i = Len(q)
  BY <1>1 DEF OnPath
<1>3. PathOnce(q)
  BY <1>1, <1>2 DEF PathOnce
<1>4. \A x : OnPath(q, x) => OnPath(path, x) \/ x = r
  BY <1>1 DEF OnPath
<1> QED BY <1>3, <1>4 DEF q

\* A step that leaves nothing new to do, and a task less.
NothingNew ==
    /\ \A id \in Queries, r \in Ranks : Known(id, r) => Known(id, r)'
    /\ \A id \in Queries, r \in Ranks : ToDo(id, r)' => ToDo(id, r)
    /\ \A id \in Queries, r, x \in Ranks : ToAsk(id, r, x)' => ToDo(id, r) \/ ToAsk(id, r, x)
    /\ \A id \in Queries, r, x \in Ranks :
          Asked(id, r, x)' => ToDo(id, r) \/ ToAsk(id, r, x) \/ Asked(id, r, x)
    /\ \A u \in UnderWay' : \A x \in Ranks : \A step \in Steps : StillTo(step, u, x) =>
          \/ ToDo(u[3].id, u[3].results_from)
          \/ \E v \in UnderWay : v[3].id = u[3].id /\ v[3].results_from = u[3].results_from /\ StillTo(step, v, x)

Fewer == Tasks' \subseteq Tasks /\ Tasks' # Tasks

LEMMA FewerTasks ==
    ASSUME NothingNew, NEW step \in Steps, NEW id \in Queries, NEW r \in Ranks, NEW x \in Ranks,
           Left(step, id, r, x), ~Left(step, id, r, x)'
    PROVE  Fewer
<1>1. ASSUME NEW s \in Steps, NEW i \in Queries, NEW q \in Ranks, NEW y \in Ranks, Left(s, i, q, y)'
      PROVE  Left(s, i, q, y)
  <2>1. CASE s \in {"accept", "search", "ask", "take"}
    BY <1>1, <2>1 DEF NothingNew, Left
  <2>2. CASE s \in {"read", "send", "leave"}
    <3>1. CASE ToDo(i, q)'
      BY <2>2, <3>1 DEF NothingNew, Left
    <3>2. CASE ~ToDo(i, q)'
      <4>1. PICK u \in UnderWay' : u[3].id = i /\ u[3].results_from = q /\ StillTo(s, u, y)
        BY <1>1, <2>2, <3>2 DEF Left
      <4>2. \/ ToDo(i, q)
            \/ \E v \in UnderWay : v[3].id = i /\ v[3].results_from = q /\ StillTo(s, v, y)
        BY <4>1 DEF NothingNew
      <4> QED BY <2>2, <4>2 DEF Left
    <3> QED BY <3>1, <3>2
  <2> QED BY <2>1, <2>2 DEF Steps
<1>2. Tasks' \subseteq Tasks
  BY <1>1 DEF Tasks
<1>3. <<step, id, r, x>> \in Tasks /\ <<step, id, r, x>> \notin Tasks'
  BY DEF Tasks
<1> QED BY <1>2, <1>3 DEF Fewer

\* Where only results move, and no query is asked anybody.
LEMMA AskingKept ==
    ASSUME WindowOK, Asking,
           \A id \in Queries, x \in Ranks : ToDo(id, x)' => ToDo(id, x),
           \A r \in Ranks : pendingRequests'[r] \subseteq pendingRequests[r],
           \A r \in Ranks : requestWork'[r] \subseteq requestWork[r],
           \A c \in calls' : c \in calls \/ (Replies(c) /\ ~Asks(c)),
           \A u \in UnderWay' : u[3].id \in Queries /\ PathOnce(u[3].requested_by)
    PROVE  Asking'
<1>1. \A m : m.id \in Queries /\ Forward(m) => Forward(m)'
  BY DEF Forward, DoneAlong, PathOnce, OnPath
<1>2. \A id, r, x : Asked(id, r, x)' => Asked(id, r, x)
  BY DEF Asked
<1>3. \A r, w : WorkAsks(r, w) => WorkAsks(r, w)'
  BY <1>2 DEF WorkAsks
<1>4. \A r \in Ranks : \A m \in pendingRequests'[r] : Forward(m)'
  BY <1>1 DEF Asking, WindowOK
<1>5. \A r \in Ranks : \A w \in requestWork'[r] : Forward(w.request)' /\ WorkAsks(r, w)'
  BY <1>1, <1>3 DEF Asking, WindowOK
<1>6. \A r \in Ranks : \A v, w \in requestWork'[r] : v.request.id = w.request.id => v = w
  BY DEF Asking
<1>7. \A c \in calls' : Asks(c) \/ Replies(c)
  BY DEF Asking
<1>8. \A c \in calls' : Asks(c) => Forward(c.SendRequest)' /\ c = [SendRequest |-> c.SendRequest, to |-> c.to]
  BY <1>1 DEF Asking, WindowOK
<1>9. \A c, d \in calls' :
          /\ Asks(c) /\ Asks(d) /\ c.SendRequest.id = d.SendRequest.id /\ c.to = d.to
          /\ LastOf(c.SendRequest.requested_by) = LastOf(d.SendRequest.requested_by)
          => c = d
  BY DEF Asking
<1>10. \A u \in UnderWay' : PathOnce(u[3].requested_by)'
  BY DEF PathOnce
<1> QED BY <1>4, <1>5, <1>6, <1>7, <1>8, <1>9, <1>10 DEF Asking, Asks, Replies

\* A result that has got further, and nothing else has happened.
LEMMA ResultAdvances ==
    ASSUME WindowOK, OnePlace, Asking, NEW old \in UnderWay, NEW new,
           UnderWay' \subseteq (UnderWay \ {old}) \cup {new},
           new[3].id = old[3].id, new[3].results_from = old[3].results_from,
           PathOnce(new[3].requested_by),
           \A x \in Ranks : \A step \in Steps : StillTo(step, new, x) => StillTo(step, old, x),
           NEW step \in {"read", "send", "leave"}, NEW x \in Ranks,
           StillTo(step, old, x), ~StillTo(step, new, x),
           \A c \in calls' : c \in calls \/ (Replies(c) /\ ~Asks(c)),
           UNCHANGED <<requestCounter, latestQueryIDs, pendingRequests, requestWork>>
    PROVE  Fewer /\ Asking'
<1>1. /\ \A id, r : Known(id, r)' <=> Known(id, r)
      /\ \A id, r : ToDo(id, r)' <=> ToDo(id, r)
      /\ \A id, r, y : ToAsk(id, r, y)' <=> ToAsk(id, r, y)
      /\ \A id, r, y : Asked(id, r, y)' => Asked(id, r, y)
  BY DEF Known, ToDo, HasRequest, Window, ToAsk, Asked
<1>2. \A u \in UnderWay' : (u \in UnderWay /\ u # old) \/ u = new
  OBVIOUS
<1>3. NothingNew
  <2>1. ASSUME NEW u \in UnderWay', NEW y \in Ranks, NEW s \in Steps, StillTo(s, u, y)
        PROVE  \E v \in UnderWay : v[3].id = u[3].id /\ v[3].results_from = u[3].results_from /\ StillTo(s, v, y)
    BY <1>2, <2>1
  <2> QED BY <1>1, <2>1 DEF NothingNew
<1> DEFINE id == old[3].id
           r == old[3].results_from
<1>4. id \in Queries /\ r \in Ranks /\ ~ToDo(id, r)
  BY DEF Asking, OnePlace, ToDo, HasRequest
<1>5. Left(step, id, r, x)
  BY DEF Left
<1>6. \A u \in UnderWay' : u[3].id = id /\ u[3].results_from = r => ~StillTo(step, u, x)
  BY <1>2 DEF OnePlace
<1>7. ~Left(step, id, r, x)'
  BY <1>1, <1>4, <1>6 DEF Left, StillTo, OnPath
<1>8. Fewer
  <2> HIDE DEF id, r
  <2>1. step \in Steps
    BY DEF Steps
  <2> QED BY <1>3, <1>4, <1>5, <1>7, <2>1, FewerTasks
<1>9. Asking'
  <2>1. \A u \in UnderWay' : u[3].id \in Queries /\ PathOnce(u[3].requested_by)
    BY <1>2, <1>4 DEF Asking
  <2> QED BY <1>1, <2>1, AskingKept
<1> QED BY <1>8, <1>9

\* A result that has left its last rank, or is gone.
LEMMA ResultLeaves ==
    ASSUME WindowOK, OnePlace, Asking, NEW old \in UnderWay, NEW new, NEW r \in Ranks,
           old[3].requested_by \in Seq(Int), RouteOf(old[3].requested_by, r),
           UnderWay' \subseteq (UnderWay \ {old}) \cup {new},
           new[3].id = old[3].id, new[3].results_from = old[3].results_from,
           new[3].requested_by = PopBack(old[3].requested_by),
           \A c \in calls' : c \in calls \/ (Replies(c) /\ ~Asks(c)),
           UNCHANGED <<requestCounter, latestQueryIDs, pendingRequests, requestWork>>
    PROVE  Fewer /\ Asking'
<1> DEFINE path == old[3].requested_by
<1>1. path \in Seq(Int) /\ Len(path) > 0 /\ LastOf(path) = r /\ PathOnce(path)
  BY DEF RouteOf, Asking
<1>2. /\ PathOnce(PopBack(path)) /\ OnPath(path, r)
      /\ \A x \in Ranks : OnPath(PopBack(path), x) => OnPath(path, x) /\ x # r
  <2> HIDE DEF path
  <2> QED BY <1>1, PopOnce
<1>3. \A x \in Ranks : \A step \in Steps : StillTo(step, new, x) => StillTo(step, old, x)
  BY <1>1, <1>2 DEF StillTo
<1>4. StillTo("leave", old, r) /\ ~StillTo("leave", new, r)
  BY <1>2 DEF StillTo
<1>5. PathOnce(new[3].requested_by)
  BY <1>2
<1> HIDE DEF path
<1> QED BY <1>3, <1>4, <1>5, ResultAdvances

LEMMA AskedBy ==
    ASSUME NEW m, NEW r \in Ranks \ {0}, RequestFor(m, r)
    PROVE  LastOf(m.requested_by) \in Ranks /\ OnPath(m.requested_by, LastOf(m.requested_by))
<1> DEFINE path == m.requested_by
           q == Append(path, r)
<1>1. path \in Seq(Int) /\ RouteOf(q, r) /\ Len(path) \in Nat
  BY DEF RequestFor, IsRequest
<1>2. Len(q) = Len(path) + 1 /\ q[Len(path) + 1] = r /\ \A i \in 1 .. Len(path) : q[i] = path[i]
  BY <1>1, RankFacts
<1> HIDE DEF path, q
<1>3. Len(path) + 1 > 1 /\ q[Len(path) + 1 - 1] \in Ranks
  <2>1. Len(path) + 1 \in 1 .. Len(q) /\ q[Len(path) + 1] \in Ranks \ {0}
    BY <1>1, <1>2
  <2> QED BY <1>1, <2>1 DEF RouteOf
<1>4. Len(path) \in 1 .. Len(path) /\ Len(path) + 1 - 1 = Len(path)
  BY <1>1, <1>3
<1>5. path[Len(path)] \in Ranks
  BY <1>2, <1>3, <1>4
<1> QED BY <1>4, <1>5 DEF LastOf, OnPath, path

\* A call to ask a rank is no longer under way.
LEMMA CallTaken ==
    ASSUME RoutesOK, WindowOK, Asking, NothingNew, NEW c \in calls, Asks(c),
           calls' = calls \ {c}, UNCHANGED requestWork
    PROVE  Fewer
<1> PICK id, x, r : id = c.SendRequest.id /\ x = c.to /\ r = LastOf(c.SendRequest.requested_by)
  OBVIOUS
<1>1. id \in Queries /\ x \in Ranks \ {0} /\ RequestFor(c.SendRequest, x)
  BY DEF WindowOK, RoutesOK, CallOnRoute
<1>2. r \in Ranks /\ OnPath(c.SendRequest.requested_by, r)
  BY <1>1, AskedBy
<1>3. ~ToDo(id, r)
  BY <1>2 DEF Asking, Forward, DoneAlong
<1>4. Asked(id, r, x)
  BY DEF Asked
<1>5. ~ToAsk(id, r, x)
  BY <1>2, <1>4 DEF ToAsk, Asking, WorkAsks
<1>6. ~ToDo(id, r)' /\ ~ToAsk(id, r, x)'
  BY <1>1, <1>2, <1>3, <1>5 DEF NothingNew, ToAsk
<1>7. ~Asked(id, r, x)'
  <2> SUFFICES ASSUME NEW d \in calls \ {c}, Asks(d), d.to = x, d.SendRequest.id = id,
                      LastOf(d.SendRequest.requested_by) = r
               PROVE  FALSE
    BY DEF Asked, Asks
  <2> QED BY DEF Asking
<1>8. Left("take", id, r, x) /\ ~Left("take", id, r, x)'
  BY <1>4, <1>6, <1>7 DEF Left
<1> QED BY <1>1, <1>2, <1>8, FewerTasks DEF Steps

\* The results are where they were.
LEMMA ResultsRest ==
    ASSUME UnderWay' = UnderWay,
           \A id \in Queries, r \in Ranks : Known(id, r) => Known(id, r)',
           \A id \in Queries, r \in Ranks : ToDo(id, r)' => ToDo(id, r),
           \A id \in Queries, r, x \in Ranks : ToAsk(id, r, x)' => ToDo(id, r) \/ ToAsk(id, r, x),
           \A id \in Queries, r, x \in Ranks :
               Asked(id, r, x)' => ToDo(id, r) \/ ToAsk(id, r, x) \/ Asked(id, r, x)
    PROVE  NothingNew
BY DEF NothingNew

LEMMA ClientFewer ==
    ASSUME RoutesOK, WindowOK, Asking, NEW path \in ClientPaths, GetCollisions(path)
    PROVE  Fewer /\ Asking'
<1>1. PICK id, m : id = requestCounter /\ m = [id |-> id, requested_by |-> path]
  OBVIOUS
<1>2. /\ id \in Queries /\ requestCounter' = requestCounter + 1
      /\ pendingRequests' = [pendingRequests EXCEPT ![0] = @ \cup {m}] \/ UNCHANGED pendingRequests
      /\ UNCHANGED <<latestQueryIDs, requestWork, pendingResponses, shmResults, calls>>
  BY <1>1 DEF GetCollisions, Push
<1>3. /\ DOMAIN pendingRequests = Ranks /\ 0 \in Ranks /\ Queries \subseteq Nat
      /\ m.id = id /\ m.requested_by = path
  BY <1>1, RankFacts DEF RoutesOK, Queries
<1>4. UnderWay' = UnderWay
  BY <1>2 DEF UnderWay
<1>5. /\ \A i \in Queries, r \in Ranks : Known(i, r) => Known(i, r)'
      /\ ~Known(id, 0) /\ Known(id, 0)'
      /\ \A i, r : r # 0 => (Known(i, r)' <=> Known(i, r))
  BY <1>1, <1>2, <1>3 DEF Known, Window
<1>6. \A r \in Ranks : \A n \in pendingRequests'[r] : n \in pendingRequests[r] \/ (r = 0 /\ n = m)
  BY <1>2, <1>3
<1>7. \A i \in Queries, r \in Ranks : ToDo(i, r)' => ToDo(i, r)
  BY <1>3, <1>5, <1>6 DEF ToDo, HasRequest
<1>8. /\ \A i, r, x : ToAsk(i, r, x)' <=> ToAsk(i, r, x)
      /\ \A i, r, x : Asked(i, r, x)' <=> Asked(i, r, x)
  BY <1>2 DEF ToAsk, Asked, Asks
<1>9. NothingNew
  BY <1>4, <1>5, <1>7, <1>8, ResultsRest
<1>10. Fewer
  <2>1. Left("accept", id, 0, 0) /\ ~Left("accept", id, 0, 0)'
    BY <1>5 DEF Left
  <2> QED BY <1>2, <1>3, <1>9, <2>1, FewerTasks DEF Steps
<1>11. \A n : n.id \in Queries /\ Forward(n) => Forward(n)'
  BY <1>7 DEF Forward, DoneAlong, PathOnce, OnPath
<1>12. Forward(m)'
  <2>1. \A x \in Ranks : ~OnPath(path, x)
    BY NetworkAssumption DEF OnPath
  <2> QED BY <1>3, <2>1 DEF Forward, PathOnce, DoneAlong, OnPath
<1>13. \A r \in Ranks : \A n \in pendingRequests'[r] : Forward(n)'
  BY <1>6, <1>11, <1>12 DEF Asking, WindowOK
<1>14. \A r, w : WorkAsks(r, w) => WorkAsks(r, w)'
  BY <1>8 DEF WorkAsks
<1>15. \A r \in Ranks : \A w \in requestWork[r] : Forward(w.request)' /\ WorkAsks(r, w)'
  BY <1>11, <1>14 DEF Asking, WindowOK
<1>16. \A c \in calls : Asks(c) => Forward(c.SendRequest)'
  BY <1>11 DEF Asking, WindowOK
<1>17. \A u \in UnderWay : PathOnce(u[3].requested_by)'
  BY DEF Asking, PathOnce
<1>18. Asking'
  BY <1>2, <1>4, <1>13, <1>15, <1>16, <1>17 DEF Asking, Asks, Replies
<1> QED BY <1>10, <1>18

LEMMA RequestFewer ==
    ASSUME RoutesOK, WindowOK, OnePlace, Asking, NeighboursOnce,
           NEW r \in Ranks, NEW request \in pendingRequests[r], HandleRequest(r, request)
    PROVE  Fewer /\ Asking'
<1>1. PICK mine, response, id, todo :
        /\ mine = [request EXCEPT !.requested_by = Append(@, r)]
        /\ response = [id |-> mine.id, requested_by |-> mine.requested_by, results_from |-> r]
        /\ id = request.id /\ todo = LogicalNeighbors[r]
  OBVIOUS
<1>2. /\ mine.id = id /\ mine.requested_by = Append(request.requested_by, r)
      /\ response.id = id /\ response.requested_by = mine.requested_by /\ response.results_from = r
      /\ request.requested_by \in Seq(Int)
  BY <1>1 DEF RoutesOK, RequestFor, IsRequest
<1>3. /\ pendingRequests' = [pendingRequests EXCEPT ![r] = @ \ {request}]
      /\ Push(pendingResponses, r, response, MAX_CONCURRENT_RESPONSES, r)
      /\ requestWork' = [requestWork EXCEPT ![r] = @ \cup PassOn(mine, todo)]
      /\ UNCHANGED <<requestCounter, latestQueryIDs, shmResults, calls>>
  BY <1>1 DEF HandleRequest
<1>4. UNCHANGED pendingResponses \/ pendingResponses' = [pendingResponses EXCEPT ![r] = @ \cup {response}]
  BY <1>3 DEF Push
<1>5. /\ DOMAIN pendingRequests = Ranks /\ DOMAIN requestWork = Ranks /\ DOMAIN pendingResponses = Ranks
      /\ id \in Queries /\ todo \in Seq(Ranks)
  BY <1>1, RankFacts DEF RoutesOK, WindowOK
<1>6. PICK new : new = <<"pendingResponses", r, response>>
  OBVIOUS
<1>7. \A u \in UnderWay' : u \in UnderWay \/ u = new
  <2>1. \A q \in Ranks : \A m \in pendingResponses'[q] : m \in pendingResponses[q] \/ (q = r /\ m = response)
    BY <1>4, <1>5
  <2> QED BY <1>3, <1>6, <2>1, UnderWayIs
<1>8. new[3].id = id /\ new[3].results_from = r /\ new[3].requested_by = mine.requested_by
  BY <1>2, <1>6
<1>9. Known(id, r) /\ ToDo(id, r)
  BY <1>1 DEF OnePlace, ToDo, HasRequest
<1>10. /\ \A q \in Ranks : \A m \in pendingRequests'[q] : m \in pendingRequests[q]
       /\ \A m \in pendingRequests'[r] : m.id # id
  BY <1>1, <1>3, <1>5 DEF OnePlace
<1>11. \A i, q : Known(i, q)' <=> Known(i, q)
  BY <1>3 DEF Known, Window
<1>12. \A i : \A q \in Ranks : ToDo(i, q)' => ToDo(i, q)
  BY <1>10, <1>11 DEF ToDo, HasRequest
<1>13. ~ToDo(id, r)'
  BY <1>9, <1>10, <1>11 DEF ToDo, HasRequest
<1>14. \A q \in Ranks : \A w \in requestWork'[q] :
          w \in requestWork[q] \/ (q = r /\ w = [request |-> mine, todo |-> todo])
  BY <1>3, <1>5 DEF PassOn
<1>15. \A i, q, x : Asked(i, q, x)' <=> Asked(i, q, x)
  BY <1>3 DEF Asked, Asks
<1>16. NothingNew
  <2>1. ASSUME NEW i \in Queries, NEW q \in Ranks, NEW x \in Ranks, ToAsk(i, q, x)'
        PROVE  ToDo(i, q) \/ ToAsk(i, q, x)
    BY <1>2, <1>9, <1>14, <2>1 DEF ToAsk
  <2>2. ASSUME NEW u \in UnderWay', NEW x \in Ranks, NEW step \in Steps, StillTo(step, u, x)
        PROVE  \/ ToDo(u[3].id, u[3].results_from)
               \/ \E v \in UnderWay : v[3].id = u[3].id /\ v[3].results_from = u[3].results_from /\ StillTo(step, v, x)
    BY <1>7, <1>8, <1>9, <2>2
  <2> QED BY <1>11, <1>12, <1>15, <2>1, <2>2 DEF NothingNew
<1>17. Fewer
  <2>1. Left("search", id, r, r) /\ ~Left("search", id, r, r)'
    BY <1>9, <1>13 DEF Left
  <2> QED BY <1>5, <1>16, <2>1, FewerTasks DEF Steps
<1>18. \A n : n.id \in Queries /\ Forward(n) => Forward(n)'
  BY <1>12 DEF Forward, DoneAlong, PathOnce, OnPath
<1>19. /\ Forward(mine)' /\ PathOnce(mine.requested_by)
  <2>1. PathOnce(request.requested_by) /\ DoneAlong(request)
    BY DEF Asking, Forward
  <2>2. ~OnPath(request.requested_by, r)
    BY <1>1, <1>9, <2>1 DEF DoneAlong
  <2>3. /\ PathOnce(mine.requested_by)
        /\ \A x : OnPath(mine.requested_by, x) => OnPath(request.requested_by, x) \/ x = r
    BY <1>2, <2>1, <2>2, AppendOnce
  <2>4. \A x \in Ranks : OnPath(mine.requested_by, x) => ~ToDo(id, x)'
    BY <1>1, <1>5, <1>12, <1>13, <2>1, <2>3 DEF DoneAlong
  <2> QED BY <1>2, <2>3, <2>4 DEF Forward, DoneAlong, PathOnce, OnPath
<1>20. \A n : n \in Ranks => ~Asked(id, r, n)
  <2> SUFFICES ASSUME NEW c \in calls, Asks(c), c.SendRequest.id = id, LastOf(c.SendRequest.requested_by) = r
               PROVE  FALSE
    BY DEF Asked
  <2>1. OnPath(c.SendRequest.requested_by, r)
    <3>1. c.to \in Ranks \ {0} /\ RequestFor(c.SendRequest, c.to)
      BY DEF WindowOK, RoutesOK, CallOnRoute
    <3> QED BY <3>1, AskedBy
  <2> QED BY <1>9, <2>1 DEF Asking, Forward, DoneAlong
<1>21. \A w \in requestWork[r] : w.request.id # id
  <2> SUFFICES ASSUME NEW w \in requestWork[r], w.request.id = id PROVE FALSE
    OBVIOUS
  <2>1. OnPath(w.request.requested_by, r)
    <3>1. /\ w.request.requested_by \in Seq(Int) /\ Len(w.request.requested_by) > 0
          /\ LastOf(w.request.requested_by) = r
      BY DEF RoutesOK, WorkOf, RouteOf, IsRequest
    <3> QED BY <3>1 DEF OnPath, LastOf
  <2> QED BY <1>9, <2>1 DEF Asking, Forward, DoneAlong
<1>22. \A q \in Ranks : \A m \in pendingRequests'[q] : Forward(m)'
  BY <1>10, <1>18 DEF Asking, WindowOK
<1>23. \A q, w : WorkAsks(q, w) => WorkAsks(q, w)'
  BY <1>15 DEF WorkAsks
<1>24. PICK work : work = [request |-> mine, todo |-> todo]
  OBVIOUS
<1>25. work.request = mine /\ work.todo = todo
  BY <1>24
<1>26. WorkAsks(r, work)'
  <2>1. \A i \in 1 .. Len(todo) : todo[i] \in Ranks
    BY <1>5, ElementOfSeq
  <2>2. \A i, j \in 1 .. Len(todo) : todo[i] = todo[j] => i = j
    BY <1>1 DEF NeighboursOnce
  <2> QED BY <1>2, <1>15, <1>20, <1>25, <2>1, <2>2 DEF WorkAsks
<1>27. \A q \in Ranks : \A w \in requestWork'[q] : Forward(w.request)' /\ WorkAsks(q, w)'
  BY <1>14, <1>18, <1>19, <1>23, <1>24, <1>25, <1>26 DEF Asking, WindowOK
<1>28. \A q \in Ranks : \A v, w \in requestWork'[q] : v.request.id = w.request.id => v = w
  BY <1>2, <1>14, <1>21, <1>24, <1>25 DEF Asking
<1>29. \A c \in calls : Asks(c) => Forward(c.SendRequest)'
  BY <1>18 DEF Asking, WindowOK
<1>30. \A u \in UnderWay' : u[3].id \in Queries /\ PathOnce(u[3].requested_by)'
  <2>1. \A u \in UnderWay' : u[3].id \in Queries /\ PathOnce(u[3].requested_by)
    BY <1>5, <1>7, <1>8, <1>19 DEF Asking
  <2> QED BY <2>1 DEF PathOnce
<1>31. Asking'
  BY <1>3, <1>22, <1>27, <1>28, <1>29, <1>30 DEF Asking, Asks, Replies
<1> QED BY <1>17, <1>31

LEMMA PeerFewer ==
    ASSUME RoutesOK, WindowOK, Asking,
           NEW r \in Ranks, NEW work \in requestWork[r], QueryPeer(r, work)
    PROVE  Fewer /\ Asking'
<1>1. PICK request, id, n, rest :
        request = work.request /\ id = request.id /\ n = Head(work.todo) /\ rest = Tail(work.todo)
  OBVIOUS
<1>2. PICK c, more : c = [SendRequest |-> request, to |-> n] /\ more = [request |-> request, todo |-> rest]
  OBVIOUS
<1>3. /\ c.SendRequest = request /\ c.to = n /\ Asks(c) /\ ~Replies(c)
      /\ c = [SendRequest |-> c.SendRequest, to |-> c.to]
      /\ more.request = request /\ more.todo = rest
  BY <1>2 DEF Asks, Replies
<1>4. /\ calls' = calls \cup {c}
      /\ requestWork' = [requestWork EXCEPT ![r] = (@ \ {work}) \cup PassOn(request, rest)]
      /\ UNCHANGED <<requestCounter, latestQueryIDs, pendingRequests, pendingResponses, shmResults>>
  BY <1>1, <1>2 DEF QueryPeer
<1>5. /\ DOMAIN requestWork = Ranks /\ id \in Queries /\ Forward(request) /\ WorkAsks(r, work)
      /\ WorkOf(work, r)
  BY <1>1 DEF RoutesOK, WindowOK, Asking
<1>6. /\ work.todo \in Seq(Ranks) /\ 1 \in 1 .. Len(work.todo) /\ work.todo[1] = n /\ n \in Ranks
      /\ \A i \in 1 .. Len(rest) : i + 1 \in 1 .. Len(work.todo) /\ i + 1 # 1 /\ rest[i] = work.todo[i + 1]
  BY <1>1, <1>5 DEF WorkOf
<1>7. LastOf(request.requested_by) = r /\ OnPath(request.requested_by, r)
  <2>1. request.requested_by \in Seq(Int) /\ Len(request.requested_by) > 0 /\ LastOf(request.requested_by) = r
    BY <1>1, <1>5 DEF WorkOf, RouteOf, IsRequest
  <2> QED BY <2>1 DEF OnPath, LastOf
<1>8. ~ToDo(id, r)
  BY <1>1, <1>5, <1>7 DEF Forward, DoneAlong
<1>9. \A i, q : Known(i, q)' = Known(i, q) /\ ToDo(i, q)' = ToDo(i, q)
  BY <1>4 DEF Known, Window, ToDo, HasRequest
<1>10. UnderWay' = UnderWay
  BY <1>3, <1>4, UnderWayIs
<1>11. \A q \in Ranks : \A w \in requestWork'[q] : (w \in requestWork[q] /\ w # work) \/ (q = r /\ w = more)
  <2>1. \A w \in requestWork'[r] : (w \in requestWork[r] /\ w # work) \/ w = more
    BY <1>2, <1>4, <1>5 DEF PassOn
  <2>2. \A q \in Ranks : q # r => \A w \in requestWork[q] : w # work
    <3> SUFFICES ASSUME NEW q \in Ranks, work \in requestWork[q] PROVE q = r
      OBVIOUS
    <3>1. LastOf(work.request.requested_by) = q
      BY DEF RoutesOK, WorkOf, RouteOf
    <3> QED BY <1>1, <1>7, <3>1
  <2>3. \A q \in Ranks : q # r => requestWork'[q] = requestWork[q]
    BY <1>4, <1>5
  <2> QED BY <2>1, <2>2, <2>3
<1>12. /\ \A w \in requestWork[r] : w.request.id = id => w = work
       /\ \A i \in 1 .. Len(rest) : rest[i] # n
  <2>1. \A w \in requestWork[r] : w.request.id = id => w = work
    BY <1>1 DEF Asking
  <2>2. \A i \in 1 .. Len(rest) : rest[i] # n
    BY <1>5, <1>6 DEF WorkAsks
  <2> QED BY <2>1, <2>2
<1>13. ToAsk(id, r, n) /\ ~ToAsk(id, r, n)'
  <2>1. ToAsk(id, r, n)
    BY <1>1, <1>6 DEF ToAsk
  <2>2. \A w \in requestWork'[r] : w.request.id = id => w = more
    BY <1>11, <1>12
  <2>3. ~ToAsk(id, r, n)'
    BY <1>3, <1>12, <2>2 DEF ToAsk
  <2> QED BY <2>1, <2>3
<1>14. \A i, q, x : Asked(i, q, x)' => Asked(i, q, x) \/ (i = id /\ q = r /\ x = n)
  BY <1>1, <1>3, <1>4, <1>7 DEF Asked, Asks
<1>15. NothingNew
  <2>1. ASSUME NEW i \in Queries, NEW q \in Ranks, NEW x \in Ranks, ToAsk(i, q, x)'
        PROVE  ToAsk(i, q, x)
    <3>1. PICK w \in requestWork'[q] : w.request.id = i /\ \E j \in 1 .. Len(w.todo) : w.todo[j] = x
      BY <2>1 DEF ToAsk
    <3>2. CASE w \in requestWork[q]
      BY <3>1, <3>2 DEF ToAsk
    <3>3. CASE q = r /\ w = more
      <4>1. i = id /\ \E j \in 1 .. Len(rest) : rest[j] = x
        BY <1>1, <1>3, <3>1, <3>3
      <4>2. \E j \in 1 .. Len(work.todo) : work.todo[j] = x
        BY <1>6, <4>1
      <4> QED BY <1>1, <3>3, <4>1, <4>2 DEF ToAsk
    <3> QED BY <1>11, <3>2, <3>3
  <2> QED BY <1>9, <1>10, <1>13, <1>14, <2>1, ResultsRest
<1>16. Fewer
  <2>1. Left("ask", id, r, n) /\ ~Left("ask", id, r, n)'
    BY <1>8, <1>9, <1>13 DEF Left
  <2> QED BY <1>5, <1>6, <1>15, <2>1, FewerTasks DEF Steps
<1>17. \A m : Forward(m) => Forward(m)'
  BY <1>9 DEF Forward, DoneAlong, PathOnce, OnPath
<1>18. \A q \in Ranks : \A w \in requestWork'[q] : WorkAsks(q, w)'
  <2> SUFFICES ASSUME NEW q \in Ranks, NEW w \in requestWork'[q] PROVE WorkAsks(q, w)'
    OBVIOUS
  <2>1. CASE w \in requestWork[q] /\ w # work
    <3>1. WorkAsks(q, w)
      BY <2>1 DEF Asking
    <3>2. ~(w.request.id = id /\ q = r)
      BY <1>12, <2>1
    <3> QED BY <1>14, <3>1, <3>2 DEF WorkAsks
  <2>2. CASE q = r /\ w = more
    <3>1. \A i, j \in 1 .. Len(rest) : rest[i] = rest[j] => i = j
      <4> SUFFICES ASSUME NEW i \in 1 .. Len(rest), NEW j \in 1 .. Len(rest), rest[i] = rest[j] PROVE i = j
        OBVIOUS
      <4>1. i + 1 = j + 1
        BY <1>5, <1>6 DEF WorkAsks
      <4> QED BY <4>1
    <3>2. \A i \in 1 .. Len(rest) : ~Asked(id, r, rest[i]) /\ rest[i] # n
      BY <1>1, <1>5, <1>6, <1>12 DEF WorkAsks
    <3>3. \A i \in 1 .. Len(rest) : ~Asked(id, r, rest[i])'
      BY <1>14, <3>2
    <3>4. w.request.id = id /\ w.todo = rest
      BY <1>1, <1>3, <2>2
    <3> QED BY <2>2, <3>1, <3>3, <3>4 DEF WorkAsks
  <2> QED BY <1>11, <2>1, <2>2
<1>19. \A q \in Ranks : \A w \in requestWork'[q] : Forward(w.request)'
  <2>1. \A q \in Ranks : \A w \in requestWork[q] : Forward(w.request)
    BY DEF Asking
  <2> QED BY <1>3, <1>5, <1>11, <1>17, <2>1
<1>20. \A q \in Ranks : \A v, w \in requestWork'[q] : v.request.id = w.request.id => v = w
  <2>1. \A q \in Ranks : \A v, w \in requestWork[q] : v.request.id = w.request.id => v = w
    BY DEF Asking
  <2> QED BY <1>1, <1>3, <1>11, <1>12, <2>1
<1>21. \A d \in calls : Asks(d) => ~(d.SendRequest.id = id /\ d.to = n /\ LastOf(d.SendRequest.requested_by) = r)
  <2>1. ~Asked(id, r, n)
    BY <1>1, <1>5, <1>6 DEF WorkAsks
  <2> QED BY <2>1 DEF Asked
<1>22. \A d \in calls' : /\ Asks(d) \/ Replies(d)
                         /\ Asks(d) => Forward(d.SendRequest)' /\ d = [SendRequest |-> d.SendRequest, to |-> d.to]
  BY <1>3, <1>4, <1>5, <1>17 DEF Asking
<1>23. \A d, e \in calls' :
          /\ Asks(d) /\ Asks(e) /\ d.SendRequest.id = e.SendRequest.id /\ d.to = e.to
          /\ LastOf(d.SendRequest.requested_by) = LastOf(e.SendRequest.requested_by)
          => d = e
  <2>1. \A d, e \in calls :
          /\ Asks(d) /\ Asks(e) /\ d.SendRequest.id = e.SendRequest.id /\ d.to = e.to
          /\ LastOf(d.SendRequest.requested_by) = LastOf(e.SendRequest.requested_by)
          => d = e
    BY DEF Asking
  <2> QED BY <1>1, <1>3, <1>4, <1>7, <1>21, <2>1
<1>24. \A u \in UnderWay : u[3].id \in Queries /\ PathOnce(u[3].requested_by)'
  BY DEF Asking, PathOnce
<1>25. \A q \in Ranks : \A m \in pendingRequests[q] : Forward(m)'
  BY <1>17 DEF Asking
<1>26. Asking'
  BY <1>4, <1>10, <1>18, <1>19, <1>20, <1>22, <1>23, <1>24, <1>25 DEF Asking, Asks, Replies
<1> QED BY <1>16, <1>26

LEMMA AcceptFewer ==
    ASSUME NobodyForgets, RoutesOK, WindowOK, Asking, NEW c \in calls, SendRequest(c)
    PROVE  Fewer /\ Asking'
<1>1. PICK r, m : r = c.to /\ m = c.SendRequest
  OBVIOUS
<1>2. /\ r \in Ranks /\ r # 0 /\ m.id \in Queries /\ Asks(c) /\ Forward(m)
      /\ calls' = calls \ {c} /\ UNCHANGED <<requestCounter, requestWork, pendingResponses, shmResults>>
      /\ DOMAIN pendingRequests = Ranks
  BY <1>1 DEF SendRequest, WindowOK, RoutesOK, CallOnRoute, Asks, Asking
<1>3. UnderWay' = UnderWay
  <2>1. ~Replies(c)
    <3>1. c = [SendRequest |-> c.SendRequest, to |-> c.to]
      BY <1>2 DEF Asking
    <3> QED BY <3>1 DEF Replies
  <2> QED BY <1>2, <2>1, UnderWayIs
<1>4. /\ \A i \in Queries, q \in Ranks : Known(i, q) => Known(i, q)'
      /\ \A i \in Queries, q \in Ranks : ToDo(i, q)' => ToDo(i, q)
      /\ \A q \in Ranks : \A n \in pendingRequests'[q] : n \in pendingRequests[q] \/ (q = r /\ n = m)
  <2>1. CASE isDuplicateQueryID(r, m.id)
    <3>1. UNCHANGED <<latestQueryIDs, pendingRequests>>
      BY <1>1, <2>1 DEF SendRequest
    <3> QED BY <1>2, <3>1 DEF Known, Window, ToDo, HasRequest
  <2>2. CASE ~isDuplicateQueryID(r, m.id)
    <3>1. /\ appendQueryID(r, m.id)
          /\ UNCHANGED pendingRequests \/ pendingRequests' = [pendingRequests EXCEPT ![r] = @ \cup {m}]
      BY <1>1, <2>2 DEF SendRequest, Push
    <3>2. m.id \notin Window(r)
      BY <2>2 DEF isDuplicateQueryID, Window
    <3>3. Window(r)' = Window(r) \cup {m.id} /\ \A s \in Ranks \ {r} : Window(s)' = Window(s)
      BY <1>2, <3>1, <3>2, WindowGrows
    <3>5. \A i \in Queries, q \in Ranks : Known(i, q) => Known(i, q)'
      BY <1>2, <3>3 DEF Known
    <3>6. \A q \in Ranks : \A n \in pendingRequests'[q] : n \in pendingRequests[q] \/ (q = r /\ n = m)
      BY <1>2, <3>1
    <3>7. ToDo(m.id, r)
      BY <1>2, <3>2 DEF ToDo, Known
    <3>8. \A i \in Queries, q \in Ranks : ToDo(i, q)' => ToDo(i, q)
      BY <3>5, <3>6, <3>7 DEF ToDo, HasRequest
    <3> QED BY <3>5, <3>6, <3>8
  <2> QED BY <2>1, <2>2
<1>5. /\ \A i, q, x : ToAsk(i, q, x)' <=> ToAsk(i, q, x)
      /\ \A i, q, x : Asked(i, q, x)' => Asked(i, q, x)
  BY <1>2 DEF ToAsk, Asked, Asks
<1>6. NothingNew
  BY <1>3, <1>4, <1>5, ResultsRest
<1>7. Fewer
  BY <1>2, <1>6, CallTaken
<1>8. \A n : n.id \in Queries /\ Forward(n) => Forward(n)'
  BY <1>4 DEF Forward, DoneAlong, PathOnce, OnPath
<1>9. \A q \in Ranks : \A n \in pendingRequests'[q] : Forward(n)'
  BY <1>2, <1>4, <1>8 DEF Asking, WindowOK
<1>10. \A q, w : WorkAsks(q, w) => WorkAsks(q, w)'
  BY <1>5 DEF WorkAsks
<1>11. \A q \in Ranks : \A w \in requestWork[q] : Forward(w.request)' /\ WorkAsks(q, w)'
  BY <1>8, <1>10 DEF Asking, WindowOK
<1>12. \A d \in calls' : Asks(d) => Forward(d.SendRequest)'
  BY <1>2, <1>8 DEF Asking, WindowOK
<1>13. \A u \in UnderWay : PathOnce(u[3].requested_by)'
  BY DEF Asking, PathOnce
<1>14. Asking'
  BY <1>2, <1>3, <1>9, <1>11, <1>12, <1>13 DEF Asking, Asks, Replies
<1> QED BY <1>7, <1>14

LEMMA LostFewer ==
    ASSUME RoutesOK, WindowOK, OnePlace, Asking, NEW c \in calls, LoseCall(c)
    PROVE  Fewer /\ Asking'
<1>1. /\ calls' = calls \ {c}
      /\ UNCHANGED <<requestCounter, latestQueryIDs, pendingRequests, requestWork, pendingResponses, shmResults>>
  BY DEF LoseCall
<1>2. CASE Asks(c)
  <2>1. UnderWay' = UnderWay
    <3>1. c = [SendRequest |-> c.SendRequest, to |-> c.to]
      BY <1>2 DEF Asking
    <3>2. ~Replies(c)
      BY <3>1 DEF Replies
    <3> QED BY <1>1, <3>2, UnderWayIs
  <2>2. /\ \A i, q : Known(i, q)' = Known(i, q) /\ ToDo(i, q)' = ToDo(i, q)
        /\ \A i, q, x : ToAsk(i, q, x)' <=> ToAsk(i, q, x)
        /\ \A i, q, x : Asked(i, q, x)' => Asked(i, q, x)
    BY <1>1 DEF Known, Window, ToDo, HasRequest, ToAsk, Asked, Asks
  <2>3. NothingNew
    BY <2>1, <2>2, ResultsRest
  <2>4. Fewer
    BY <1>1, <1>2, <2>3, CallTaken
  <2>5. Asking'
    <3>1. \A u \in UnderWay' : u[3].id \in Queries /\ PathOnce(u[3].requested_by)
      BY <2>1 DEF Asking
    <3> QED BY <1>1, <2>2, <3>1, AskingKept
  <2> QED BY <2>4, <2>5
<1>3. CASE Replies(c)
  <2>1. PICK r \in Ranks \ {0} : ResponseAt(c.ReceiveResponse, r)
    BY <1>3 DEF RoutesOK, CallOnRoute
  <2>2. PICK m, old, new :
          /\ m = c.ReceiveResponse /\ old = <<"calls", c.to, m>>
          /\ new = <<"lost", c.to, [id |-> m.id, requested_by |-> PopBack(m.requested_by), results_from |-> m.results_from]>>
    OBVIOUS
  <2>3. /\ old[3] = m /\ new[3].id = m.id /\ new[3].requested_by = PopBack(m.requested_by)
        /\ new[3].results_from = m.results_from
        /\ m.requested_by \in Seq(Int) /\ RouteOf(m.requested_by, r) /\ old \in UnderWay
    BY <1>3, <2>1, <2>2, UnderWayIs DEF ResponseAt, IsResponse, IsRequest
  <2>4. \A u \in UnderWay' : u \in UnderWay /\ u # old
    <3>1. ASSUME NEW d \in calls', Replies(d) PROVE <<"calls", d.to, d.ReceiveResponse>> # old
      <4>1. d = [ReceiveResponse |-> d.ReceiveResponse, to |-> d.to] /\ c = [ReceiveResponse |-> c.ReceiveResponse, to |-> c.to]
        BY <1>1, <1>3, <3>1 DEF WindowOK
      <4>2. d # c
        BY <1>1
      <4> QED BY <2>2, <4>1, <4>2
    <3>2. \A q, n : <<"pendingResponses", q, n>> # old /\ <<"shmResults", q, n>> # old
      BY <2>2
    <3> QED BY <1>1, <3>1, <3>2, UnderWayIs
  <2> QED BY <1>1, <2>3, <2>4, ResultLeaves
<1> QED BY <1>2, <1>3 DEF Asking

\* Where a response goes from one place to another, and the places of others
\* stay as they are.
LEMMA ResponseFewer ==
    ASSUME RoutesOK, WindowOK, OnePlace, Asking, NEW r \in Ranks, NEW response \in pendingResponses[r],
           HandleResponse(r, response) \/ (r = 0 /\ HandleClientResponse(response))
    PROVE  Fewer /\ Asking'
<1>1. PICK parent, popped, old, gone, call :
        /\ parent = Parent(response.requested_by)
        /\ popped = [response EXCEPT !.requested_by = PopBack(@)]
        /\ old = <<"pendingResponses", r, response>>
        /\ gone = <<"shmResults", parent, popped>>
        /\ call = [ReceiveResponse |-> response, to |-> parent]
  OBVIOUS
<1>2. /\ response.requested_by \in Seq(Int) /\ RouteOf(response.requested_by, r)
      /\ LastOf(response.requested_by) = r
      /\ popped.id = response.id /\ popped.requested_by = PopBack(response.requested_by)
      /\ popped.results_from = response.results_from
      /\ old[1] = "pendingResponses" /\ old[3] = response /\ gone[3] = popped /\ old \in UnderWay
      /\ Replies(call) /\ ~Asks(call) /\ call.ReceiveResponse = response /\ call.to = parent
  <2>1. ResponseAt(response, r)
    BY DEF RoutesOK
  <2>2. /\ response.requested_by \in Seq(Int) /\ RouteOf(response.requested_by, r)
        /\ LastOf(response.requested_by) = r
    BY <2>1 DEF ResponseAt, IsResponse, IsRequest, RouteOf
  <2>3. /\ popped.id = response.id /\ popped.requested_by = PopBack(response.requested_by)
        /\ popped.results_from = response.results_from
    BY <1>1, <2>1 DEF ResponseAt, IsResponse, IsRequest
  <2>4. old[1] = "pendingResponses" /\ old[3] = response /\ gone[3] = popped /\ old \in UnderWay
    BY <1>1, UnderWayIs
  <2>5. Replies(call) /\ ~Asks(call) /\ call.ReceiveResponse = response /\ call.to = parent
    BY <1>1 DEF Replies, Asks
  <2> QED BY <2>2, <2>3, <2>4, <2>5
<1>3. /\ DOMAIN pendingResponses = Ranks /\ DOMAIN shmResults = Ranks
      /\ pendingResponses' = [pendingResponses EXCEPT ![r] = @ \ {response}]
      /\ UNCHANGED <<requestCounter, latestQueryIDs, pendingRequests, requestWork>>
  BY DEF RoutesOK, HandleResponse, HandleClientResponse
<1>4. \A q \in Ranks : \A m \in pendingResponses'[q] : m \in pendingResponses[q] /\ ~(q = r /\ m = response)
  BY <1>3
<1>5. CASE calls' = calls /\ \A q \in Ranks : \A m \in shmResults'[q] : m \in shmResults[q] \/ (q = parent /\ m = popped)
  <2>1. \A u \in UnderWay' : (u \in UnderWay /\ u # old) \/ u = gone
    BY <1>1, <1>4, <1>5, UnderWayIs
  <2> QED BY <1>2, <1>3, <1>5, <2>1, ResultLeaves
<1>6. CASE calls' = calls \cup {call} /\ UNCHANGED shmResults
  <2>1. PICK new : new = <<"calls", parent, response>>
    OBVIOUS
  <2>2. new[1] = "calls" /\ new[3] = response
    BY <2>1
  <2>3. \A u \in UnderWay' : (u \in UnderWay /\ u # old) \/ u = new
    BY <1>1, <1>2, <1>4, <1>6, <2>1, UnderWayIs
  <2>4. \A step \in Steps : \A x \in Ranks : StillTo(step, new, x) => StillTo(step, old, x)
    BY <1>2, <2>2 DEF StillTo
  <2>5. StillTo("send", old, r) /\ ~StillTo("send", new, r)
    <3>1. OnPath(response.requested_by, r)
      BY <1>2 DEF OnPath, LastOf, RouteOf
    <3> QED BY <1>2, <2>2, <3>1 DEF StillTo
  <2>6. PathOnce(response.requested_by)
    BY <1>2 DEF Asking
  <2> QED BY <1>2, <1>3, <1>6, <2>2, <2>3, <2>4, <2>5, <2>6, ResultAdvances
<1>7. \/ calls' = calls /\ UNCHANGED shmResults
      \/ calls' = calls \cup {call} /\ UNCHANGED shmResults
      \/ calls' = calls /\ shmResults' = [shmResults EXCEPT ![parent] = @ \cup {popped}]
  BY <1>1 DEF HandleResponse, HandleClientResponse, SendThroughSharedMemory, Push
<1> QED BY <1>3, <1>5, <1>6, <1>7

LEMMA ReplyFewer ==
    ASSUME RoutesOK, WindowOK, OnePlace, Asking, NEW c \in calls, ReceiveResponse(c)
    PROVE  Fewer /\ Asking'
<1>1. Replies(c)
  BY DEF ReceiveResponse, Replies
<1>2. PICK r \in Ranks \ {0} : ResponseAt(c.ReceiveResponse, r)
  BY <1>1 DEF RoutesOK, CallOnRoute
<1>3. PICK m, popped, old, new :
        /\ m = c.ReceiveResponse /\ popped = [m EXCEPT !.requested_by = PopBack(@)]
        /\ old = <<"calls", c.to, m>> /\ new = <<"pendingResponses", c.to, popped>>
  OBVIOUS
<1>4. /\ popped.id = m.id /\ popped.requested_by = PopBack(m.requested_by) /\ popped.results_from = m.results_from
      /\ old[3] = m /\ new[3] = popped
      /\ m.requested_by \in Seq(Int) /\ RouteOf(m.requested_by, r) /\ old \in UnderWay
  BY <1>1, <1>2, <1>3, UnderWayIs DEF ResponseAt, IsResponse, IsRequest
<1>5. /\ c.to \in Ranks /\ DOMAIN pendingResponses = Ranks /\ calls' = calls \ {c}
      /\ UNCHANGED pendingResponses \/ pendingResponses' = [pendingResponses EXCEPT ![c.to] = @ \cup {popped}]
      /\ UNCHANGED <<requestCounter, latestQueryIDs, pendingRequests, requestWork, shmResults>>
  BY <1>3 DEF RoutesOK, CallOnRoute, ReceiveResponse, Push
<1>6. \A u \in UnderWay' : (u \in UnderWay /\ u # old) \/ u = new
  <2>1. ASSUME NEW d \in calls', Replies(d) PROVE <<"calls", d.to, d.ReceiveResponse>> # old
    <3>1. d = [ReceiveResponse |-> d.ReceiveResponse, to |-> d.to] /\ c = [ReceiveResponse |-> c.ReceiveResponse, to |-> c.to]
      BY <1>1, <1>5, <2>1 DEF WindowOK
    <3>2. d # c
      BY <1>5
    <3> QED BY <1>3, <3>1, <3>2
  <2>2. \A q, n : <<"pendingResponses", q, n>> # old /\ <<"shmResults", q, n>> # old
    BY <1>3
  <2>3. \A q \in Ranks : \A n \in pendingResponses'[q] : n \in pendingResponses[q] \/ (q = c.to /\ n = popped)
    BY <1>5
  <2> QED BY <1>3, <1>5, <2>1, <2>2, <2>3, UnderWayIs
<1>7. RouteOf(old[3].requested_by, r) /\ old[3].requested_by \in Seq(Int) /\ new[3].id = old[3].id
      /\ new[3].results_from = old[3].results_from /\ new[3].requested_by = PopBack(old[3].requested_by)
  BY <1>4
<1>8. /\ r \in Ranks /\ old \in UnderWay /\ UnderWay' \subseteq (UnderWay \ {old}) \cup {new}
      /\ \A d \in calls' : d \in calls
      /\ UNCHANGED <<requestCounter, latestQueryIDs, pendingRequests, requestWork>>
  BY <1>4, <1>5, <1>6
<1> QED BY <1>7, <1>8, ResultLeaves

LEMMA SharedFewer ==
    ASSUME RoutesOK, WindowOK, OnePlace, Asking, NEW r \in Ranks, NEW response \in shmResults[r],
           HandleSharedMemoryResponse(r, response)
    PROVE  Fewer /\ Asking'
<1>1. PICK parent, popped, old, gone, new :
        /\ parent = Parent(response.requested_by)
        /\ popped = [response EXCEPT !.requested_by = PopBack(@)]
        /\ old = <<"shmResults", r, response>>
        /\ gone = <<"shmResults", parent, popped>>
        /\ new = <<"pendingResponses", r, response>>
  OBVIOUS
<1>2. /\ response.requested_by \in Seq(Int) /\ RouteOf(response.requested_by, r)
      /\ LastOf(response.requested_by) = r
      /\ popped.id = response.id /\ popped.requested_by = PopBack(response.requested_by)
      /\ popped.results_from = response.results_from
      /\ old[1] = "shmResults" /\ old[3] = response /\ gone[3] = popped /\ old \in UnderWay
      /\ new[1] = "pendingResponses" /\ new[3] = response
  <2>1. ResponseAt(response, r)
    BY DEF RoutesOK
  <2>2. /\ response.requested_by \in Seq(Int) /\ RouteOf(response.requested_by, r)
        /\ LastOf(response.requested_by) = r
    BY <2>1 DEF ResponseAt, IsResponse, IsRequest, RouteOf
  <2>3. /\ popped.id = response.id /\ popped.requested_by = PopBack(response.requested_by)
        /\ popped.results_from = response.results_from
    BY <1>1, <2>1 DEF ResponseAt, IsResponse, IsRequest
  <2>4. /\ old[1] = "shmResults" /\ old[3] = response /\ gone[3] = popped /\ old \in UnderWay
        /\ new[1] = "pendingResponses" /\ new[3] = response
    BY <1>1, UnderWayIs
  <2> QED BY <2>2, <2>3, <2>4
<1>3. /\ DOMAIN pendingResponses = Ranks /\ DOMAIN shmResults = Ranks
      /\ UNCHANGED <<requestCounter, latestQueryIDs, pendingRequests, requestWork, calls>>
  BY DEF RoutesOK, HandleSharedMemoryResponse
<1>4. CASE r # 0 /\ isSameNodeProcess(r, parent)
  <2>1. PICK others : others = [shmResults EXCEPT ![r] = @ \ {response}]
    OBVIOUS
  <2>2. /\ shmResults' = others \/ shmResults' = [others EXCEPT ![parent] = @ \cup {popped}]
        /\ UNCHANGED pendingResponses
    BY <1>1, <1>4, <2>1 DEF HandleSharedMemoryResponse
  <2>3. /\ DOMAIN others = Ranks
        /\ \A q \in Ranks : \A m \in others[q] : m \in shmResults[q] /\ ~(q = r /\ m = response)
    BY <1>3, <2>1
  <2>4. \A q \in Ranks : \A m \in shmResults'[q] :
           (m \in shmResults[q] /\ ~(q = r /\ m = response)) \/ (q = parent /\ m = popped)
    BY <2>2, <2>3
  <2>5. \A u \in UnderWay' : (u \in UnderWay /\ u # old) \/ u = gone
    BY <1>1, <1>3, <2>2, <2>4, UnderWayIs
  <2> QED BY <1>2, <1>3, <2>5, ResultLeaves
<1>5. CASE ~(r # 0 /\ isSameNodeProcess(r, parent))
  <2>1. /\ shmResults' = [shmResults EXCEPT ![r] = @ \ {response}]
        /\ \/ UNCHANGED pendingResponses
           \/ pendingResponses' = [pendingResponses EXCEPT ![r] = @ \cup {response}]
    BY <1>1, <1>5 DEF HandleSharedMemoryResponse, Push
  <2>2. /\ \A q \in Ranks : \A m \in shmResults'[q] : m \in shmResults[q] /\ ~(q = r /\ m = response)
        /\ \A q \in Ranks : \A m \in pendingResponses'[q] : m \in pendingResponses[q] \/ (q = r /\ m = response)
    BY <1>3, <2>1
  <2>3. \A u \in UnderWay' : (u \in UnderWay /\ u # old) \/ u = new
    BY <1>1, <1>3, <2>2, UnderWayIs
  <2>4. \A step \in Steps : \A x \in Ranks : StillTo(step, new, x) => StillTo(step, old, x)
    BY <1>2 DEF StillTo
  <2>5. StillTo("read", old, r) /\ ~StillTo("read", new, r)
    <3>1. OnPath(response.requested_by, r)
      BY <1>2 DEF OnPath, LastOf, RouteOf
    <3> QED BY <1>2, <3>1 DEF StillTo
  <2>6. PathOnce(response.requested_by)
    BY <1>2 DEF Asking
  <2> QED BY <1>2, <1>3, <2>3, <2>4, <2>5, <2>6, ResultAdvances
<1> QED BY <1>4, <1>5

LEMMA AskingInit == Init => Asking
<1> SUFFICES ASSUME Init PROVE Asking
  OBVIOUS
<1>1. \A u : u \notin UnderWay
  BY UnderWayIs DEF Init
<1> QED BY <1>1 DEF Init, Asking

LEMMA TasksStep ==
    ASSUME NobodyForgets, NeighboursOnce, RoutesOK, WindowOK, OnePlace, Asking, Next
    PROVE  Fewer /\ Asking'
<1>1. \A r \in Ranks : ~Restart(r)
  BY DEF Restart, WindowOK, NobodyForgets
<1> QED BY <1>1, ClientFewer, RequestFewer, PeerFewer, AcceptFewer, ResponseFewer, ReplyFewer, SharedFewer,
           LostFewer, RankFacts
        DEF Next, Submit, Process, RequestWorker, ResponseWorker, ShmResponseWorker, HandleRpcs

\* Every step of the servers is one of a task that is left and leaves no new
\* one: however calls are lost and processes terminate, no query is accepted,
\* asked or searched for twice by a rank and no result passes a rank twice, so
\* that a query cannot circulate.
TasksShrink == [][Fewer]_vars

THEOREM QueriesEnd == NobodyForgets /\ NeighboursOnce => (Spec => TasksShrink)
<1> SUFFICES ASSUME NobodyForgets, NeighboursOnce PROVE Spec => TasksShrink
  OBVIOUS
<1>1. Init => RoutesOK /\ EntriesOK /\ WindowOK /\ OnePlace /\ Asking
  BY OnceInit, AskingInit
<1>2. RoutesOK /\ EntriesOK /\ WindowOK /\ OnePlace /\ Asking /\ [Next]_vars =>
          RoutesOK' /\ EntriesOK' /\ WindowOK' /\ OnePlace' /\ Asking'
  <2>1. UNCHANGED vars /\ Asking => Asking'
    BY DEF vars, Asking, Forward, DoneAlong, PathOnce, OnPath, WorkAsks, Asked, Asks, Replies, ToDo, Known, Window,
           HasRequest, UnderWay
  <2> QED BY <2>1, RoutesStep, ServiceStep, WindowStep, OnceStep, TasksStep
<1>3. RoutesOK /\ WindowOK /\ OnePlace /\ Asking /\ [Next]_vars => [Fewer]_vars
  BY TasksStep
<1> QED BY <1>1, <1>2, <1>3, PTL DEF Spec, TasksShrink

\* There are finitely many tasks, so that the steps come to an end.
LEMMA TasksAreFinite == IsFiniteSet(Tasks)
<1>1. IsFiniteSet(Ranks) /\ IsFiniteSet(Queries)
  <2>1. NumProcesses - 1 \in Int
    BY NetworkAssumption
  <2> QED BY <2>1, QueryFacts, FS_Interval DEF Ranks
<1>2. IsFiniteSet(Steps)
  <2> DEFINE f == <<"accept", "search", "ask", "take", "read", "send", "leave">>
  <2>1. f \in Surjection(1 .. 7, Steps)
    <3>1. f \in [1 .. 7 -> Steps]
      BY DEF Steps
    <3>2. f[1] = "accept" /\ f[2] = "search" /\ f[3] = "ask" /\ f[4] = "take"
          /\ f[5] = "read" /\ f[6] = "send" /\ f[7] = "leave"
      OBVIOUS
    <3> HIDE DEF f
    <3>3. \A s \in Steps : \E i \in 1 .. 7 : f[i] = s
      BY <3>2 DEF Steps
    <3> QED BY <3>1, <3>3 DEF Surjection
  <2> HIDE DEF f
  <2>2. IsFiniteSet(1 .. 7)
    <3>1. PICK n \in Int : n = 7
      OBVIOUS
    <3>2. IsFiniteSet(1 .. n)
      BY FS_Interval
    <3> QED BY <3>1, <3>2
  <2> QED BY <2>1, <2>2, FS_Surjection
<1> DEFINE P == (Steps \X Queries) \X (Ranks \X Ranks)
           Q == Steps \X Queries \X Ranks \X Ranks
           f == [p \in P |-> <<p[1][1], p[1][2], p[2][1], p[2][2]>>]
<1>3. IsFiniteSet(P)
  BY <1>1, <1>2, FS_Product
<1>4. f \in Surjection(P, Q)
  <2>1. f \in [P -> Q]
    OBVIOUS
  <2>2. ASSUME NEW s \in Steps, NEW id \in Queries, NEW r \in Ranks, NEW x \in Ranks
        PROVE  \E p \in P : f[p] = <<s, id, r, x>>
    <3>1. <<<<s, id>>, <<r, x>>>> \in P
      OBVIOUS
    <3>2. f[<<<<s, id>>, <<r, x>>>>] = <<s, id, r, x>>
      BY <3>1
    <3> QED BY <3>1, <3>2
  <2> HIDE DEF f, P
  <2>3. ASSUME NEW t \in Q PROVE \E p \in P : f[p] = t
    <3>1. PICK s \in Steps, id \in Queries, r \in Ranks, x \in Ranks : t = <<s, id, r, x>>
      OBVIOUS
    <3> QED BY <2>2, <3>1
  <2> QED BY <2>1, <2>3 DEF Surjection
<1> HIDE DEF f, P
<1>5. IsFiniteSet(Q)
  BY <1>3, <1>4, FS_Surjection
<1>6. Tasks \in SUBSET Q
  BY DEF Tasks
<1> QED BY <1>5, <1>6, FS_Subset
=============================================================================
