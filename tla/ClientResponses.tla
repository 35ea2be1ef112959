--------------------------- MODULE ClientResponses --------------------------
(***************************************************************************)
(* Rank 0 of async_shm_server.cpp puts the answers of its clients together:*)
(* the response workers in handle_client_pending_responses, the entries of *)
(* pendingClientRequestsMap and pendingStreamRequestsMap they share, and   *)
(* the completion queue thread that finishes writes and deletes call data. *)
(*                                                                         *)
(* The module begins after the queries have got their entries; toCome      *)
(* holds the responses no worker has taken yet.  What is done under        *)
(* pendingClientRequestsMutex is one step.                                 *)
(***************************************************************************)
EXTENDS Integers, Sequences, FiniteSets

CONSTANTS Workers,          \* the threads in handle_pending_responses
          UnaryQueries,     \* open GetCollisions calls
          StreamQueries,    \* open StreamCollisions calls
          Ranks,            \* the processes that send results
          Copies            \* how often a result may arrive

ASSUME ClientAssumption ==
    /\ UnaryQueries \cap StreamQueries = {}
    /\ Ranks \subseteq Nat /\ IsFiniteSet(Ranks)
    /\ Copies \in Nat \ {0}

Queries == UnaryQueries \cup StreamQueries
Responses == [id : Queries, results_from : Ranks, copy : 1 .. Copies]

VARIABLES toCome,       \* responses to be taken
          entry,        \* per query: TRUE while it is in its map
          ranks,        \* per query: the ranks counted
          collisions,   \* per unary query: how often each rank's result is in
          writeMutex,   \* per stream: TRUE while its write_mutex is locked
          pc,           \* per worker: where it is
          response,     \* per worker: the response it has taken
          callData,     \* per query: TRUE until the call data is deleted
          sent          \* per query: what was handed to its responder, in order

vars == <<toCome, entry, ranks, collisions, writeMutex, pc, response, callData, sent>>

Finish == -1   \* in "sent", where a result stands as its rank

Init ==
    /\ toCome = Responses
    /\ entry = [q \in Queries |-> TRUE]
    /\ ranks = [q \in Queries |-> {}]
    /\ collisions = [q \in UnaryQueries |-> [r \in Ranks |-> 0]]
    /\ writeMutex = [q \in StreamQueries |-> FALSE]
    /\ pc = [w \in Workers |-> "wait"]
    /\ response = [w \in Workers |-> <<>>]
    /\ callData = [q \in Queries |-> TRUE]
    /\ sent = [q \in Queries |-> <<>>]

Goto(w, place) == pc' = [pc EXCEPT ![w] = place]

\* Variant: one rank too few.
AllButOnePresent(present) == Cardinality(present) >= Cardinality(Ranks) - 1

AllPresent(present) == Cardinality(present) = Cardinality(Ranks)

-----------------------------------------------------------------------------
\* wait_for_new_query_response.
TakeResponse(w) ==
    /\ pc[w] = "wait"
    /\ \E m \in toCome :
          /\ toCome' = toCome \ {m}
          /\ response' = [response EXCEPT ![w] = m]
    /\ Goto(w, "record")
    /\ UNCHANGED <<entry, ranks, collisions, writeMutex, callData, sent>>

\* The first stretch under the mutex.  A result without an entry, or of a rank
\* that has been counted, is dropped.  A unary result is kept; the one that
\* makes all ranks present has the request completed.  A stream's is written.
RecordResponse(w) ==
    LET id == response[w].id
        from == response[w].results_from
        present == ranks[id] \cup {from}
    IN  /\ pc[w] = "record"
        /\ IF ~entry[id] \/ from \in ranks[id]
           THEN Goto(w, "wait") /\ UNCHANGED <<ranks, collisions>>
           ELSE /\ ranks' = [ranks EXCEPT ![id] = present]
                /\ \/ /\ id \in UnaryQueries
                      /\ collisions' = [collisions EXCEPT ![id][from] = @ + 1]
                      /\ Goto(w, IF AllPresent(present) THEN "complete" ELSE "wait")
                   \/ /\ id \in StreamQueries
                      /\ UNCHANGED collisions
                      /\ Goto(w, "write")
        /\ UNCHANGED <<toCome, entry, writeMutex, response, callData, sent>>

\* GetCollisionsCallData::CompleteRequest, outside of the mutex.
CompleteRequest(w) ==
    LET id == response[w].id
    IN  /\ pc[w] = "complete"
        /\ sent' = [sent EXCEPT ![id] = Append(@, collisions[id])]
        /\ Goto(w, "erase")
        /\ UNCHANGED <<toCome, entry, ranks, collisions, writeMutex, response, callData>>

\* StreamCollisionsCallData::Write, once the write before it has completed;
\* write_mutex stays locked until this one has.
Write(w) ==
    LET id == response[w].id
    IN  /\ pc[w] = "write"
        /\ ~writeMutex[id]
        /\ writeMutex' = [writeMutex EXCEPT ![id] = TRUE]
        /\ sent' = [sent EXCEPT ![id] = Append(@, response[w].results_from)]
        /\ Goto(w, "check")
        /\ UNCHANGED <<toCome, entry, ranks, collisions, response, callData>>

\* The size of ranks is read again, without the mutex.
CheckAllPresent(w) ==
    /\ pc[w] = "check"
    /\ Goto(w, IF AllPresent(ranks[response[w].id]) THEN "finish" ELSE "wait")
    /\ UNCHANGED <<toCome, entry, ranks, collisions, writeMutex, response, callData, sent>>

\* StreamCollisionsCallData::Finish, while no write is under way.
FinishStream(w) ==
    LET id == response[w].id
    IN  /\ pc[w] = "finish"
        /\ ~writeMutex[id]
        /\ sent' = [sent EXCEPT ![id] = Append(@, Finish)]
        /\ Goto(w, "erase")
        /\ UNCHANGED <<toCome, entry, ranks, collisions, writeMutex, response, callData>>

\* The second stretch under the mutex.
EraseEntry(w) ==
    /\ pc[w] = "erase"
    /\ entry' = [entry EXCEPT ![response[w].id] = FALSE]
    /\ Goto(w, "wait")
    /\ UNCHANGED <<toCome, ranks, collisions, writeMutex, response, callData, sent>>

-----------------------------------------------------------------------------
(* The completion queue thread. *)

\* Variant: write_mutex stays locked.
WriteCompletedNoUnlock(q) ==
    /\ q \in StreamQueries
    /\ writeMutex[q]
    /\ UNCHANGED vars

\* StreamCollisionsWriteTagCallData::Proceed unlocks write_mutex.
WriteCompleted(q) ==
    /\ q \in StreamQueries
    /\ writeMutex[q]
    /\ writeMutex' = [writeMutex EXCEPT ![q] = FALSE]
    /\ UNCHANGED <<toCome, entry, ranks, collisions, pc, response, callData, sent>>

\* Variant: a write's completion is taken for that of the call.
CallFinishedByWrite(q) ==
    /\ callData[q]
    /\ sent[q] # <<>>
    /\ callData' = [callData EXCEPT ![q] = FALSE]
    /\ UNCHANGED <<toCome, entry, ranks, collisions, writeMutex, pc, response, sent>>

\* Proceed after the responder's Finish: the call data deletes itself.
CallFinished(q) ==
    /\ callData[q]
    /\ \/ q \in UnaryQueries /\ sent[q] # <<>>
       \/ q \in StreamQueries /\ \E i \in 1 .. Len(sent[q]) : sent[q][i] = Finish
    /\ callData' = [callData EXCEPT ![q] = FALSE]
    /\ UNCHANGED <<toCome, entry, ranks, collisions, writeMutex, pc, response, sent>>

-----------------------------------------------------------------------------
ResponseWorker(w) ==
    \/ TakeResponse(w)
    \/ RecordResponse(w)
    \/ CompleteRequest(w)
    \/ Write(w)
    \/ CheckAllPresent(w)
    \/ FinishStream(w)
    \/ EraseEntry(w)

CompletionQueue == \E q \in Queries : WriteCompleted(q) \/ CallFinished(q)

\* Every response has been handled.
Finished ==
    /\ toCome = {}
    /\ \A w \in Workers : pc[w] = "wait"
    /\ UNCHANGED vars

Next == (\E w \in Workers : ResponseWorker(w)) \/ CompletionQueue \/ Finished

\* The threads are scheduled.  A worker that waits for write_mutex competes
\* with no more than the other workers, each of which asks once per response.
Spec ==
    /\ Init
    /\ [][Next]_vars
    /\ \A w \in Workers : WF_vars(ResponseWorker(w))
    /\ WF_vars(CompletionQueue)

-----------------------------------------------------------------------------
(* Properties *)

\* One result of every rank, in whatever order.
Whole(results) ==
    /\ Len(results) = Cardinality(Ranks)
    /\ Ranks = {results[i] : i \in 1 .. Len(results)}

\* A unary call is completed once, with one result of every rank, although the
\* completing worker has let go of the mutex (async_shm_server.cpp:253-255).
UnaryAnswersAreWhole ==
    \A q \in UnaryQueries : sent[q] \in {<<>>, <<[r \in Ranks |-> 1]>>}

\* A stream is finished once, behind the results of all ranks: "all ranks
\* present" (async_shm_server.cpp:244), as :272 asks, means all are written.
StreamAnswersAreWhole ==
    \A q \in StreamQueries :
        \A i \in 1 .. Len(sent[q]) :
            sent[q][i] = Finish => i = Len(sent[q]) /\ Whole(SubSeq(sent[q], 1, i - 1))

\* Both kinds of calls get whole answers or none, with every result delivered as
\* often as the network can deliver it.
AnswersAreWhole == UnaryAnswersAreWhole /\ StreamAnswersAreWhole

\* No worker is about to use an entry that has been erased, or call data that
\* the completion queue thread has deleted.
NoUseAfterFree ==
    \A w \in Workers :
        LET id == response[w].id
        IN  /\ pc[w] \in {"complete", "write", "check", "finish", "erase"} => entry[id]
            /\ pc[w] \in {"complete", "write", "finish"} => callData[id]

\* Every call comes to its end, and its entry and call data are disposed of.
EveryCallFinishes == \A q \in Queries : <>[](~entry[q] /\ ~callData[q])
=============================================================================
