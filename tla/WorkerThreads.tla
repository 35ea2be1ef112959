---------------------------- MODULE WorkerThreads ----------------------------
(***************************************************************************)
(* The threads of one process of async_shm_server.cpp, from the first call *)
(* to Ctrl+C: the main thread in HandleRpcs, the request workers, the      *)
(* response workers and the thread that polls this rank's shared memory    *)
(* ring.  The pool that WorkerPool is extended for is that of              *)
(* pendingResponses, Requests is that of pendingRequests.                  *)
(*                                                                         *)
(* SIGINT interrupts the main thread wherever it is, with what it holds:   *)
(* handle_signal runs on it and never returns, for it ends in exit.  Main  *)
(* does not come to the end of Run, as nobody shuts the queue cq_ down.    *)
(***************************************************************************)
EXTENDS WorkerPool

CONSTANTS RequestWorkers,
          Main,
          Queries,     \* the calls of SendRequest and GetCollisions to come
          Received,    \* the calls of ReceiveResponse to come
          ShmResults,  \* what other processes will put on the ring in shared memory
          Streamed     \* the responses that are written to a stream

ASSUME ThreadsAssumption ==
    /\ IsFiniteSet(Workers) /\ IsFiniteSet(RequestWorkers)
    /\ Queries \cap Received = {}
    /\ Queries \cup Received \cup ShmResults \subseteq Items
    /\ Streamed \subseteq Items
    /\ Nobody \notin Items \cup Workers \cup RequestWorkers \cup {Main}
    /\ Main \notin Workers \cup RequestWorkers /\ Workers \cap RequestWorkers = {}

VARIABLES requests, request_result, request_mutex, request_pc, request_taken,
          calls,          \* what has still to come to the main thread
          main_holds,     \* what the main thread is about to push, with the mutex
          shm_results, shm_pc, shm_taken,
          writing,        \* a write is under way: write_mutex is locked
          handler,        \* where handle_signal is
          missed,         \* a thread was notified between its test and its wait
          shared_memory_manager,  \* whether it is there
          terminated      \* an exception was not caught

Requests == INSTANCE WorkerPool WITH
    Workers <- RequestWorkers,
    ring    <- requests,
    result  <- request_result,
    mutex   <- request_mutex,
    pc      <- request_pc,
    taken   <- request_taken

responsepool == <<ring, result, mutex, pc, taken>>
requestpool == <<requests, request_result, request_mutex, request_pc, request_taken>>
shm == <<shm_results, shm_pc, shm_taken>>
main == <<calls, main_holds>>
signal == <<handler, missed, shared_memory_manager, worker_stop_flag>>

vars == <<responsepool, requestpool, shm, main, signal, writing, terminated>>

Init ==
    /\ PoolInit /\ Requests!PoolInit
    /\ worker_stop_flag = FALSE
    /\ calls = Queries \cup Received /\ main_holds = Nobody
    /\ shm_results = ShmResults /\ shm_pc = "poll" /\ shm_taken = Nobody
    /\ writing = FALSE
    /\ handler = "none" /\ missed = FALSE /\ shared_memory_manager = TRUE
    /\ terminated = FALSE

\* exit and std::terminate end every thread.
Alive == ~terminated /\ handler # "exit"

-----------------------------------------------------------------------------
(* The main thread, in HandleRpcs *)

MainRuns == Alive /\ handler = "none"

\* A call has come, and the mutex of the ring it goes to is locked.
ReceiveCall(x) ==
    /\ MainRuns /\ main_holds = Nobody
    /\ x \in calls
    /\ calls' = calls \ {x}
    /\ main_holds' = x
    /\ IF x \in Queries
       THEN request_mutex = Nobody /\ request_mutex' = Main /\ UNCHANGED mutex
       ELSE mutex = Nobody /\ mutex' = Main /\ UNCHANGED request_mutex
    /\ UNCHANGED <<ring, result, pc, taken, requests, request_result, request_pc, request_taken,
                   shm, signal, writing, terminated>>

\* GetCollisionsCallData::Proceed and SendRequestCallData::Proceed.
PushRequest ==
    /\ MainRuns /\ main_holds \in Queries
    /\ Requests!PushItem(main_holds)
    /\ terminated' = is_full(requests)
    /\ request_mutex' = Nobody /\ main_holds' = Nobody
    /\ UNCHANGED <<responsepool, request_taken, calls, shm, signal, writing>>

\* ReceiveResponseCallData::Proceed.
PushReceived ==
    /\ MainRuns /\ main_holds \in Received
    /\ PushItem(main_holds)
    /\ terminated' = is_full(ring)
    /\ mutex' = Nobody /\ main_holds' = Nobody
    /\ UNCHANGED <<requestpool, taken, calls, shm, signal, writing>>

\* StreamCollisionsWriteTagCallData::Proceed unlocks write_mutex.
WriteCompleted ==
    /\ MainRuns /\ main_holds = Nobody
    /\ writing /\ writing' = FALSE
    /\ UNCHANGED <<responsepool, requestpool, main, shm, signal, terminated>>

HandleRpcs == (\E x \in calls : ReceiveCall(x)) \/ PushRequest \/ PushReceived \/ WriteCompleted

-----------------------------------------------------------------------------
(* The request workers *)

\* wait_for_new_query_request; a pop that throws is not caught.
WaitForRequest(w) ==
    /\ Alive
    /\ \/ (Requests!End(w) \/ Requests!Test(w) \/ Requests!Wait(w)) /\ UNCHANGED terminated
       \/ Requests!Take(w) /\ terminated' = (~worker_stop_flag /\ is_empty(requests))
    /\ UNCHANGED <<responsepool, main, shm, handler, missed, shared_memory_manager, writing>>

\* The rest of handle_pending_requests: the result of the search is pushed; the
\* calls to the neighbours take no more than their deadlines.
AddResponse(w) ==
    /\ Alive
    /\ mutex = Nobody
    /\ Requests!WorkDone(w)
    /\ PushItem(request_taken[w])
    /\ terminated' = is_full(ring)
    /\ UNCHANGED <<mutex, taken, main, shm, handler, missed, shared_memory_manager, writing>>

-----------------------------------------------------------------------------
(* The response workers *)

\* wait_for_new_query_response.
WaitForResponse(w) ==
    /\ Alive
    /\ \/ (End(w) \/ Test(w) \/ Wait(w)) /\ UNCHANGED terminated
       \/ Take(w) /\ terminated' = (~worker_stop_flag /\ is_empty(ring))
    /\ UNCHANGED <<requestpool, main, shm, handler, missed, shared_memory_manager, writing>>

\* handle_pending_responses: a response is sent on or counted; one that goes to
\* a stream is written, when the write before it has been completed.
HandleResponse(w) ==
    /\ Alive
    /\ WorkDone(w)
    /\ IF taken[w] \in Streamed THEN ~writing /\ writing' = TRUE ELSE UNCHANGED writing
    /\ UNCHANGED <<requestpool, main, shm, handler, missed, shared_memory_manager, terminated>>

-----------------------------------------------------------------------------
(* The thread that polls the shared memory ring *)

\* handle_shared_memory_pending_responses and the loop inside of
\* wait_for_new_shared_memory_query_response test the same flag.
EndShm ==
    /\ Alive
    /\ shm_pc = "poll" /\ worker_stop_flag
    /\ shm_pc' = "ended"
    /\ UNCHANGED <<responsepool, requestpool, main, signal, shm_results, shm_taken, writing, terminated>>

\* There is a result, and it is taken under the bakery mutex.
Poll(x) ==
    /\ Alive
    /\ shm_pc = "poll" /\ ~worker_stop_flag
    /\ x \in shm_results
    /\ shm_results' = shm_results \ {x} /\ shm_taken' = x /\ shm_pc' = "push"
    /\ UNCHANGED <<responsepool, requestpool, main, signal, writing, terminated>>

\* A result for this rank is copied out of its block and pushed; one that only
\* passes through is not pushed here.
PushShmResult ==
    /\ Alive
    /\ shm_pc = "push" /\ shm_pc' = "poll"
    /\ mutex = Nobody
    /\ PushItem(shm_taken) /\ terminated' = is_full(ring)
    /\ shm_taken' = Nobody
    /\ UNCHANGED <<mutex, taken, requestpool, main, signal, shm_results, writing>>

ShmWorker == EndShm \/ PushShmResult \/ \E x \in shm_results : Poll(x)

-----------------------------------------------------------------------------
(* handle_signal *)

\* The threads that have tested their predicate and do not wait yet.
AboutToWait ==
    {w \in Workers : pc[w] = "wait"} \cup {w \in RequestWorkers : request_pc[w] = "wait"}

\* cleanup_worker_threads begins with the flag, for which it takes no mutex.  The
\* calls that have not come yet find nobody any more.
SetStopFlag ==
    /\ MainRuns
    /\ worker_stop_flag' = TRUE
    /\ handler' = "notify"
    /\ calls' = {}
    /\ UNCHANGED <<responsepool, requestpool, main_holds, shm, missed, shared_memory_manager,
                   writing, terminated>>

\* Variant: one response worker is notified.
NotifyAWorker ==
    /\ Alive
    /\ handler = "notify" /\ handler' = "join"
    /\ Requests!NotifyAll /\ NotifyOne
    /\ missed' = (AboutToWait # {})
    /\ UNCHANGED <<ring, result, mutex, taken, requests, request_result, request_mutex, request_taken,
                   main, shm, worker_stop_flag, shared_memory_manager, writing, terminated>>

\* Both condition variables, without their mutexes either.
NotifyWorkers ==
    /\ Alive
    /\ handler = "notify" /\ handler' = "join"
    /\ Requests!NotifyAll /\ NotifyAll
    /\ missed' = (AboutToWait # {})
    /\ UNCHANGED <<ring, result, mutex, taken, requests, request_result, request_mutex, request_taken,
                   main, shm, worker_stop_flag, shared_memory_manager, writing, terminated>>

\* Variant: the thread that polls is not joined.
JoinPools ==
    /\ Alive
    /\ handler = "join" /\ handler' = "cleanup"
    /\ \A w \in RequestWorkers : request_pc[w] = "ended"
    /\ \A w \in Workers : pc[w] = "ended"
    /\ UNCHANGED <<responsepool, requestpool, main, shm, missed, worker_stop_flag,
                   shared_memory_manager, writing, terminated>>

\* One thread after the other is joined: the last join returns when all have ended.
Join ==
    /\ Alive
    /\ handler = "join" /\ handler' = "cleanup"
    /\ \A w \in RequestWorkers : request_pc[w] = "ended"
    /\ \A w \in Workers : pc[w] = "ended"
    /\ shm_pc = "ended"
    /\ UNCHANGED <<responsepool, requestpool, main, shm, missed, worker_stop_flag,
                   shared_memory_manager, writing, terminated>>

\* cleanup_shared_memory, and the process exits.
CleanupSharedMemory ==
    /\ Alive
    /\ handler = "cleanup" /\ handler' = "exit"
    /\ shared_memory_manager' = FALSE
    /\ UNCHANGED <<responsepool, requestpool, main, shm, missed, worker_stop_flag,
                   writing, terminated>>

HandleSignal == NotifyWorkers \/ Join \/ CleanupSharedMemory

-----------------------------------------------------------------------------
SpuriousWakeup ==
    /\ Alive
    /\ \/ (\E w \in Workers : WakeSpuriously(w)) /\ UNCHANGED requestpool
       \/ (\E w \in RequestWorkers : Requests!WakeSpuriously(w)) /\ UNCHANGED responsepool
    /\ UNCHANGED <<main, shm, handler, missed, shared_memory_manager, writing, terminated>>

RequestWorker(w) == WaitForRequest(w) \/ AddResponse(w)

ResponseWorker(w) == WaitForResponse(w) \/ HandleResponse(w)

Next ==
    \/ HandleRpcs \/ SetStopFlag \/ HandleSignal \/ ShmWorker \/ SpuriousWakeup
    \/ \E w \in RequestWorkers : RequestWorker(w)
    \/ \E w \in Workers : ResponseWorker(w)

\* What the main thread does without being called or interrupted.
MainGoesOn == PushRequest \/ PushReceived \/ WriteCompleted \/ HandleSignal

\* The scheduler runs every thread that can go on, and a mutex that is free
\* again and again is not kept from a thread for ever.
Fairness ==
    /\ WF_vars(MainGoesOn) /\ SF_vars(ShmWorker)
    /\ \A w \in RequestWorkers : SF_vars(RequestWorker(w))
    /\ \A w \in Workers : SF_vars(ResponseWorker(w))

Spec == Init /\ [][Next]_vars /\ Fairness

-----------------------------------------------------------------------------
(* Properties *)

\* An idle worker is woken for every item that no other worker comes for, in
\* both pools, with one notification per push and without one for pops.
NobodySleepsBesideWorkAnywhere == NobodySleepsBesideWork /\ Requests!NobodySleepsBesideWork

\* The pop of a worker never throws, whatever woke it up: a process that is
\* terminated has pushed onto a full ring.
TerminatesOnlyWhenFull == terminated => is_full(ring) \/ is_full(requests)

\* When the shared memory is given back, no thread can use it any more.
NoUseAfterCleanup ==
    ~shared_memory_manager =>
        /\ \A w \in Workers : pc[w] = "ended"
        /\ \A w \in RequestWorkers : request_pc[w] = "ended"
        /\ shm_pc = "ended"

\* What is pushed is taken, unless the process is told to stop or terminates.
EveryItemIsTaken ==
    []<>((is_empty(ring) /\ is_empty(requests)) \/ worker_stop_flag \/ terminated)

\* Ctrl+C ends the process, but for the three cases the code leaves open: a
\* thread was between its test and its wait when it was notified, the main
\* thread was interrupted with a mutex, or there was a write under way that only
\* the interrupted main thread could complete.
StopEnds ==
    worker_stop_flag ~> ~Alive \/ missed \/ main_holds # Nobody \/ writing
=============================================================================
