----------------------------- MODULE WorkerPool ------------------------------
(***************************************************************************)
(* A ring of async_shm_server.cpp with the mutex and the condition         *)
(* variable that go with it, and the workers that wait for what is in it:  *)
(* wait_for_new_query_request and wait_for_new_query_response, which       *)
(* differ in the ring only.                                                *)
(*                                                                         *)
(* A step ends where another thread could come in between and make a       *)
(* difference.  A worker that has tested its predicate still holds the     *)
(* mutex until it waits, which keeps out the threads that push, but not    *)
(* the signal handler, which sets the flag without it.                     *)
(***************************************************************************)
EXTENDS RingbufferCalls

CONSTANTS Workers,    \* the threads of this pool
          Nobody      \* no thread

VARIABLES mutex,               \* the thread that holds the ring's mutex
          pc, taken,           \* per worker: where it is, and what it works on
          worker_stop_flag

poolvars == <<ring, result, mutex, pc, taken, worker_stop_flag>>

PoolInit ==
    /\ RingInit
    /\ mutex = Nobody
    /\ pc = [w \in Workers |-> "lock"] /\ taken = [w \in Workers |-> Nobody]

GoesTo(w, place) == pc' = [pc EXCEPT ![w] = place]

\* The threads that sleep at the condition variable.
Waiting == {w \in Workers : pc[w] = "waiting"}

-----------------------------------------------------------------------------
(* The condition variable *)

\* Variant: only the first item of an empty ring is worth a notification.
NotifyOneIfEmpty ==
    \/ Waiting # {} /\ is_empty(ring) /\ \E w \in Waiting : GoesTo(w, "woken")
    \/ (Waiting = {} \/ ~is_empty(ring)) /\ UNCHANGED pc

\* A thread that is notified has to get the mutex before it returns.
NotifyOne ==
    \/ \E w \in Waiting : GoesTo(w, "woken")
    \/ Waiting = {} /\ UNCHANGED pc

NotifyAll == pc' = [w \in Workers |-> IF w \in Waiting THEN "woken" ELSE pc[w]]

-----------------------------------------------------------------------------
(* The workers *)

\* A worker at "lock" has finished with an item, or just begun.  If it has not
\* looked at the flag yet, as the loops of handle_pending_requests and
\* handle_pending_responses do, it ends; if it has, it goes on.
End(w) ==
    /\ pc[w] = "lock" /\ worker_stop_flag
    /\ GoesTo(w, "ended")
    /\ UNCHANGED <<ring, result, mutex, taken, worker_stop_flag>>

\* Variant: a thread that was woken does not test the predicate again.
TestOnce(w) ==
    /\ pc[w] \in {"lock", "woken"}
    /\ mutex = Nobody
    /\ mutex' = w
    /\ GoesTo(w, IF pc[w] = "woken" \/ ~is_empty(ring) \/ worker_stop_flag THEN "take" ELSE "wait")
    /\ UNCHANGED <<ring, result, taken, worker_stop_flag>>

\* Variant: a thread waits before it tests the predicate for the first time.
WaitFirst(w) ==
    /\ pc[w] \in {"lock", "woken"}
    /\ mutex = Nobody
    /\ mutex' = w
    /\ GoesTo(w, IF pc[w] = "woken" /\ (~is_empty(ring) \/ worker_stop_flag) THEN "take" ELSE "wait")
    /\ UNCHANGED <<ring, result, taken, worker_stop_flag>>

\* With the mutex, which a thread that was woken has to take again, the
\* predicate is tested.
Test(w) ==
    /\ pc[w] \in {"lock", "woken"}
    /\ mutex = Nobody
    /\ mutex' = w
    /\ GoesTo(w, IF ~is_empty(ring) \/ worker_stop_flag THEN "take" ELSE "wait")
    /\ UNCHANGED <<ring, result, taken, worker_stop_flag>>

\* Releasing the mutex and going to sleep are one step.
Wait(w) ==
    /\ pc[w] = "wait"
    /\ mutex' = Nobody
    /\ GoesTo(w, "waiting")
    /\ UNCHANGED <<ring, result, taken, worker_stop_flag>>

\* A condition variable may return without a notification.
WakeSpuriously(w) ==
    /\ w \in Waiting
    /\ GoesTo(w, "woken")
    /\ UNCHANGED <<ring, result, mutex, taken, worker_stop_flag>>

\* With the flag set nothing is taken, what is in the ring stays there, and the
\* loop ends.
Take(w) ==
    /\ pc[w] = "take"
    /\ mutex' = Nobody
    /\ IF worker_stop_flag
       THEN GoesTo(w, "ended") /\ UNCHANGED <<ring, result, taken>>
       ELSE /\ Pop
            /\ taken' = [taken EXCEPT ![w] = result']
            /\ GoesTo(w, "work")
    /\ UNCHANGED worker_stop_flag

\* What is done with the item is up to the worker; it comes back for more.
WorkDone(w) ==
    /\ pc[w] = "work"
    /\ GoesTo(w, "lock")
    /\ taken' = [taken EXCEPT ![w] = Nobody]
    /\ UNCHANGED <<ring, result, mutex, worker_stop_flag>>

-----------------------------------------------------------------------------
(* Everyone who pushes does so with the mutex. *)

PushItem(x) ==
    /\ Push(x)
    /\ IF is_full(ring) THEN UNCHANGED pc ELSE NotifyOne

-----------------------------------------------------------------------------
(* Properties *)

\* The workers that will take an item before they can sleep.
OnTheirWay == {w \in Workers : pc[w] \in {"lock", "woken", "take"}}

\* No worker sleeps while there is an item that nobody has been woken for:
\* one notification per item is enough, although workers that were busy may
\* take what others were woken for.
NobodySleepsBesideWork ==
    ~worker_stop_flag /\ Waiting # {} => ring.size <= Cardinality(OnTheirWay)
=============================================================================
