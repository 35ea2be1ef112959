------------------------------ MODULE RankLock ------------------------------
(***************************************************************************)
(* What the code that takes a BakeryMutex expects of it: between           *)
(* BakeryMutexGuard's constructor and its destructor a thread has the      *)
(* mutex for itself, and a thread that asks for the mutex gets it.         *)
(***************************************************************************)
CONSTANT Threads

VARIABLES trying,   \* the threads inside lock()
          owner     \* the threads between lock() and unlock()

lockvars == <<trying, owner>>

Init == trying = {} /\ owner = {}

Request(t) ==
    /\ t \notin trying \cup owner
    /\ trying' = trying \cup {t}
    /\ UNCHANGED owner

Acquire(t) ==
    /\ t \in trying
    /\ owner = {}
    /\ owner' = {t}
    /\ trying' = trying \ {t}

Release(t) ==
    /\ t \in owner
    /\ owner' = owner \ {t}
    /\ UNCHANGED trying

Next == \E t \in Threads : Request(t) \/ Acquire(t) \/ Release(t)

SafeSpec == Init /\ [][Next]_lockvars

\* A request is always granted in the end, provided every owner releases.
EveryRequestIsGranted == \A t \in Threads : t \in trying ~> t \in owner

Spec == SafeSpec /\ EveryRequestIsGranted
=============================================================================
