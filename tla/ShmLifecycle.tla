---------------------------- MODULE ShmLifecycle -----------------------------
(***************************************************************************)
(* The shared memory segment of the servers on one machine, from start to  *)
(* stop: SharedMemory finds, replaces or creates it, attaches it, and at   *)
(* the end detaches and removes it; SharedMemoryManager initialises what   *)
(* is in it.  Every system call and every access of a control flag is a    *)
(* step.                                                                   *)
(*                                                                         *)
(* System V segments (external): a removed segment loses its key at once   *)
(* and goes when nobody is attached; its id is not used again.             *)
(***************************************************************************)
EXTENDS Integers, FiniteSets

CONSTANTS Programs,            \* each with a rank of its own
          SHM_MAX_RETRIES,
          MaxSegments,         \* bound on the segments there ever are
          MaxStarts,           \* bound on the starts of all programs together
          MaxKills, MaxStops   \* bounds on kills and on SIGINTs

ASSUME LifecycleAssumption ==
    IsFiniteSet(Programs) /\ SHM_MAX_RETRIES \in Nat \ {0} /\ MaxSegments \in Nat \ {0}

SegmentIds == 1 .. MaxSegments

VARIABLES segments,      \* what the operating system and the segments hold
          oldProgram,    \* a program of an earlier build is attached to segment 1
          attached,      \* per program the segment it is attached to, or 0
          pc, shm_id, retry_count,
          starts,
          faults         \* history: the kills, the SIGINTs, and whether somebody has given up waiting

vars == <<segments, oldProgram, attached, pc, shm_id, retry_count, starts, faults>>

Flags == <<oldProgram, starts, faults>>

NoSegment == [state |-> "none", right_size |-> FALSE, shm_is_initializing |-> FALSE,
              shm_is_initialized |-> FALSE, initialized |-> {}]

\* A new segment is full of zeros: no flag is up and no rank initialised.
NewSegment == [NoSegment EXCEPT !.state = "keyed", !.right_size = TRUE]

Keyed == {s \in SegmentIds : segments[s].state = "keyed"}

Exists(s) == segments[s].state \in {"keyed", "removed"}

nattch(s) == Cardinality({p \in Programs : attached[p] = s}) + IF oldProgram /\ s = 1 THEN 1 ELSE 0

\* IPC_RMID.
Removed(s) == [segments EXCEPT ![s].state = IF nattch(s) = 0 THEN "gone" ELSE "removed"]

\* shmdt, or the end of the process.
Detached(p) ==
    IF attached[p] # 0 /\ segments[attached[p]].state = "removed" /\ nattch(attached[p]) = 1
    THEN [segments EXCEPT ![attached[p]].state = "gone"]
    ELSE segments

\* There is no segment, or one an earlier build has left, of another size.
Init ==
    /\ segments \in {[s \in SegmentIds |-> NoSegment],
                     [s \in SegmentIds |-> IF s = 1 THEN [NoSegment EXCEPT !.state = "keyed"]
                                                    ELSE NoSegment]}
    /\ oldProgram \in {FALSE, Keyed # {}}
    /\ attached = [p \in Programs |-> 0]
    /\ pc = [p \in Programs |-> "down"]
    /\ shm_id = [p \in Programs |-> 0]
    /\ retry_count = [p \in Programs |-> 0]
    /\ starts = 0
    /\ faults = [kill |-> 0, sigint |-> 0, timeout |-> FALSE]

At(p, label) == pc[p] = label

Goto(p, label) == pc' = [pc EXCEPT ![p] = label]

Start(p) ==
    /\ At(p, "down") /\ starts < MaxStarts
    /\ starts' = starts + 1
    /\ retry_count' = [retry_count EXCEPT ![p] = 0]
    /\ Goto(p, "find")
    /\ UNCHANGED <<segments, oldProgram, attached, shm_id, faults>>

\* The process ends, with what it has attached.
Exit(p) ==
    /\ Goto(p, "down")
    /\ segments' = Detached(p)
    /\ attached' = [attached EXCEPT ![p] = 0]

-----------------------------------------------------------------------------
(* SharedMemory::SharedMemory *)

\* Variant: a failure ends the start.
RetryNever(p) ==
    /\ retry_count' = [retry_count EXCEPT ![p] = @ + 1]
    /\ Goto(p, "not_attached")
    /\ UNCHANGED <<segments, attached, shm_id>>

\* get_or_create_shared_memory has returned -1, or shmat has failed.
Retry(p) ==
    /\ retry_count' = [retry_count EXCEPT ![p] = @ + 1]
    /\ Goto(p, IF retry_count[p] + 1 < SHM_MAX_RETRIES THEN "find" ELSE "not_attached")
    /\ UNCHANGED <<segments, attached, shm_id>>

\* shmget(SHM_KEY, 0, 0)
Find(p) ==
    /\ At(p, "find")
    /\ \/ Keyed = {} /\ Goto(p, "create") /\ UNCHANGED shm_id
       \/ \E s \in Keyed : shm_id' = [shm_id EXCEPT ![p] = s] /\ Goto(p, "stat")
    /\ UNCHANGED <<segments, attached, retry_count, Flags>>

\* IPC_STAT, and what it says of a segment of another size.
Stat(p) ==
    /\ At(p, "stat") /\ UNCHANGED Flags
    /\ LET s == shm_id[p]
       IN  IF ~Exists(s) \/ (~segments[s].right_size /\ nattch(s) # 0)
           THEN Retry(p)
           ELSE /\ Goto(p, IF segments[s].right_size THEN "attach" ELSE "remove")
                /\ UNCHANGED <<segments, attached, shm_id, retry_count>>

\* Variant: what is removed is the segment that has the key by now.
RemoveByKey(p) ==
    /\ At(p, "remove") /\ UNCHANGED Flags
    /\ IF Keyed # {}
       THEN /\ \E s \in Keyed : segments' = Removed(s)
            /\ Goto(p, "find_again")
            /\ UNCHANGED <<attached, shm_id, retry_count>>
       ELSE Retry(p)

\* IPC_RMID on the segment found to be of another size.
Remove(p) ==
    /\ At(p, "remove") /\ UNCHANGED Flags
    /\ IF Exists(shm_id[p])
       THEN /\ segments' = Removed(shm_id[p])
            /\ Goto(p, "find_again")
            /\ UNCHANGED <<attached, shm_id, retry_count>>
       ELSE Retry(p)

\* The id cannot be the one just removed; another one is taken as it is.
FindAgain(p) ==
    /\ At(p, "find_again")
    /\ \/ Keyed = {} /\ Goto(p, "create") /\ UNCHANGED shm_id
       \/ \E s \in Keyed : shm_id' = [shm_id EXCEPT ![p] = s] /\ Goto(p, "attach")
    /\ UNCHANGED <<segments, attached, retry_count, Flags>>

\* shmget(..., IPC_CREAT): the segment somebody else has made by now, or a new one.
Create(p) ==
    /\ At(p, "create")
    /\ \/ \E s \in Keyed : shm_id' = [shm_id EXCEPT ![p] = s] /\ UNCHANGED segments
       \/ \E s \in SegmentIds :
             /\ Keyed = {} /\ segments[s].state = "none"
             /\ \A earlier \in 1 .. s - 1 : segments[earlier].state # "none"
             /\ segments' = [segments EXCEPT ![s] = NewSegment]
             /\ shm_id' = [shm_id EXCEPT ![p] = s]
    /\ Goto(p, "attach")
    /\ UNCHANGED <<attached, retry_count, Flags>>

Attach(p) ==
    /\ At(p, "attach") /\ UNCHANGED Flags
    /\ IF Exists(shm_id[p])
       THEN /\ attached' = [attached EXCEPT ![p] = shm_id[p]]
            /\ Goto(p, "check_initialized")
            /\ UNCHANGED <<segments, shm_id, retry_count>>
       ELSE Retry(p)

NotAttached(p) ==
    At(p, "not_attached") /\ Exit(p) /\ UNCHANGED <<shm_id, retry_count, Flags>>

-----------------------------------------------------------------------------
(* SharedMemoryManager::initialize_global_shared_data *)

Mine(p) == segments[attached[p]]

InSegment(p) == UNCHANGED <<attached, shm_id, retry_count, Flags>>

CheckInitialized(p) ==
    /\ At(p, "check_initialized")
    /\ Goto(p, IF Mine(p).shm_is_initialized THEN "claim" ELSE "exchange")
    /\ UNCHANGED segments /\ InSegment(p)

\* Variant: the flag is read and left as it is.
TestInitializing(p) ==
    /\ At(p, "exchange")
    /\ Goto(p, IF Mine(p).shm_is_initializing THEN "wait" ELSE "construct")
    /\ UNCHANGED segments /\ InSegment(p)

ExchangeInitializing(p) ==
    /\ At(p, "exchange")
    /\ segments' = [segments EXCEPT ![attached[p]].shm_is_initializing = TRUE]
    /\ Goto(p, IF Mine(p).shm_is_initializing THEN "wait" ELSE "construct")
    /\ InSegment(p)

\* The constructor of SharedMemoryGlobalData clears what it holds for every rank.
Construct(p) ==
    /\ At(p, "construct")
    /\ segments' = [segments EXCEPT ![attached[p]].initialized = {}]
    /\ Goto(p, "publish") /\ InSegment(p)

Publish(p) ==
    /\ At(p, "publish")
    /\ segments' = [segments EXCEPT ![attached[p]].shm_is_initialized = TRUE]
    /\ Goto(p, "claim") /\ InSegment(p)

Wait(p) ==
    /\ At(p, "wait") /\ Mine(p).shm_is_initialized
    /\ Goto(p, "claim") /\ UNCHANGED segments /\ InSegment(p)

\* Variant: nobody gives up.
NoTimeOut(p) == FALSE /\ UNCHANGED vars

\* Thirty seconds have passed, whether or not the flag is up by now.
TimeOut(p) ==
    /\ At(p, "wait")
    /\ faults' = [faults EXCEPT !.timeout = TRUE]
    /\ Exit(p) /\ UNCHANGED <<oldProgram, shm_id, retry_count, starts>>

\* The program's own SharedMemoryLocalData.
Claim(p) ==
    /\ At(p, "claim")
    /\ \/ /\ p \in Mine(p).initialized
          /\ Exit(p)
       \/ /\ p \notin Mine(p).initialized
          /\ segments' = [segments EXCEPT ![attached[p]].initialized = @ \cup {p},
                                          ![attached[p]].shm_is_initialized = TRUE]
          /\ Goto(p, "serving") /\ UNCHANGED attached
    /\ UNCHANGED <<shm_id, retry_count, Flags>>
-----------------------------------------------------------------------------
(* The end of a program *)

\* handle_signal deletes the manager: shmdt, then IPC_RMID.
Stop(p) ==
    /\ At(p, "serving") /\ faults.sigint < MaxStops
    /\ faults' = [faults EXCEPT !.sigint = @ + 1]
    /\ segments' = Detached(p)
    /\ attached' = [attached EXCEPT ![p] = 0]
    /\ Goto(p, "remove_own")
    /\ UNCHANGED <<oldProgram, shm_id, retry_count, starts>>

\* Variant: the destructor only detaches.
RemoveNothing(p) ==
    /\ At(p, "remove_own")
    /\ UNCHANGED segments
    /\ Goto(p, "down") /\ InSegment(p)

RemoveOwn(p) ==
    /\ At(p, "remove_own")
    /\ segments' = IF Exists(shm_id[p]) THEN Removed(shm_id[p]) ELSE segments
    /\ Goto(p, "down") /\ InSegment(p)

\* SIGTERM, SIGKILL or a crash; or SIGINT before "new" has returned, when the
\* handler does not know the manager yet.
Kill(p) ==
    /\ pc[p] # "down" /\ faults.kill < MaxKills
    /\ faults' = [faults EXCEPT !.kill = @ + 1]
    /\ Exit(p) /\ UNCHANGED <<oldProgram, shm_id, retry_count, starts>>

OldProgramEnds ==
    /\ oldProgram
    /\ oldProgram' = FALSE
    /\ UNCHANGED <<segments, attached, pc, shm_id, retry_count, starts, faults>>

Initialize(p) ==
    \/ Find(p) \/ Stat(p) \/ Remove(p) \/ FindAgain(p) \/ Create(p) \/ Attach(p) \/ NotAttached(p)
    \/ CheckInitialized(p) \/ ExchangeInitializing(p) \/ Construct(p) \/ Publish(p)
    \/ Wait(p) \/ TimeOut(p) \/ Claim(p)

\* All programs serve or are down, and the bound lets none start again.
Settled ==
    /\ starts = MaxStarts /\ \A p \in Programs : pc[p] \in {"serving", "down"}
    /\ UNCHANGED vars

Next ==
    \/ \E p \in Programs : Start(p) \/ Initialize(p) \/ Stop(p) \/ RemoveOwn(p) \/ Kill(p)
    \/ OldProgramEnds
    \/ Settled

Spec == Init /\ [][Next]_vars /\ \A p \in Programs : WF_vars(Initialize(p)) /\ WF_vars(RemoveOwn(p))

-----------------------------------------------------------------------------
(* Properties *)

Labels == {"down", "find", "stat", "remove", "find_again", "create", "attach", "not_attached",
           "check_initialized", "exchange", "construct", "publish", "wait", "claim", "serving",
           "remove_own"}

\* The global data is constructed once, before anybody uses it: what a serving
\* program has put into the segment is never cleared by a late initialiser
\* (initialize_global_shared_data), whoever starts, stops or dies.
NobodyIsCleared ==
    \A p \in Programs :
        At(p, "serving") => Mine(p).shm_is_initialized /\ p \in Mine(p).initialized

\* A program that starts is soon either in service or gone, whatever becomes of
\* the others (the loops of SharedMemory and of initialize_global_shared_data).
EveryStartEnds == \A p \in Programs : At(p, "find") ~> pc[p] \in {"serving", "down"}

\* Without a kill, a SIGINT or a time-out, and with no program of an earlier
\* build left, a start succeeds: the retries are enough, however many servers
\* start at once and whatever they find.
EveryStartServes ==
    \A p \in Programs :
        At(p, "find") /\ retry_count[p] = 0 /\ ~oldProgram
            ~> At(p, "serving") \/ faults # [kill |-> 0, sigint |-> 0, timeout |-> FALSE]

\* No program works in a segment of another size or in one that is gone, and all
\* in service use the same one (shared_memory_manager.cpp:44), as long as none has
\* been stopped by SIGINT, which removes the segment under the others.
OneSegmentUntilStop ==
    /\ \A p \in Programs : attached[p] # 0 => Mine(p).right_size /\ Exists(attached[p])
    /\ faults.sigint = 0 =>
          \A p, q \in Programs :
              At(p, "serving") /\ At(q, "serving") => attached[p] = attached[q]

\* A program finds its own data initialised (shared_memory_manager.cpp:118) only
\* if it was killed before: its flag is left up in the segment it comes back to.
InitializedOnlyAfterKill ==
    faults.kill = 0 => \A p \in Programs : At(p, "claim") => p \notin Mine(p).initialized
=============================================================================
