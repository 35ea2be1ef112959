---------------------------- MODULE ShmResponses ----------------------------
(***************************************************************************)
(* Results in shared memory: SharedMemoryManager::send_results and         *)
(* ::deserialize (shared_memory_manager.cpp) over the Freelist of          *)
(* shared_memory/free_list.hpp, every access to which is made under        *)
(* free_list_global_mutex, a BakeryMutex.  A sender takes a block off the  *)
(* list, copies its result in and puts the response on its parent's ring;  *)
(* the receiver copies the result out and gives the block back.            *)
(*                                                                         *)
(* An offset is the number of its block.  Sizes are in words: a block of   *)
(* block_size words begins with the word that links it to the next free    *)
(* block, and the data starts behind it.  The contents of a block are the  *)
(* id of the response that was last copied into it.                        *)
(*                                                                         *)
(* The rings have mutexes of their own, each taken by one thread of a      *)
(* process at a time (send_results_mutex), so a push or a pop is one step. *)
(* A response that goes on to the parent's parent keeps its block.         *)
(***************************************************************************)
EXTENDS BakeryMutex, Integers, FiniteSets

CONSTANTS Senders,         \* threads in send_results
          Receivers,       \* threads in deserialize
          num_blocks,
          block_size,
          DataSizes,       \* how large results may be
          MaxResponses,    \* bound on the responses sent in all
          MaxTries         \* bound on the attempts to allocate within the 10 s

ASSUME ShmAssumption ==
    /\ Senders \cup Receivers = Threads
    /\ Senders \cap Receivers = {}
    /\ num_blocks \in Nat \ {0}
    /\ block_size \in Nat \ {0}
    /\ DataSizes \subseteq Nat
    /\ MaxResponses \in Nat
    /\ MaxTries \in Nat \ {0}

Blocks == 0 .. num_blocks - 1
EndOfList == -1
Garbage == -2      \* a link that result data has been written over

VARIABLES head,       \* free_list_head_offset_
          link,       \* per block: its first word, meaningful while it is free
          content,    \* per block: whose result was copied into it
          at,         \* per thread: where it is in send_results or deserialize
          held,       \* per thread: the response it works on
          tries,      \* per thread: attempts to allocate so far
          ring,       \* responses on their way to a receiver
          nextId,     \* the next response's id
          received,   \* the results copied out
          exited      \* ranks whose process has called exit(1) or crashed

poolvars   == <<head, link, content>>
threadvars == <<at, held, tries>>
shmvars == <<bakeryvars, head, link, content, at, held, tries, ring, nextId, received, exited>>

NoBlock == -3
Response == [id : Nat, size : Nat, block : Blocks \cup {EndOfList, Garbage, NoBlock}]

\* Freelist::Freelist: the blocks in order, the last one marked.
ShmInit ==
    /\ Init
    /\ head = 0
    /\ link = [b \in Blocks |-> IF b + 1 \in Blocks THEN b + 1 ELSE EndOfList]
    /\ content = [b \in Blocks |-> 0]
    /\ at = [t \in Threads |-> "idle"]
    /\ held = [t \in Threads |-> [id |-> 0, size |-> 0, block |-> NoBlock]]
    /\ tries = [t \in Threads |-> 0]
    /\ ring = {}
    /\ nextId = 1
    /\ received = {}
    /\ exited = {}

-----------------------------------------------------------------------------
Running(t) == RankOf[t] \notin exited

\* exit(1) in one thread of a process is the end of all of them, wherever they
\* are; what they have in shared memory stays as it is.
Exit(t) ==
    /\ exited' = exited \cup {RankOf[t]}
    /\ UNCHANGED <<bakeryvars, poolvars, threadvars, ring, nextId, received>>

Goto(t, place) == at' = [at EXCEPT ![t] = place]

-----------------------------------------------------------------------------
(* free_list_global_mutex *)

CallLock(t) ==
    /\ Running(t)
    /\ at[t] = "want"
    /\ SetFlag(t)
    /\ UNCHANGED <<poolvars, threadvars, ring, nextId, received, exited>>

WaitForLock(t) ==
    /\ Running(t)
    /\ LockStep(t)
    /\ UNCHANGED <<poolvars, threadvars, ring, nextId, received, exited>>

\* ~BakeryMutexGuard, at the end of the block that allocates or deallocates.
ReleaseLock(t) ==
    /\ Running(t)
    /\ at[t] = "leave"
    /\ Unlock(t)
    /\ Goto(t, IF t \in Receivers THEN "idle"
               ELSE IF held[t].block = EndOfList THEN "retry" ELSE "fill")
    /\ UNCHANGED <<poolvars, held, tries, ring, nextId, received, exited>>

InMutex(t) == Running(t) /\ pc[t] = "cs"

-----------------------------------------------------------------------------
(* send_results *)

\* A result that exceeds the block size ends the process; any other goes on
\* to be allocated a block.
TakeResult(t, size) ==
    /\ Running(t)
    /\ t \in Senders
    /\ at[t] = "idle"
    /\ nextId <= MaxResponses
    /\ IF block_size < size
       THEN Exit(t)
       ELSE /\ held' = [held EXCEPT ![t] = [id |-> nextId, size |-> size, block |-> NoBlock]]
            /\ nextId' = nextId + 1
            /\ tries' = [tries EXCEPT ![t] = 0]
            /\ Goto(t, "want")
            /\ UNCHANGED <<bakeryvars, poolvars, ring, received, exited>>

\* Variant: the process exits in the mutex when nothing is free.
ReadHeadOrExit(t) ==
    /\ InMutex(t)
    /\ t \in Senders
    /\ at[t] = "want"
    /\ IF head = EndOfList
       THEN Exit(t)
       ELSE /\ held' = [held EXCEPT ![t].block = head]
            /\ Goto(t, "taking")
            /\ UNCHANGED <<bakeryvars, poolvars, tries, ring, nextId, received, exited>>

\* Freelist::allocate looks at the head ...
ReadHead(t) ==
    /\ InMutex(t)
    /\ t \in Senders
    /\ at[t] = "want"
    /\ held' = [held EXCEPT ![t].block = head]
    /\ Goto(t, IF head = EndOfList THEN "leave" ELSE "taking")
    /\ UNCHANGED <<bakeryvars, poolvars, tries, ring, nextId, received, exited>>

\* Variant: the head stays.
TakeBlockKeepsHead(t) ==
    /\ InMutex(t)
    /\ at[t] = "taking"
    /\ Goto(t, "leave")
    /\ UNCHANGED <<bakeryvars, poolvars, held, tries, ring, nextId, received, exited>>

\* ... and makes its successor the new head.  A head that is no block's offset
\* points outside of the pool.
TakeBlock(t) ==
    /\ InMutex(t)
    /\ at[t] = "taking"
    /\ IF held[t].block \in Blocks
       THEN /\ head' = link[held[t].block]
            /\ Goto(t, "leave")
            /\ UNCHANGED <<bakeryvars, link, content, held, tries, ring, nextId, received, exited>>
       ELSE Exit(t)

\* Nothing was free: another attempt, unless 10 s have passed.
Retry(t) ==
    /\ Running(t)
    /\ at[t] = "retry"
    /\ \/ /\ tries[t] < MaxTries
          /\ tries' = [tries EXCEPT ![t] = @ + 1]
          /\ Goto(t, "want")
          /\ UNCHANGED <<bakeryvars, poolvars, held, ring, nextId, received, exited>>
       \/ Exit(t)

\* memcpy behind the link word: data as long as the block runs into the link
\* of the block behind it.
CopyIn(t) ==
    LET b == held[t].block
    IN  /\ Running(t)
        /\ at[t] = "fill"
        /\ content' = [content EXCEPT ![b] = held[t].id]
        /\ link' = IF 1 + held[t].size > block_size /\ b + 1 \in Blocks
                   THEN [link EXCEPT ![b + 1] = Garbage]
                   ELSE link
        /\ Goto(t, "push")
        /\ UNCHANGED <<bakeryvars, head, held, tries, ring, nextId, received, exited>>

PushResponse(t) ==
    /\ Running(t)
    /\ at[t] = "push"
    /\ ring' = ring \cup {held[t]}
    /\ Goto(t, "idle")
    /\ UNCHANGED <<bakeryvars, poolvars, held, tries, nextId, received, exited>>

-----------------------------------------------------------------------------
(* deserialize *)

PopResponse(t, response) ==
    /\ Running(t)
    /\ t \in Receivers
    /\ at[t] = "idle"
    /\ response \in ring
    /\ ring' = ring \ {response}
    /\ held' = [held EXCEPT ![t] = response]
    /\ Goto(t, "copy")
    /\ UNCHANGED <<bakeryvars, poolvars, tries, nextId, received, exited>>

CopyOut(t) ==
    /\ Running(t)
    /\ at[t] = "copy"
    /\ received' = received \cup {[id |-> held[t].id, content |-> content[held[t].block]]}
    /\ Goto(t, "want")
    /\ UNCHANGED <<bakeryvars, poolvars, held, tries, ring, nextId, exited>>

\* Variant: the block keeps the link it had when it was allocated.
WriteNoLink(t) ==
    /\ InMutex(t)
    /\ t \in Receivers
    /\ at[t] = "want"
    /\ Goto(t, "returning")
    /\ UNCHANGED <<bakeryvars, poolvars, held, tries, ring, nextId, received, exited>>

\* Freelist::deallocate links the block to the head ...
WriteLink(t) ==
    /\ InMutex(t)
    /\ t \in Receivers
    /\ at[t] = "want"
    /\ link' = [link EXCEPT ![held[t].block] = head]
    /\ Goto(t, "returning")
    /\ UNCHANGED <<bakeryvars, head, content, held, tries, ring, nextId, received, exited>>

\* ... and makes it the head.
WriteHead(t) ==
    /\ InMutex(t)
    /\ at[t] = "returning"
    /\ head' = held[t].block
    /\ Goto(t, "leave")
    /\ UNCHANGED <<bakeryvars, link, content, held, tries, ring, nextId, received, exited>>

-----------------------------------------------------------------------------
LockThread(t) == CallLock(t) \/ WaitForLock(t) \/ ReleaseLock(t)

\* A call of send_results that has begun.
SendStep(t) == ReadHead(t) \/ TakeBlock(t) \/ Retry(t) \/ CopyIn(t) \/ PushResponse(t)

Deserialize(t) ==
    \/ \E response \in ring : PopResponse(t, response)
    \/ CopyOut(t) \/ WriteLink(t) \/ WriteHead(t)

ShmNext ==
    \E t \in Threads :
        \/ LockThread(t)
        \/ \E size \in DataSizes : TakeResult(t, size)
        \/ SendStep(t)
        \/ Deserialize(t)

ShmSpec == ShmInit /\ [][ShmNext]_shmvars

\* Threads are scheduled; a waiting sender is not promised a block.
ShmFairness ==
    \A t \in Threads : /\ WF_shmvars(LockThread(t))
                       /\ WF_shmvars(SendStep(t))
                       /\ WF_shmvars(Deserialize(t))

ShmFairSpec == ShmSpec /\ ShmFairness

-----------------------------------------------------------------------------
(* Properties *)

\* The list as a walk from the head: position n holds the n-th free block.
ListAt[n \in 0 .. num_blocks] ==
    IF n = 0 THEN head
    ELSE IF ListAt[n - 1] \in Blocks THEN link[ListAt[n - 1]] ELSE ListAt[n - 1]

FreeBlocks == {ListAt[n] : n \in 0 .. num_blocks} \cap Blocks

\* Walking the list never leaves the pool, and ends.
ListIntact == ListAt[num_blocks] = EndOfList

\* The holders of block b: a thread between allocate and push or between pop
\* and deallocate, or a response on a ring.
HoldersOf(b) ==
    {t \in Senders : /\ held[t].block = b
                     /\ \/ at[t] \in {"fill", "push"}
                        \/ at[t] = "leave"}
    \cup {t \in Receivers : held[t].block = b /\ at[t] \in {"copy", "want", "returning"}}
    \cup {response \in ring : response.block = b}

\* No result is exactly as long as a block: such a one passes the test of
\* send_results, which leaves the link word out, and overruns its block.
ResultsFit == block_size \notin DataSizes

\* At every moment, inside the mutex as well as outside, each block is on the
\* list or has one holder.
BlocksConserved ==
    /\ ListIntact
    /\ \A b \in Blocks : Cardinality(HoldersOf(b)) = IF b \in FreeBlocks THEN 0 ELSE 1

\* A block has one holder at a time: allocate() waits for a free one.
NoBlockHeldTwice == \A b \in Blocks : Cardinality(HoldersOf(b)) <= 1

\* What is copied out for a response is what was copied in for it.
ResultsArriveIntact == \A result \in received : result.content = result.id

\* What is put on a ring is received, although senders give up and exit.
EveryResponseArrives ==
    \A id \in 1 .. MaxResponses :
        (\E response \in ring : response.id = id) ~> (\E result \in received : result.id = id)
=============================================================================
