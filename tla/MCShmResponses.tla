--------------------------- MODULE MCShmResponses ---------------------------
(* ShmResponses with a rank for every thread, and with the ranks the code    *)
(* gives its threads.                                                        *)
EXTENDS ShmResponses

\* The theorems' hypothesis on the sizes.
ASSUME SizesLeaveRoom == ResultsFit

\* Every thread under a rank of its own: one sender per process.
OwnRank == [t \in Threads |-> t]

\* Two response workers of one process, and the process they send to.
SharedRank == [t \in Threads |-> IF t \in Senders THEN 0 ELSE 1]

\* Everything is sent and received, as far as the senders got.
Finished ==
    /\ nextId > MaxResponses
    /\ ring = {}
    /\ \A t \in Threads : at[t] = "idle" \/ RankOf[t] \in exited
    /\ UNCHANGED shmvars

\* All senders have exited before everything was sent.
NobodySends ==
    /\ ring = {}
    /\ \A t \in Senders : RankOf[t] \in exited
    /\ \A t \in Receivers : at[t] = "idle"
    /\ UNCHANGED shmvars

MCNext == ShmNext \/ Finished \/ NobodySends

MCSpec == ShmInit /\ [][MCNext]_shmvars /\ ShmFairness
=============================================================================
