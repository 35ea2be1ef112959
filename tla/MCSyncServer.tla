---------------------------- MODULE MCSyncServer -----------------------------
(* An instance of SyncServer. *)
EXTENDS SyncServer, TLC

\* Two paths to each of two ranks, which call each other.
CycleNeighbors == 0 :> <<1, 2>> @@ 1 :> <<2>> @@ 2 :> <<1>>

\* The instance is one of those WholeUnlessCallsFail (SyncServerProofs) is about.
ASSUME CycleIsConnected == EveryRankReachable
=============================================================================
