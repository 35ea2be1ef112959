--------------------------- MODULE LatestQueryIDs ----------------------------
(***************************************************************************)
(* isDuplicateQueryID and appendQueryID of                                 *)
(* collision_query_service_impl.cpp, as functions of the ring              *)
(* latestQueryIDs.  SendRequestCallData::Proceed uses the two under one    *)
(* mutex.                                                                  *)
(***************************************************************************)
EXTENDS Ringbuffer

isDuplicateQueryID(r, id) ==
    ~is_empty(r) /\ \E k \in Visits(r) : r.buffer[SlotAt(r, k)] = id

\* Variant: a full ring is left alone.
appendIfRoom(r, id) == IF is_full(r) THEN r ELSE Pushed(r, id)

\* The ring with the id, and without its oldest one if it was full.
appendQueryID(r, id) == Pushed(IF is_full(r) THEN Popped(r) ELSE r, id)
=============================================================================
