-------------------------- MODULE MCClientResponses --------------------------
(***************************************************************************)
(* ClientResponses where the results of a stream are all taken by one      *)
(* worker, while unary results are taken by every worker: with a second    *)
(* worker on a stream its answer is not whole.                             *)
(***************************************************************************)
EXTENDS ClientResponses

CONSTANT StreamWorker

MCWorker(w) ==
    /\ ResponseWorker(w)
    /\ pc[w] = "wait" => w = StreamWorker \/ response'[w].id \in UnaryQueries

MCNext == (\E w \in Workers : MCWorker(w)) \/ CompletionQueue \/ Finished

MCSpec ==
    /\ Init
    /\ [][MCNext]_vars
    /\ \A w \in Workers : WF_vars(MCWorker(w))
    /\ WF_vars(CompletionQueue)
=============================================================================
