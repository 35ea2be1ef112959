---------------------------- MODULE QueryService ----------------------------
(***************************************************************************)
(* What GetCollisions of proto/collision.proto promises a client: one      *)
(* answer, made of the result of every process, each taken once.           *)
(***************************************************************************)
CONSTANTS Queries,   \* the identifiers queries get
          Ranks      \* the processes that hold a part of the data

VARIABLES open,      \* the queries that wait for their answer
          answer     \* per answered query: how often it holds each rank's result

servicevars == <<open, answer>>

Init == open = {} /\ answer = [q \in {} |-> {}]

Submit(q) ==
    /\ q \notin open \cup DOMAIN answer
    /\ open' = open \cup {q}
    /\ UNCHANGED answer

Answer(q) ==
    /\ q \in open
    /\ open' = open \ {q}
    /\ answer' = [p \in DOMAIN answer \cup {q} |->
                     IF p = q THEN [r \in Ranks |-> 1] ELSE answer[p]]

\* The service is started again: clients that wait get no answer, and the
\* identifiers are used once more.
Restart == open' = {} /\ answer' = [q \in {} |-> {}]

Next == Restart \/ \E q \in Queries : Submit(q) \/ Answer(q)

SafeSpec == Init /\ [][Next]_servicevars

EveryQueryIsAnswered == \A q \in Queries : q \in open ~> q \in DOMAIN answer
=============================================================================
