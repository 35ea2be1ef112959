------------------------ MODULE ClientResponsesProofs ------------------------
(***************************************************************************)
(* For any number of workers, queries, ranks and copies: a unary call gets *)
(* one whole answer whoever handles its results, a stream if one worker    *)
(* handles them all, and neither entries nor call data are used when they  *)
(* are gone.                                                               *)
(***************************************************************************)
EXTENDS MCClientResponses, FiniteSetTheorems, SequenceTheorems, TLAPS

(* The invariant *)

\* What the workers have in hand.
WorkersOK ==
    /\ DOMAIN pc = Workers /\ DOMAIN response = Workers
    /\ \A w \in Workers :
          /\ pc[w] \in {"wait", "record", "complete", "write", "check", "finish", "erase"}
          /\ pc[w] # "wait" => response[w] \in Responses
          /\ pc[w] = "complete" => response[w].id \in UnaryQueries
          /\ pc[w] \in {"write", "check", "finish"} => response[w].id \in StreamQueries
          /\ pc[w] # "wait" /\ response[w].id \in StreamQueries => w = StreamWorker

Tables ==
    /\ toCome \subseteq Responses
    /\ DOMAIN entry = Queries /\ DOMAIN callData = Queries /\ DOMAIN sent = Queries
    /\ DOMAIN collisions = UnaryQueries
    /\ ranks \in [Queries -> SUBSET Ranks]

\* The workers that complete q, or have completed it.
Completing(q) == {w \in Workers : pc[w] \in {"complete", "erase"} /\ response[w].id = q}

Ones == [r \in Ranks |-> 1]

\* Every rank that is counted is in; one worker sees that all are, the only one
\* to complete the call and to erase the entry.
UnaryOK(q) ==
    /\ collisions[q] = [r \in Ranks |-> IF r \in ranks[q] THEN 1 ELSE 0]
    /\ sent[q] = <<>> \/ (sent[q] = <<Ones>> /\ ranks[q] = Ranks)
    /\ ~callData[q] => sent[q] # <<>>
    /\ \A w \in Completing(q) :
          /\ ranks[q] = Ranks /\ entry[q]
          /\ \A v \in Completing(q) : v = w
          /\ pc[w] = "complete" => sent[q] = <<>> /\ callData[q]

Elements(s) == {s[i] : i \in 1 .. Len(s)}

\* The results of the ranks of A have been written, and nothing else.
Written(s, A) == s \in Seq(Ranks) /\ Elements(s) = A /\ Len(s) = Cardinality(A)

\* All results have been written, and the stream is finished.
Ended(s) == \E results \in Seq(Ranks) : s = Append(results, Finish) /\ Written(results, Ranks)

\* The worker of the streams is at one of the places, for q.
StreamWorkerAt(places, q) ==
    StreamWorker \in Workers /\ pc[StreamWorker] \in places /\ response[StreamWorker].id = q

\* What has been counted has been written, but for the result that is about to be.
StreamOK(q) ==
    /\ IF StreamWorkerAt({"write"}, q)
       THEN /\ response[StreamWorker].results_from \in ranks[q]
            /\ Written(sent[q], ranks[q] \ {response[StreamWorker].results_from})
       ELSE Written(sent[q], ranks[q]) \/ (Ended(sent[q]) /\ ranks[q] = Ranks)
    /\ StreamWorkerAt({"write", "check", "finish"}, q) => entry[q] /\ callData[q] /\ sent[q] \in Seq(Ranks)
    /\ StreamWorkerAt({"finish"}, q) => ranks[q] = Ranks
    /\ StreamWorkerAt({"erase"}, q) => entry[q] /\ Ended(sent[q])
    /\ ~callData[q] => Ended(sent[q])

Inv ==
    /\ WorkersOK /\ Tables
    /\ \A q \in UnaryQueries : UnaryOK(q)
    /\ \A q \in StreamQueries : StreamOK(q)

-----------------------------------------------------------------------------
(* Results in a sequence *)

\* Ranks that are as many as all ranks are all of them.
LEMMA AllPresentMeansAll ==
    ASSUME NEW A \in SUBSET Ranks
    PROVE  AllPresent(A) <=> A = Ranks
BY ClientAssumption, FS_Subset DEF AllPresent

LEMMA NothingWritten == Written(<<>>, {})
BY EmptySeq, FS_EmptySet DEF Written, Elements

\* One more result is written.
LEMMA WriteOneMore ==
    ASSUME NEW A \in SUBSET Ranks, NEW r \in Ranks \ A, NEW s, Written(s, A)
    PROVE  Written(Append(s, r), A \cup {r})
<1> DEFINE t == Append(s, r)
<1>1. s \in Seq(Ranks) /\ Len(s) \in Nat /\ t \in Seq(Ranks) /\ Len(t) = Len(s) + 1
      /\ t[Len(s) + 1] = r /\ \A i \in 1 .. Len(s) : t[i] = s[i]
  BY DEF Written
<1>2. Elements(t) = Elements(s) \cup {r}
  <2>1. 1 .. Len(t) = (1 .. Len(s)) \cup {Len(s) + 1}
    BY <1>1
  <2> HIDE DEF t
  <2> QED BY <1>1, <2>1 DEF Elements
<1>3. Cardinality(A \cup {r}) = Cardinality(A) + 1
  BY ClientAssumption, FS_Subset, FS_AddElement
<1> QED BY <1>1, <1>2, <1>3 DEF Written

LEMMA WrittenFacts ==
    ASSUME NEW s, NEW A, Written(s, A), NEW results \in Seq(Ranks)
    PROVE  s # Append(results, Finish) /\ \A i \in 1 .. Len(s) : s[i] # Finish
<1>1. Finish \notin Ranks
  BY ClientAssumption DEF Finish
<1>2. s \in Seq(Ranks) /\ \A i \in 1 .. Len(s) : s[i] \in Ranks
  BY DEF Written
<1>3. LET t == Append(results, Finish)
      IN  Len(t) = Len(results) + 1 /\ t[Len(results) + 1] = Finish /\ Len(results) \in Nat
  OBVIOUS
<1>4. s # Append(results, Finish)
  <2>1. ASSUME s = Append(results, Finish) PROVE FALSE
    <3>1. Len(results) + 1 \in 1 .. Len(s) /\ s[Len(results) + 1] = Finish
      BY <1>3, <2>1
    <3> QED BY <1>1, <1>2, <3>1
  <2> QED BY <2>1
<1> QED BY <1>1, <1>2, <1>4

\* Finish comes once, behind the results of all ranks.
LEMMA EndedIsWhole ==
    ASSUME NEW s, Ended(s)
    PROVE  /\ s # <<>> /\ s \notin Seq(Ranks)
           /\ \E i \in 1 .. Len(s) : s[i] = Finish
           /\ \A i \in 1 .. Len(s) : s[i] = Finish => i = Len(s) /\ Whole(SubSeq(s, 1, i - 1))
<1>1. PICK results \in Seq(Ranks) : s = Append(results, Finish) /\ Written(results, Ranks)
  BY DEF Ended
<1>2. Finish \notin Ranks
  BY ClientAssumption DEF Finish
<1>3. /\ Len(results) \in Nat /\ Len(s) = Len(results) + 1 /\ s[Len(s)] = Finish
      /\ \A i \in 1 .. Len(results) : s[i] = results[i] /\ s[i] \in Ranks
      /\ 1 .. Len(s) = (1 .. Len(results)) \cup {Len(s)}
  BY <1>1
<1>4. s # <<>> /\ s \notin Seq(Ranks)
  <2>1. Len(s) \in 1 .. Len(s)
    BY <1>3
  <2> QED BY <1>2, <1>3, <2>1, EmptySeq
<1>5. ASSUME NEW i \in 1 .. Len(s), s[i] = Finish
      PROVE  i = Len(s) /\ Whole(SubSeq(s, 1, i - 1))
  <2>1. i = Len(s)
    BY <1>2, <1>3, <1>5
  <2>2. SubSeq(s, 1, Len(results)) = results
    <3> DEFINE sub == SubSeq(s, 1, Len(results))
    <3>1. \A j \in 1 .. Len(results) : s[j] \in Ranks
      BY <1>3
    <3>2. sub \in Seq(Ranks) /\ Len(sub) = Len(results) /\ \A j \in 1 .. Len(results) : sub[j] = s[j]
      <4>1. /\ sub \in Seq(Ranks)
            /\ Len(sub) = IF 1 <= Len(results) THEN Len(results) - 1 + 1 ELSE 0
            /\ \A j \in 1 .. Len(results) - 1 + 1 : sub[j] = s[1 + j - 1]
        BY <1>3, <3>1, SubSeqProperties
      <4>2. \A j \in 1 .. Len(results) : 1 + j - 1 = j /\ j \in 1 .. Len(results) - 1 + 1
        BY <1>3
      <4> QED BY <1>3, <4>1, <4>2
    <3> QED BY <1>3, <3>2, SeqEqual
  <2>3. Whole(results)
    BY <1>1 DEF Written, Whole, Elements
  <2>4. i - 1 = Len(results)
    BY <1>3, <2>1
  <2> QED BY <2>1, <2>2, <2>3, <2>4
<1> QED BY <1>3, <1>4, <1>5

-----------------------------------------------------------------------------
(* Frames: what a step must leave alone to keep a query's part of the invariant *)

LEMMA UnaryKept ==
    ASSUME NEW q \in UnaryQueries, UnaryOK(q),
           collisions'[q] = collisions[q], ranks'[q] = ranks[q], sent'[q] = sent[q],
           entry'[q] = entry[q], callData'[q] = callData[q],
           \A w \in Workers : pc'[w] \in {"complete", "erase"} /\ response'[w].id = q
                              => pc[w] = pc'[w] /\ response[w].id = q
    PROVE  UnaryOK(q)'
BY DEF UnaryOK, Completing

LEMMA StreamKept ==
    ASSUME NEW q \in StreamQueries, StreamOK(q),
           ranks'[q] = ranks[q], sent'[q] = sent[q],
           entry'[q] = entry[q], callData'[q] = callData[q],
           \/ /\ pc'[StreamWorker] = pc[StreamWorker]
              /\ response'[StreamWorker] = response[StreamWorker]
           \/ /\ pc[StreamWorker] # "write" \/ response[StreamWorker].id # q
              /\ \/ pc'[StreamWorker] \notin {"write", "check", "finish", "erase"}
                 \/ response'[StreamWorker].id # q
    PROVE  StreamOK(q)'
BY DEF StreamOK, StreamWorkerAt

\* What is known of a worker that has a response in hand.
LEMMA InHand ==
    ASSUME WorkersOK, NEW w \in Workers, pc[w] # "wait"
    PROVE  /\ response[w] \in Responses /\ response[w].id \in Queries
           /\ response[w].results_from \in Ranks
           /\ response[w].id \in StreamQueries => w = StreamWorker
BY DEF WorkersOK, Responses

-----------------------------------------------------------------------------
(* One lemma per action *)

LEMMA InitInv == Init => Inv
<1> SUFFICES ASSUME Init PROVE Inv
  OBVIOUS
<1>1. WorkersOK
  BY DEF Init, WorkersOK
<1>2. Tables
  BY DEF Init, Tables
<1>3. ASSUME NEW q \in UnaryQueries PROVE UnaryOK(q)
  <2>1. q \in Queries
    BY DEF Queries
  <2>2. collisions[q] = [r \in Ranks |-> IF r \in ranks[q] THEN 1 ELSE 0]
    BY <2>1 DEF Init
  <2>3. Completing(q) = {}
    BY DEF Init, Completing
  <2> QED BY <2>1, <2>2, <2>3 DEF Init, UnaryOK
<1>4. ASSUME NEW q \in StreamQueries PROVE StreamOK(q)
  <2>1. q \in Queries
    BY DEF Queries
  <2>2. StreamWorker \in Workers => pc[StreamWorker] = "wait"
    BY DEF Init
  <2> QED BY <2>1, <2>2, NothingWritten DEF Init, StreamOK, StreamWorkerAt
<1> QED BY <1>1, <1>2, <1>3, <1>4 DEF Inv

LEMMA TakeResponseInv ==
    ASSUME Inv, NEW w \in Workers, TakeResponse(w), MCWorker(w)
    PROVE  Inv'
<1>1. PICK m \in toCome : toCome' = toCome \ {m} /\ response' = [response EXCEPT ![w] = m]
  BY DEF TakeResponse
<1>2. /\ pc[w] = "wait" /\ pc' = [pc EXCEPT ![w] = "record"]
      /\ UNCHANGED <<entry, ranks, collisions, writeMutex, callData, sent>>
  BY DEF TakeResponse, Goto
<1>3. m \in Responses /\ DOMAIN pc = Workers /\ DOMAIN response = Workers
  BY DEF Inv, Tables, WorkersOK
<1>4. /\ pc'[w] = "record" /\ response'[w] = m
      /\ \A v \in Workers \ {w} : pc'[v] = pc[v] /\ response'[v] = response[v]
  BY <1>1, <1>2, <1>3
<1>5. m.id \in StreamQueries => w = StreamWorker
  BY <1>2, <1>4, ClientAssumption DEF MCWorker
<1>6. WorkersOK'
  BY <1>1, <1>2, <1>3, <1>4, <1>5 DEF Inv, WorkersOK
<1>7. Tables'
  BY <1>1, <1>2 DEF Inv, Tables
<1>8. ASSUME NEW q \in UnaryQueries PROVE UnaryOK(q)'
  BY <1>2, <1>4, UnaryKept DEF Inv
<1>9. ASSUME NEW q \in StreamQueries PROVE StreamOK(q)'
  <2>1. CASE StreamWorker = w
    BY <1>2, <1>4, <2>1, StreamKept DEF Inv
  <2>2. CASE StreamWorker \in Workers \ {w}
    BY <1>2, <1>4, <2>2, StreamKept DEF Inv
  <2>3. CASE StreamWorker \notin Workers
    BY <1>2, <2>3 DEF Inv, StreamOK, StreamWorkerAt
  <2> QED BY <2>1, <2>2, <2>3
<1> QED BY <1>6, <1>7, <1>8, <1>9 DEF Inv

LEMMA RecordUnaryInv ==
    ASSUME Inv, NEW w \in Workers, RecordResponse(w),
           NEW id \in UnaryQueries, id = response[w].id,
           NEW from, from = response[w].results_from,
           entry[id], from \notin ranks[id]
    PROVE  Inv'
<1> PICK present : present = ranks[id] \cup {from}
  OBVIOUS
<1>1. /\ pc[w] = "record" /\ entry[id] /\ from \notin ranks[id]
      /\ ranks' = [ranks EXCEPT ![id] = present]
      /\ collisions' = [collisions EXCEPT ![id][from] = @ + 1]
      /\ pc' = [pc EXCEPT ![w] = IF AllPresent(present) THEN "complete" ELSE "wait"]
      /\ UNCHANGED <<toCome, entry, writeMutex, response, callData, sent>>
  BY ClientAssumption DEF RecordResponse, Goto
<1>2. id \in UnaryQueries /\ id \in Queries /\ from \in Ranks /\ id \notin StreamQueries
  BY <1>1, InHand, ClientAssumption DEF Inv
<1>3. /\ DOMAIN pc = Workers /\ ranks \in [Queries -> SUBSET Ranks] /\ present \in SUBSET Ranks
      /\ ranks[id] # Ranks
  BY <1>1, <1>2 DEF Inv, WorkersOK, Tables
<1>4. AllPresent(present) <=> present = Ranks
  BY <1>3, AllPresentMeansAll
<1>5. UnaryOK(id)
  BY <1>2 DEF Inv
<1>6. /\ pc'[w] = (IF present = Ranks THEN "complete" ELSE "wait")
      /\ \A v \in Workers \ {w} : pc'[v] = pc[v]
      /\ ranks'[id] = present /\ \A q \in Queries \ {id} : ranks'[q] = ranks[q]
  BY <1>1, <1>2, <1>3, <1>4
<1>7. WorkersOK'
  BY <1>1, <1>2, <1>3, <1>6 DEF Inv, WorkersOK
<1>8. Tables'
  BY <1>1, <1>3 DEF Inv, Tables
<1>9. ASSUME NEW q \in UnaryQueries, q # id PROVE UnaryOK(q)'
  <2>1. collisions'[q] = collisions[q] /\ ranks'[q] = ranks[q]
    BY <1>1, <1>6, <1>9 DEF Queries
  <2>2. response'[w].id # q
    BY <1>1, <1>9
  <2> QED BY <1>1, <1>6, <2>1, <2>2, UnaryKept DEF Inv
<1>10. UnaryOK(id)'
  <2>1. sent[id] = <<>> /\ callData[id] /\ Completing(id) = {}
    BY <1>3, <1>5 DEF UnaryOK
  <2>2. collisions'[id] = [r \in Ranks |-> IF r \in present THEN 1 ELSE 0]
    <3>1. collisions[id] = [r \in Ranks |-> IF r \in ranks[id] THEN 1 ELSE 0]
      BY <1>5 DEF UnaryOK
    <3>2. id \in DOMAIN collisions
      BY <1>5, <1>2 DEF Inv, Tables
    <3>3. collisions'[id] = [collisions[id] EXCEPT ![from] = @ + 1]
      BY <1>1, <3>2
    <3>4. collisions[id][from] = 0
      BY <1>1, <1>2, <3>1
    <3> QED BY <1>2, <3>1, <3>3, <3>4
  <2>3. \A v \in Workers : pc'[v] \in {"complete", "erase"} /\ response'[v].id = id
                           => v = w /\ present = Ranks /\ pc'[v] = "complete"
    BY <1>1, <1>6, <2>1 DEF Completing
  <2> QED BY <1>1, <1>6, <2>1, <2>2, <2>3 DEF UnaryOK, Completing
<1>11. ASSUME NEW q \in StreamQueries PROVE StreamOK(q)'
  <2>1. ranks'[q] = ranks[q] /\ response[w].id # q
    BY <1>2, <1>6 DEF Queries
  <2>2. CASE StreamWorker = w
    BY <1>1, <1>6, <2>1, <2>2, StreamKept DEF Inv
  <2>3. CASE StreamWorker \in Workers \ {w}
    BY <1>1, <1>6, <2>1, <2>3, StreamKept DEF Inv
  <2>4. CASE StreamWorker \notin Workers
    BY <1>1, <2>1, <2>4 DEF Inv, StreamOK, StreamWorkerAt
  <2> QED BY <2>2, <2>3, <2>4
<1> QED BY <1>7, <1>8, <1>9, <1>10, <1>11 DEF Inv

LEMMA RecordStreamInv ==
    ASSUME Inv, NEW w \in Workers, RecordResponse(w),
           NEW id \in StreamQueries, id = response[w].id,
           NEW from, from = response[w].results_from,
           entry[id], from \notin ranks[id]
    PROVE  Inv'
<1>1. /\ pc[w] = "record"
      /\ ranks' = [ranks EXCEPT ![id] = ranks[id] \cup {from}]
      /\ pc' = [pc EXCEPT ![w] = "write"]
      /\ UNCHANGED <<toCome, entry, collisions, writeMutex, response, callData, sent>>
  BY ClientAssumption DEF RecordResponse, Goto
<1>2. id \in Queries /\ from \in Ranks /\ id \notin UnaryQueries /\ w = StreamWorker
  BY <1>1, InHand, ClientAssumption DEF Inv
<1>3. DOMAIN pc = Workers /\ ranks \in [Queries -> SUBSET Ranks]
  BY DEF Inv, WorkersOK, Tables
<1>4. /\ pc'[w] = "write" /\ \A v \in Workers \ {w} : pc'[v] = pc[v]
      /\ ranks'[id] = ranks[id] \cup {from} /\ \A q \in Queries \ {id} : ranks'[q] = ranks[q]
  BY <1>1, <1>2, <1>3
<1>5. WorkersOK'
  BY <1>1, <1>2, <1>3, <1>4 DEF Inv, WorkersOK
<1>6. Tables'
  BY <1>1, <1>2, <1>3 DEF Inv, Tables
<1>7. ASSUME NEW q \in UnaryQueries PROVE UnaryOK(q)'
  BY <1>1, <1>2, <1>4, UnaryKept DEF Inv, Queries
<1>8. ASSUME NEW q \in StreamQueries, q # id PROVE StreamOK(q)'
  BY <1>1, <1>2, <1>4, <1>8, StreamKept DEF Inv, Queries
<1>9. StreamOK(id)'
  <2>1. StreamOK(id) /\ ranks[id] # Ranks
    BY <1>2 DEF Inv
  <2>2. Written(sent[id], ranks[id])
    BY <1>1, <1>2, <2>1 DEF StreamOK, StreamWorkerAt
  <2>3. sent[id] \in Seq(Ranks) /\ callData[id]
    BY <2>1, <2>2, EndedIsWhole DEF Written, StreamOK
  <2>4. ranks'[id] \ {from} = ranks[id]
    BY <1>4
  <2>5. /\ pc'[StreamWorker] = "write" /\ response'[StreamWorker].id = id
        /\ response'[StreamWorker].results_from = from /\ from \in ranks'[id]
        /\ entry'[id] /\ callData'[id] /\ sent'[id] \in Seq(Ranks)
        /\ Written(sent'[id], ranks'[id] \ {from})
    BY <1>1, <1>2, <1>4, <2>2, <2>3, <2>4
  <2>6. Written(sent[id], ranks[id] \ {response[StreamWorker].results_from})'
    BY <2>5 DEF Written, Elements
  <2> QED BY <1>2, <2>5, <2>6 DEF StreamOK, StreamWorkerAt
<1> QED BY <1>5, <1>6, <1>7, <1>8, <1>9 DEF Inv

\* A step of a worker that changes its place alone, and to none that counts.
LEMMA OnlyGoesOn ==
    ASSUME Inv, NEW w \in Workers, NEW place \in {"wait", "finish"}, Goto(w, place),
           UNCHANGED <<toCome, entry, ranks, collisions, writeMutex, response, callData, sent>>,
           pc[w] \in {"record", "check"},
           place = "finish" => pc[w] = "check" /\ ranks[response[w].id] = Ranks
    PROVE  Inv'
<1>1. DOMAIN pc = Workers /\ pc' = [pc EXCEPT ![w] = place]
  BY DEF Inv, WorkersOK, Goto
<1>2. pc'[w] = place /\ \A v \in Workers \ {w} : pc'[v] = pc[v]
  BY <1>1
<1>3. WorkersOK'
  BY <1>1, <1>2 DEF Inv, WorkersOK
<1>4. Tables'
  BY DEF Inv, Tables
<1>5. ASSUME NEW q \in UnaryQueries PROVE UnaryOK(q)'
  BY <1>2, UnaryKept DEF Inv
<1>6. ASSUME NEW q \in StreamQueries PROVE StreamOK(q)'
  <2>1. StreamOK(q)
    BY DEF Inv
  <2>2. CASE StreamWorker = w
    BY <1>2, <2>1, <2>2 DEF StreamOK, StreamWorkerAt
  <2>3. CASE StreamWorker # w
    BY <1>2, <2>1, <2>3 DEF StreamOK, StreamWorkerAt
  <2> QED BY <2>2, <2>3
<1> QED BY <1>3, <1>4, <1>5, <1>6 DEF Inv

LEMMA RecordResponseInv ==
    ASSUME Inv, NEW w \in Workers, RecordResponse(w)
    PROVE  Inv'
<1> PICK id, from : id = response[w].id /\ from = response[w].results_from
  OBVIOUS
<1>1. CASE ~entry[id] \/ from \in ranks[id]
  BY <1>1, OnlyGoesOn DEF RecordResponse
<1>2. CASE entry[id] /\ from \notin ranks[id]
  BY <1>2, InHand, RecordUnaryInv, RecordStreamInv DEF Inv, Queries, RecordResponse
<1> QED BY <1>1, <1>2

LEMMA CheckAllPresentInv ==
    ASSUME Inv, NEW w \in Workers, CheckAllPresent(w)
    PROVE  Inv'
<1>1. pc[w] = "check" /\ response[w].id \in Queries
  BY InHand DEF CheckAllPresent, Inv
<1>2. AllPresent(ranks[response[w].id]) <=> ranks[response[w].id] = Ranks
  BY <1>1, AllPresentMeansAll DEF Inv, Tables
<1>3. PICK place \in {"wait", "finish"} :
          Goto(w, place) /\ (place = "finish" => ranks[response[w].id] = Ranks)
  BY <1>2 DEF CheckAllPresent
<1> QED BY <1>1, <1>3, OnlyGoesOn DEF CheckAllPresent

LEMMA CompleteRequestInv ==
    ASSUME Inv, NEW w \in Workers, CompleteRequest(w)
    PROVE  Inv'
<1> PICK id : id = response[w].id
  OBVIOUS
<1>1. /\ pc[w] = "complete" /\ pc' = [pc EXCEPT ![w] = "erase"]
      /\ sent' = [sent EXCEPT ![id] = Append(@, collisions[id])]
      /\ UNCHANGED <<toCome, entry, ranks, collisions, writeMutex, response, callData>>
  BY DEF CompleteRequest, Goto
<1>2. id \in UnaryQueries /\ id \in Queries /\ id \notin StreamQueries
  BY <1>1, ClientAssumption DEF Inv, WorkersOK, Queries
<1>3. UnaryOK(id) /\ DOMAIN pc = Workers /\ DOMAIN sent = Queries
  BY <1>2 DEF Inv, WorkersOK, Tables
<1>4. /\ pc'[w] = "erase" /\ \A v \in Workers \ {w} : pc'[v] = pc[v]
      /\ sent'[id] = Append(sent[id], collisions[id]) /\ \A q \in Queries \ {id} : sent'[q] = sent[q]
  BY <1>1, <1>2, <1>3
<1>5. WorkersOK'
  BY <1>1, <1>2, <1>3, <1>4 DEF Inv, WorkersOK
<1>6. Tables'
  BY <1>1, <1>3 DEF Inv, Tables
<1>7. ASSUME NEW q \in UnaryQueries, q # id PROVE UnaryOK(q)'
  <2>1. q \in Queries
    BY DEF Queries
  <2> QED BY <1>1, <1>4, <1>7, <2>1, UnaryKept DEF Inv
<1>8. UnaryOK(id)'
  <2>1. /\ w \in Completing(id) /\ ranks[id] = Ranks /\ entry[id] /\ sent[id] = <<>> /\ callData[id]
        /\ \A v \in Completing(id) : v = w
    BY <1>1, <1>3 DEF UnaryOK, Completing
  <2>2. collisions[id] = Ones
    BY <1>3, <2>1 DEF UnaryOK, Ones
  <2>3. sent'[id] = <<Ones>> /\ Ones' = Ones
    BY <1>4, <2>1, <2>2 DEF Ones
  <2>4. \A v \in Workers : pc'[v] \in {"complete", "erase"} /\ response'[v].id = id => v = w
    BY <1>1, <1>4, <2>1 DEF Completing
  <2>5. collisions'[id] = [r \in Ranks |-> IF r \in ranks'[id] THEN 1 ELSE 0]
    BY <1>1, <1>3 DEF UnaryOK
  <2> QED BY <1>1, <1>4, <2>1, <2>3, <2>4, <2>5 DEF UnaryOK, Completing
<1>9. ASSUME NEW q \in StreamQueries PROVE StreamOK(q)'
  <2>1. q \in Queries /\ q # id /\ StreamOK(q)
    BY <1>2 DEF Queries, Inv
  <2>2. CASE StreamWorker = w
    BY <1>1, <1>4, <2>1, <2>2, StreamKept
  <2>3. CASE StreamWorker # w
    BY <1>1, <1>4, <2>1, <2>3 DEF StreamOK, StreamWorkerAt
  <2> QED BY <2>2, <2>3
<1> QED BY <1>5, <1>6, <1>7, <1>8, <1>9 DEF Inv

LEMMA WriteInv ==
    ASSUME Inv, NEW w \in Workers, Write(w)
    PROVE  Inv'
<1> PICK id, from : id = response[w].id /\ from = response[w].results_from
  OBVIOUS
<1>1. /\ pc[w] = "write" /\ pc' = [pc EXCEPT ![w] = "check"]
      /\ sent' = [sent EXCEPT ![id] = Append(@, from)]
      /\ UNCHANGED <<toCome, entry, ranks, collisions, response, callData>>
  BY DEF Write, Goto
<1>2. id \in StreamQueries /\ id \in Queries /\ id \notin UnaryQueries /\ w = StreamWorker /\ from \in Ranks
  BY <1>1, InHand, ClientAssumption DEF Inv, WorkersOK, Queries
<1>3. /\ DOMAIN pc = Workers /\ DOMAIN sent = Queries /\ ranks[id] \in SUBSET Ranks
      /\ StreamOK(id)
  BY <1>2 DEF Inv, WorkersOK, Tables
<1>4. /\ pc'[w] = "check" /\ \A v \in Workers \ {w} : pc'[v] = pc[v]
      /\ sent'[id] = Append(sent[id], from) /\ \A q \in Queries \ {id} : sent'[q] = sent[q]
  BY <1>1, <1>2, <1>3
<1>5. WorkersOK'
  BY <1>1, <1>2, <1>3, <1>4 DEF Inv, WorkersOK
<1>6. Tables'
  BY <1>1, <1>3 DEF Inv, Tables
<1>7. ASSUME NEW q \in UnaryQueries PROVE UnaryOK(q)'
  <2>1. q \in Queries /\ q # id
    BY <1>2 DEF Queries
  <2> QED BY <1>1, <1>4, <2>1, UnaryKept DEF Inv
<1>8. ASSUME NEW q \in StreamQueries, q # id PROVE StreamOK(q)'
  <2>1. q \in Queries
    BY DEF Queries
  <2> QED BY <1>1, <1>2, <1>4, <1>8, <2>1, StreamKept DEF Inv
<1>9. StreamOK(id)'
  <2>1. /\ from \in ranks[id] /\ Written(sent[id], ranks[id] \ {from})
        /\ entry[id] /\ callData[id]
    BY <1>1, <1>2, <1>3 DEF StreamOK, StreamWorkerAt
  <2>2. (ranks[id] \ {from}) \cup {from} = ranks[id] /\ from \in Ranks \ (ranks[id] \ {from})
    BY <1>2, <2>1
  <2>3. Written(Append(sent[id], from), ranks[id])
    <3>1. Written(Append(sent[id], from), (ranks[id] \ {from}) \cup {from})
      BY <1>3, <2>1, <2>2, WriteOneMore
    <3> QED BY <2>2, <3>1
  <2>4. Written(sent[id], ranks[id])' /\ sent'[id] \in Seq(Ranks)
    BY <1>1, <1>4, <2>3 DEF Written, Elements
  <2> QED BY <1>1, <1>2, <1>4, <2>1, <2>4 DEF StreamOK, StreamWorkerAt
<1> QED BY <1>5, <1>6, <1>7, <1>8, <1>9 DEF Inv

LEMMA FinishStreamInv ==
    ASSUME Inv, NEW w \in Workers, FinishStream(w)
    PROVE  Inv'
<1> PICK id : id = response[w].id
  OBVIOUS
<1>1. /\ pc[w] = "finish" /\ pc' = [pc EXCEPT ![w] = "erase"]
      /\ sent' = [sent EXCEPT ![id] = Append(@, Finish)]
      /\ UNCHANGED <<toCome, entry, ranks, collisions, writeMutex, response, callData>>
  BY DEF FinishStream, Goto
<1>2. id \in StreamQueries /\ id \in Queries /\ id \notin UnaryQueries /\ w = StreamWorker
  BY <1>1, InHand, ClientAssumption DEF Inv, WorkersOK, Queries
<1>3. DOMAIN pc = Workers /\ DOMAIN sent = Queries /\ StreamOK(id)
  BY <1>2 DEF Inv, WorkersOK, Tables
<1>4. /\ pc'[w] = "erase" /\ \A v \in Workers \ {w} : pc'[v] = pc[v]
      /\ sent'[id] = Append(sent[id], Finish) /\ \A q \in Queries \ {id} : sent'[q] = sent[q]
  BY <1>1, <1>2, <1>3
<1>5. WorkersOK'
  BY <1>1, <1>2, <1>3, <1>4 DEF Inv, WorkersOK
<1>6. Tables'
  BY <1>1, <1>3 DEF Inv, Tables
<1>7. ASSUME NEW q \in UnaryQueries PROVE UnaryOK(q)'
  <2>1. q \in Queries /\ q # id /\ UnaryOK(q)
    BY <1>2 DEF Queries, Inv
  <2>2. \A v \in Workers : pc'[v] \in {"complete", "erase"} /\ response'[v].id = q
                           => pc[v] = pc'[v] /\ response[v].id = q
    BY <1>1, <1>4, <2>1
  <2> QED BY <1>1, <1>4, <2>1, <2>2, UnaryKept
<1>8. ASSUME NEW q \in StreamQueries, q # id PROVE StreamOK(q)'
  <2>1. q \in Queries
    BY DEF Queries
  <2> QED BY <1>1, <1>2, <1>4, <1>8, <2>1, StreamKept DEF Inv
<1>9. StreamOK(id)'
  <2>1. /\ ranks[id] = Ranks /\ entry[id] /\ sent[id] \in Seq(Ranks)
        /\ Written(sent[id], ranks[id]) \/ Ended(sent[id])
    BY <1>1, <1>2, <1>3 DEF StreamOK, StreamWorkerAt
  <2>2. Written(sent[id], Ranks)
    BY <2>1, EndedIsWhole
  <2>3. Ended(sent'[id])
    BY <1>4, <2>1, <2>2 DEF Ended
  <2>4. Ended(sent[id])'
    BY <2>3 DEF Ended, Written, Elements
  <2> QED BY <1>1, <1>2, <1>4, <2>1, <2>4 DEF StreamOK, StreamWorkerAt
<1> QED BY <1>5, <1>6, <1>7, <1>8, <1>9 DEF Inv

LEMMA EraseEntryInv ==
    ASSUME Inv, NEW w \in Workers, EraseEntry(w)
    PROVE  Inv'
<1> PICK id : id = response[w].id
  OBVIOUS
<1>1. /\ pc[w] = "erase" /\ pc' = [pc EXCEPT ![w] = "wait"]
      /\ entry' = [entry EXCEPT ![id] = FALSE]
      /\ UNCHANGED <<toCome, ranks, collisions, writeMutex, response, callData, sent>>
  BY DEF EraseEntry, Goto
<1>2. id \in Queries /\ (id \in StreamQueries => w = StreamWorker)
  BY <1>1, InHand DEF Inv
<1>3. DOMAIN pc = Workers /\ DOMAIN entry = Queries
  BY DEF Inv, WorkersOK, Tables
<1>4. /\ pc'[w] = "wait" /\ \A v \in Workers \ {w} : pc'[v] = pc[v]
      /\ ~entry'[id] /\ \A q \in Queries \ {id} : entry'[q] = entry[q]
  BY <1>1, <1>2, <1>3
<1>5. WorkersOK'
  BY <1>1, <1>2, <1>3, <1>4 DEF Inv, WorkersOK
<1>6. Tables'
  BY <1>1, <1>3 DEF Inv, Tables
<1>7. ASSUME NEW q \in UnaryQueries PROVE UnaryOK(q)'
  <2>1. q \in Queries /\ UnaryOK(q)
    BY DEF Queries, Inv
  <2>2. CASE q # id
    <3>1. \A v \in Workers : pc'[v] \in {"complete", "erase"} /\ response'[v].id = q
                             => pc[v] = pc'[v] /\ response[v].id = q
      BY <1>1, <1>4
    <3> QED BY <1>1, <1>4, <2>1, <2>2, <3>1, UnaryKept
  <2>3. CASE q = id
    <3>1. \A v \in Workers : ~(pc'[v] \in {"complete", "erase"} /\ response'[v].id = q)
      BY <1>1, <1>4, <2>1, <2>3 DEF UnaryOK, Completing
    <3> QED BY <1>1, <2>1, <3>1 DEF UnaryOK, Completing
  <2> QED BY <2>2, <2>3
<1>8. ASSUME NEW q \in StreamQueries PROVE StreamOK(q)'
  <2>1. q \in Queries /\ StreamOK(q)
    BY DEF Queries, Inv
  <2>2. CASE q = id
    <3>1. w = StreamWorker
      BY <1>2, <2>2
    <3> QED BY <1>1, <1>4, <2>1, <3>1 DEF StreamOK, StreamWorkerAt
  <2>3. CASE q # id
    <3>1. entry'[q] = entry[q]
      BY <1>4, <2>1, <2>3
    <3>2. CASE StreamWorker = w
      BY <1>1, <1>4, <2>1, <2>3, <3>1, <3>2, StreamKept
    <3>3. CASE StreamWorker # w
      BY <1>1, <1>4, <2>1, <3>1, <3>3 DEF StreamOK, StreamWorkerAt
    <3> QED BY <3>2, <3>3
  <2> QED BY <2>2, <2>3
<1> QED BY <1>5, <1>6, <1>7, <1>8 DEF Inv

\* A step of the completion queue thread that unlocks a stream's write_mutex,
\* or no step at all.
LEMMA NothingChanges ==
    ASSUME Inv, UNCHANGED <<toCome, entry, ranks, collisions, pc, response, callData, sent>>
    PROVE  Inv'
<1>1. WorkersOK'
  BY DEF Inv, WorkersOK
<1>2. Tables'
  BY DEF Inv, Tables
<1>3. ASSUME NEW q \in UnaryQueries PROVE UnaryOK(q)'
  BY UnaryKept DEF Inv
<1>4. ASSUME NEW q \in StreamQueries PROVE StreamOK(q)'
  BY StreamKept DEF Inv
<1> QED BY <1>1, <1>2, <1>3, <1>4 DEF Inv

\* Call data goes when its responder has finished, and nobody needs it then.
LEMMA CallFinishedInv ==
    ASSUME Inv, NEW id \in Queries, CallFinished(id)
    PROVE  Inv'
<1>1. /\ callData' = [callData EXCEPT ![id] = FALSE]
      /\ UNCHANGED <<toCome, entry, ranks, collisions, writeMutex, pc, response, sent>>
  BY DEF CallFinished
<1>2. ~callData'[id] /\ \A q \in Queries \ {id} : callData'[q] = callData[q]
  BY <1>1 DEF Inv, Tables
<1>3. WorkersOK'
  BY <1>1 DEF Inv, WorkersOK
<1>4. Tables'
  BY <1>1 DEF Inv, Tables
<1>5. ASSUME NEW q \in UnaryQueries PROVE UnaryOK(q)'
  <2>1. q \in Queries /\ UnaryOK(q)
    BY DEF Queries, Inv
  <2>2. CASE q # id
    BY <1>1, <1>2, <2>1, <2>2, UnaryKept
  <2>3. CASE q = id
    <3>1. sent[q] # <<>>
      BY <2>3, ClientAssumption DEF CallFinished
    <3> QED BY <1>1, <2>1, <3>1 DEF UnaryOK, Completing
  <2> QED BY <2>2, <2>3
<1>6. ASSUME NEW q \in StreamQueries PROVE StreamOK(q)'
  <2>1. q \in Queries /\ StreamOK(q)
    BY DEF Queries, Inv
  <2>2. CASE q # id
    BY <1>1, <1>2, <2>1, <2>2, StreamKept
  <2>3. CASE q = id
    <3>1. \E i \in 1 .. Len(sent[q]) : sent[q][i] = Finish
      BY <2>3, ClientAssumption DEF CallFinished
    <3>2. \A A : ~Written(sent[q], A)
      BY <3>1, WrittenFacts, EmptySeq
    <3>3. Ended(sent[q]) /\ ranks[q] = Ranks /\ ~StreamWorkerAt({"write"}, q)
      BY <2>1, <3>2 DEF StreamOK
    <3>4. ~StreamWorkerAt({"write", "check", "finish"}, q)
      BY <2>1, <3>3, EndedIsWhole DEF StreamOK
    <3> QED BY <1>1, <2>1, <3>3, <3>4 DEF StreamOK, StreamWorkerAt, Ended, Written, Elements
  <2> QED BY <2>2, <2>3
<1> QED BY <1>3, <1>4, <1>5, <1>6 DEF Inv

-----------------------------------------------------------------------------
(* The theorems *)

LEMMA NextInv == Inv /\ [MCNext]_vars => Inv'
<1> SUFFICES ASSUME Inv, [MCNext]_vars PROVE Inv'
  OBVIOUS
<1>1. ASSUME NEW w \in Workers, MCWorker(w) PROVE Inv'
  <2>1. CASE TakeResponse(w)
    BY <1>1, <2>1, TakeResponseInv
  <2>2. CASE RecordResponse(w)
    BY <2>2, RecordResponseInv
  <2>3. CASE CompleteRequest(w)
    BY <2>3, CompleteRequestInv
  <2>4. CASE Write(w)
    BY <2>4, WriteInv
  <2>5. CASE CheckAllPresent(w)
    BY <2>5, CheckAllPresentInv
  <2>6. CASE FinishStream(w)
    BY <2>6, FinishStreamInv
  <2>7. CASE EraseEntry(w)
    BY <2>7, EraseEntryInv
  <2> QED BY <1>1, <2>1, <2>2, <2>3, <2>4, <2>5, <2>6, <2>7 DEF MCWorker, ResponseWorker
<1>2. ASSUME CompletionQueue PROVE Inv'
  BY <1>2, NothingChanges, CallFinishedInv DEF CompletionQueue, WriteCompleted
<1>3. CASE UNCHANGED vars
  BY <1>3, NothingChanges DEF vars
<1> QED BY <1>1, <1>2, <1>3 DEF MCNext, Finished

LEMMA InvHolds == MCSpec => []Inv
BY InitInv, NextInv, PTL DEF MCSpec

\* What a client gets is whole, a unary call's answer and a stream's, however
\* the workers interleave and however often results arrive, while the results
\* of the streams are all taken by one worker.
THEOREM AnswersAreNeverPartial == MCSpec => []AnswersAreWhole
<1>1. ASSUME Inv PROVE AnswersAreWhole
  <2>1. UnaryAnswersAreWhole
    BY <1>1 DEF Inv, UnaryOK, Ones, UnaryAnswersAreWhole
  <2>2. ASSUME NEW q \in StreamQueries, NEW i \in 1 .. Len(sent[q]), sent[q][i] = Finish
        PROVE  i = Len(sent[q]) /\ Whole(SubSeq(sent[q], 1, i - 1))
    <3>1. StreamOK(q)
      BY <1>1 DEF Inv
    <3>2. Ended(sent[q])
      BY <2>2, <3>1, WrittenFacts, EmptySeq DEF StreamOK
    <3> QED BY <2>2, <3>2, EndedIsWhole
  <2> QED BY <2>1, <2>2 DEF AnswersAreWhole, StreamAnswersAreWhole
<1> QED BY <1>1, InvHolds, PTL

\* No worker holds on to an entry that another has erased or to call data that
\* the completion queue thread has deleted, though neither thread holds the
\* mutex meanwhile.
THEOREM NothingIsUsedAfterFree == MCSpec => []NoUseAfterFree
<1>1. ASSUME Inv, NEW w \in Workers
      PROVE  LET id == response[w].id
             IN  /\ pc[w] \in {"complete", "write", "check", "finish", "erase"} => entry[id]
                 /\ pc[w] \in {"complete", "write", "finish"} => callData[id]
  <2> PICK id : id = response[w].id
    OBVIOUS
  <2>1. CASE pc[w] \in {"complete", "write", "check", "finish", "erase"}
    <3>1. id \in Queries /\ (id \in StreamQueries => w = StreamWorker)
      BY <1>1, <2>1, InHand DEF Inv
    <3>2. CASE id \in UnaryQueries
      <4>1. pc[w] \in {"complete", "erase"}
        BY <1>1, <2>1, <3>2, ClientAssumption DEF Inv, WorkersOK
      <4>2. w \in Completing(id) /\ UnaryOK(id)
        BY <1>1, <3>2, <4>1 DEF Inv, Completing
      <4> QED BY <4>1, <4>2 DEF UnaryOK
    <3>3. CASE id \in StreamQueries
      <4>1. pc[w] \in {"write", "check", "finish", "erase"} /\ w = StreamWorker /\ StreamOK(id)
        BY <1>1, <2>1, <3>1, <3>3, ClientAssumption DEF Inv, WorkersOK
      <4> QED BY <4>1 DEF StreamOK, StreamWorkerAt
    <3> QED BY <3>1, <3>2, <3>3 DEF Queries
  <2> QED BY <2>1
<1>2. Inv => NoUseAfterFree
  BY <1>1 DEF NoUseAfterFree
<1> QED BY <1>2, InvHolds, PTL
=============================================================================
