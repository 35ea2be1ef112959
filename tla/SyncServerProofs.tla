-------------------------- MODULE SyncServerProofs ---------------------------
(***************************************************************************)
(* For any number of ranks and clients, any neighbours, failed calls and   *)
(* restarts of rank 0: no rank is in an answer twice; if every rank can be *)
(* reached, an answer none of whose calls has failed is whole; and what is *)
(* still to do for a query only becomes less, while something can always   *)
(* be done for a client that waits.                                        *)
(***************************************************************************)
EXTENDS SyncServer, SequenceTheorems, FiniteSetTheorems, TLAPS

(* The invariant *)

\* From rank 0, where no path comes back to.
Paths == {p \in Seq(Ranks) : Len(p) > 0 /\ \A i \in 1 .. Len(p) : p[i] = 0 <=> i = 1}

Routes == [client : Clients, path : Paths]

IsFrame(f) == /\ f.id \in Nat /\ f.next \in Nat \ {0} /\ f.waiting \in BOOLEAN
              /\ f.collected \in [Ranks -> Nat]

States == {"none", "called", "answered", "error"}

TypeOK ==
    /\ counter \in Nat /\ restarts \in Nat /\ hurt \subseteq Clients
    /\ processedQueries \in [Ranks -> SUBSET Nat]
    /\ calls \subseteq [key : Routes, id : Nat]
    /\ DOMAIN frames \subseteq Routes
    /\ \A k \in DOMAIN frames : IsFrame(frames[k])
    /\ answers \in [Clients -> [state : States, results : [Ranks -> Nat]]]

\* A frame that waits has a neighbour it waits for.
LoopOK ==
    \A k \in DOMAIN frames : frames[k].waiting => frames[k].next <= Len(logical_neighbors[RankOf(k)])

IsRoot(key) == Len(key.path) = 1

\* What is done for a client is done after its call and, by rank 0, before its answer.
WorksForCallers ==
    /\ \A call \in calls :
          /\ answers[call.key.client].state # "none"
          /\ IsRoot(call.key) => answers[call.key.client].state = "called"
    /\ \A k \in DOMAIN frames :
          /\ answers[k.client].state # "none"
          /\ IsRoot(k) => answers[k.client].state = "called"

\* Nothing is done for a client before rank 0 has taken its call.
BeginsWithRoot ==
    \A call \in calls : IsRoot(call.key) =>
        /\ \A other \in calls : other.key.client = call.key.client => other = call
        /\ \A k \in DOMAIN frames : k.client # call.key.client

\* A client's query keeps its number.
OneNumber ==
    /\ \A k, l \in DOMAIN frames : k.client = l.client => frames[k].id = frames[l].id
    /\ \A call \in calls : \A k \in DOMAIN frames :
          call.key.client = k.client => call.id = frames[k].id
    /\ \A call, other \in calls : call.key.client = other.key.client => call.id = other.id

\* A rank is in what a frame has collected once at most, and only after it has
\* remembered the query; a frame's own rank has.
CollectedOnce ==
    \A k \in DOMAIN frames :
        /\ ~IsRoot(k) => frames[k].id \in processedQueries[RankOf(k)]
        /\ \A r \in Ranks :
              /\ frames[k].collected[r] <= 1
              /\ frames[k].collected[r] = 1 =>
                    IF r = 0 THEN IsRoot(k) ELSE frames[k].id \in processedQueries[r]

\* Two frames of a client have not collected the same rank.
CollectedApart ==
    \A k, l \in DOMAIN frames : k.client = l.client /\ k # l =>
        \A r \in Ranks : frames[k].collected[r] = 0 \/ frames[l].collected[r] = 0

AnsweredOnce == \A c \in Clients : Answered(c) => \A r \in Ranks : answers[c].results[r] <= 1

Once ==
    /\ TypeOK /\ LoopOK /\ WorksForCallers /\ BeginsWithRoot /\ OneNumber
    /\ CollectedOnce /\ CollectedApart /\ AnsweredOnce
-----------------------------------------------------------------------------
(* What holds besides of a client whose calls have not failed, before the    *)
(* first restart.                                                            *)

\* Two queries have different numbers, of which none was given before.
NumbersDiffer ==
    /\ \A r \in Ranks : \A id \in processedQueries[r] : id < counter
    /\ \A k \in DOMAIN frames : frames[k].id < counter
    /\ \A call \in calls : ~IsRoot(call.key) => call.id < counter
    /\ \A k, l \in DOMAIN frames : frames[k].id = frames[l].id => k.client = l.client
    /\ \A call \in calls, k \in DOMAIN frames :
          ~IsRoot(call.key) /\ call.id = frames[k].id => call.key.client = k.client
    /\ \A call, other \in calls :
          ~IsRoot(call.key) /\ ~IsRoot(other.key) /\ call.id = other.id =>
              call.key.client = other.key.client

\* One thing is done at a time: every frame but the one with the longest path waits.
OneAtATime(c) ==
    /\ \A k, l \in DOMAIN frames : k.client = c /\ l.client = c =>
          /\ k # l => Len(k.path) # Len(l.path)
          /\ Len(k.path) < Len(l.path) => frames[k].waiting
    /\ \A call \in calls, k \in DOMAIN frames : call.key.client = c /\ k.client = c =>
          Len(k.path) < Len(call.key.path) /\ frames[k].waiting
    /\ \A call, other \in calls : call.key.client = c /\ other.key.client = c => call = other

\* Somebody waits for whatever is done.
AllAwaited(c) ==
    /\ \A k \in DOMAIN frames : k.client = c /\ ~IsRoot(k) => Awaited(k)
    /\ \A call \in calls : call.key.client = c /\ ~IsRoot(call.key) => Awaited(call.key)

\* The query that rank 0 handles in frame k has come to rank r.
Reached(k, r) == r = 0 \/ frames[k].id \in processedQueries[r]

\* The results of the ranks the query has reached are with its frames.
ResultsKept(c) ==
    \A root \in DOMAIN frames : root.client = c /\ IsRoot(root) =>
        \A r \in Ranks : Reached(root, r) =>
            \E k \in DOMAIN frames : k.client = c /\ frames[k].collected[r] = 1

\* Whoever is next to a rank the query has reached was reached, too, or is
\* still to be called from there.
NeighboursReached(c) ==
    \A root \in DOMAIN frames : root.client = c /\ IsRoot(root) =>
        \A r \in Ranks : Reached(root, r) =>
            \A i \in 1 .. Len(logical_neighbors[r]) :
                \/ Reached(root, logical_neighbors[r][i])
                \/ \E k \in DOMAIN frames :
                      k.client = c /\ RankOf(k) = r /\ frames[k].next <= i

AnsweredWhole(c) == Answered(c) => answers[c].results = [r \in Ranks |-> 1]

ClientOK(c) ==
    OneAtATime(c) /\ AllAwaited(c) /\ ResultsKept(c) /\ NeighboursReached(c) /\ AnsweredWhole(c)

Unharmed ==
    restarts = 0 => NumbersDiffer /\ \A c \in Clients \ hurt : ClientOK(c)

-----------------------------------------------------------------------------
(* Paths *)

LEMMA RankFacts ==
    /\ NumRanks \in Nat \ {0} /\ 0 \in Ranks /\ Ranks \subseteq Nat
    /\ \A r \in Ranks : logical_neighbors[r] \in Seq(Ranks \ {0})
BY SyncAssumption DEF Ranks

LEMMA PathFacts ==
    ASSUME NEW p \in Paths
    PROVE  /\ p \in Seq(Ranks) /\ Len(p) \in Nat \ {0}
           /\ Last(p) \in Ranks /\ (Last(p) = 0 <=> Len(p) = 1)
<1>1. p \in Seq(Ranks) /\ Len(p) \in Nat \ {0} /\ Len(p) \in 1 .. Len(p)
  BY DEF Paths
<1> QED BY <1>1, ElementOfSeq DEF Paths, Last

LEMMA ExtendedPath ==
    ASSUME NEW p \in Paths, NEW n \in Ranks \ {0}
    PROVE  /\ Append(p, n) \in Paths /\ Len(Append(p, n)) = Len(p) + 1
           /\ Front(Append(p, n)) = p /\ Last(Append(p, n)) = n
<1>1. p \in Seq(Ranks) /\ Len(p) \in Nat \ {0} /\ \A i \in 1 .. Len(p) : p[i] = 0 <=> i = 1
  BY DEF Paths
<1>2. /\ Append(p, n) \in Seq(Ranks) /\ Len(Append(p, n)) = Len(p) + 1
      /\ \A i \in 1 .. Len(p) : Append(p, n)[i] = p[i]
      /\ Append(p, n)[Len(p) + 1] = n
  BY <1>1
<1>3. \A i \in 1 .. Len(p) + 1 : Append(p, n)[i] = 0 <=> i = 1
  BY <1>1, <1>2
<1>4. Front(Append(p, n)) = p
  <2>1. /\ Front(Append(p, n)) \in Seq(Ranks) /\ Len(Front(Append(p, n))) = Len(p)
        /\ \A i \in 1 .. Len(p) : Front(Append(p, n))[i] = Append(p, n)[i]
    BY <1>1, <1>2, SubSeqProperties DEF Front
  <2> QED BY <1>1, <1>2, <2>1, SeqEqual
<1>5. Append(p, n) \in Paths
  <2> DEFINE q == Append(p, n)
  <2>1. q \in Seq(Ranks) /\ Len(q) = Len(p) + 1 /\ \A i \in 1 .. Len(p) + 1 : q[i] = 0 <=> i = 1
    BY <1>2, <1>3
  <2> HIDE DEF q
  <2>2. Len(q) > 0 /\ \A i \in 1 .. Len(q) : q[i] = 0 <=> i = 1
    BY <1>1, <2>1
  <2>3. q \in Paths
    BY <2>1, <2>2, Zenon DEF Paths
  <2> QED BY <2>3 DEF q
<1> QED BY <1>1, <1>2, <1>4, <1>5 DEF Last

LEMMA ShortenedPath ==
    ASSUME NEW p \in Paths, Len(p) # 1
    PROVE  Front(p) \in Paths /\ Len(Front(p)) = Len(p) - 1
<1>0. Len(p) \in Nat /\ Len(p) # 0 /\ Len(p) # 1
  BY DEF Paths
<1>1. p \in Seq(Ranks) /\ Len(p) \in Nat \ {0} /\ \A i \in 1 .. Len(p) : p[i] = 0 <=> i = 1
  BY DEF Paths
<1>2. \A i \in 1 .. Len(p) - 1 : p[i] \in Ranks
  BY <1>1, ElementOfSeq
<1>3. /\ Front(p) \in Seq(Ranks) /\ Len(Front(p)) = Len(p) - 1
      /\ \A i \in 1 .. Len(p) - 1 : Front(p)[i] = p[i]
  <2> DEFINE n == Len(p) - 1
  <2>1. n \in Nat /\ 1 <= n /\ n - 1 + 1 = n
    <3>1. \A m \in Nat : m # 0 /\ m # 1 => m - 1 \in Nat /\ 1 <= m - 1 /\ (m - 1) - 1 + 1 = m - 1
      OBVIOUS
    <3> QED BY <1>0, <3>1
  <2> HIDE DEF n
  <2>2. /\ SubSeq(p, 1, n) \in Seq(Ranks) /\ Len(SubSeq(p, 1, n)) = n
        /\ \A i \in 1 .. n : SubSeq(p, 1, n)[i] = p[i]
    <3>1. \A i \in 1 .. n : p[i] \in Ranks
      BY <1>2 DEF n
    <3>2. /\ SubSeq(p, 1, n) \in Seq(Ranks) /\ Len(SubSeq(p, 1, n)) = IF 1 <= n THEN n - 1 + 1 ELSE 0
          /\ \A i \in 1 .. n - 1 + 1 : SubSeq(p, 1, n)[i] = p[1 + i - 1]
      BY <2>1, <3>1, SubSeqProperties
    <3> QED BY <2>1, <3>2
  <2> QED BY <2>2 DEF Front, n
<1> QED BY <1>1, <1>3 DEF Paths

LEMMA RouteFacts ==
    ASSUME NEW k \in Routes
    PROVE  /\ k.client \in Clients /\ k.path \in Paths
           /\ RankOf(k) \in Ranks /\ (RankOf(k) = 0 <=> IsRoot(k))
           /\ Len(k.path) \in Nat \ {0}
BY PathFacts DEF Routes, RankOf, IsRoot

\* Two roots of a client are one.
LEMMA OneRoot ==
    ASSUME NEW k \in Routes, NEW l \in Routes, k.client = l.client, IsRoot(k), IsRoot(l)
    PROVE  k = l
<1>1. /\ k.path \in Seq(Ranks) /\ l.path \in Seq(Ranks) /\ Len(k.path) = 1 /\ Len(l.path) = 1
      /\ k.path[1] = 0 /\ l.path[1] = 0
  BY DEF Routes, Paths, IsRoot
<1>2. k.path = l.path
  BY <1>1, SeqEqual
<1> QED BY <1>2 DEF Routes

\* Whom a frame calls.
LEMMA CalledByFacts ==
    ASSUME TypeOK, NEW k \in DOMAIN frames, frames[k].next <= Len(logical_neighbors[RankOf(k)])
    PROVE  /\ CalledBy(k) \in Routes /\ CalledBy(k).client = k.client
           /\ Len(CalledBy(k).path) = Len(k.path) + 1 /\ ~IsRoot(CalledBy(k))
           /\ [CalledBy(k) EXCEPT !.path = Front(@)] = k
           /\ RankOf(CalledBy(k)) = logical_neighbors[RankOf(k)][frames[k].next]
           /\ frames[k].next \in 1 .. Len(logical_neighbors[RankOf(k)])
<1>1. k \in Routes /\ IsFrame(frames[k])
  BY DEF TypeOK
<1>2. frames[k].next \in 1 .. Len(logical_neighbors[RankOf(k)])
  BY <1>1, RouteFacts, RankFacts DEF IsFrame
<1>3. Neighbour(k) \in Ranks \ {0}
  BY <1>1, <1>2, RouteFacts, RankFacts, ElementOfSeq DEF Neighbour
<1>4. k.path \in Paths /\ k = [client |-> k.client, path |-> k.path] /\ k.client \in Clients
  BY <1>1 DEF Routes
<1>5. CalledBy(k) = [client |-> k.client, path |-> Append(k.path, Neighbour(k))]
  <2>1. PICK c, p : k = [client |-> c, path |-> p]
    BY <1>4
  <2>2. PICK n : n = Neighbour(k)
    OBVIOUS
  <2>3. CalledBy(k) = [k EXCEPT !.path = Append(k.path, n)]
    BY <2>2 DEF CalledBy
  <2> QED BY <2>1, <2>2, <2>3
<1> QED BY <1>2, <1>3, <1>4, <1>5, ExtendedPath, PathFacts DEF Routes, IsRoot, RankOf, Neighbour

-----------------------------------------------------------------------------
(* What the steps do to the frames *)

Caller(key) == [client |-> key.client, path |-> Front(key.path)]

LEMMA CallerFacts ==
    ASSUME NEW key \in Routes, ~IsRoot(key)
    PROVE  /\ Caller(key) \in Routes /\ Caller(key) = [key EXCEPT !.path = Front(@)]
           /\ Caller(key).client = key.client /\ Len(Caller(key).path) = Len(key.path) - 1
           /\ Caller(key) # key
<1>1. /\ key.path \in Paths /\ key.client \in Clients
      /\ key = [client |-> key.client, path |-> key.path] /\ Len(key.path) # 1
  BY DEF Routes, IsRoot
<1>2. Front(key.path) \in Paths /\ Len(Front(key.path)) = Len(key.path) - 1 /\ Len(key.path) \in Nat
  BY <1>1, ShortenedPath, PathFacts
<1>3. Caller(key) = [key EXCEPT !.path = Front(@)]
  BY <1>1 DEF Caller
<1> QED BY <1>1, <1>2, <1>3 DEF Caller, Routes

\* A call has come back to a frame.
LEMMA ResumedFacts ==
    ASSUME NEW f, IsFrame(f), NEW results \in [Ranks -> Nat]
    PROVE  /\ IsFrame(Resumed(f, results))
           /\ Resumed(f, results).id = f.id /\ ~Resumed(f, results).waiting
           /\ Resumed(f, results).next = f.next + 1
           /\ \A r \in Ranks : Resumed(f, results).collected[r] = f.collected[r] + results[r]
<1>1. /\ Added(f.collected, results) \in [Ranks -> Nat]
      /\ \A r \in Ranks : Added(f.collected, results)[r] = f.collected[r] + results[r]
  BY DEF Added, IsFrame
<1>2. /\ Resumed(f, results).id = f.id /\ Resumed(f, results).waiting = FALSE
      /\ Resumed(f, results).next = f.next + 1
      /\ Resumed(f, results).collected = Added(f.collected, results)
  BY DEF Resumed, IsFrame
<1>3. f.id \in Nat /\ f.next + 1 \in Nat \ {0}
  BY DEF IsFrame
<1>4. IsFrame(Resumed(f, results))
  BY <1>1, <1>2, <1>3 DEF IsFrame
<1> QED BY <1>1, <1>2, <1>4

\* A handler replies: its frame is gone, if there was one, and whoever still
\* waits for it resumes.
LEMMA ReplyFacts ==
    ASSUME TypeOK, NEW key \in Routes, NEW results \in [Ranks -> Nat], Reply(key, results)
    PROVE  /\ DOMAIN frames' = DOMAIN frames \ {key}
           /\ IsRoot(key) =>
                 /\ answers' = [answers EXCEPT ![key.client] = [state |-> "answered", results |-> results]]
                 /\ \A k \in DOMAIN frames' : frames'[k] = frames[k]
           /\ ~IsRoot(key) =>
                 /\ answers' = answers
                 /\ Awaited(key) <=> /\ Caller(key) \in DOMAIN frames'
                                     /\ frames[Caller(key)].waiting /\ CalledBy(Caller(key)) = key
                 /\ \A k \in DOMAIN frames' :
                       frames'[k] = IF k = Caller(key) /\ Awaited(key)
                                    THEN Resumed(frames[k], results) ELSE frames[k]
<1> DEFINE others == [k \in DOMAIN frames \ {key} |-> frames[k]]
<1>1. CASE IsRoot(key)
  BY <1>1 DEF Reply, IsRoot
<1>2. CASE ~IsRoot(key)
  <2>1. Caller(key) = [key EXCEPT !.path = Front(@)] /\ Caller(key) # key
    BY <1>2, CallerFacts
  <2>2. /\ answers' = answers
        /\ frames' = IF Awaited(key) THEN [others EXCEPT ![Caller(key)] = Resumed(@, results)] ELSE others
    BY <1>2, <2>1 DEF Reply, IsRoot
  <2>3. Awaited(key) <=> /\ Caller(key) \in DOMAIN frames
                         /\ frames[Caller(key)].waiting /\ CalledBy(Caller(key)) = key
    BY <2>1 DEF Awaited
  <2>4. DOMAIN frames' = DOMAIN frames \ {key}
    BY <2>2
  <2>5. \A k \in DOMAIN frames' :
           frames'[k] = IF k = Caller(key) /\ Awaited(key) THEN Resumed(frames[k], results) ELSE frames[k]
    BY <2>2, <2>3, <2>4
  <2> QED BY <1>2, <2>1, <2>2, <2>3, <2>4, <2>5
<1> QED BY <1>1, <1>2

LEMMA BeginFacts ==
    ASSUME TypeOK, NEW call \in calls, NEW id \in Nat, Begin(call, id)
    PROVE  /\ calls' = calls \ {call}
           /\ DOMAIN frames' = DOMAIN frames \cup {call.key}
           /\ IsFrame(frames'[call.key])
           /\ frames'[call.key].id = id /\ frames'[call.key].next = 1 /\ ~frames'[call.key].waiting
           /\ \A r \in Ranks : frames'[call.key].collected[r] = IF r = RankOf(call.key) THEN 1 ELSE 0
           /\ \A k \in DOMAIN frames : k # call.key => frames'[k] = frames[k]
<1>1. call.key \in Routes /\ RankOf(call.key) \in Ranks
  BY RouteFacts DEF TypeOK
<1> DEFINE f == [id |-> id, next |-> 1, waiting |-> FALSE,
                 collected |-> [Nothing EXCEPT ![RankOf(call.key)] = 1]]
<1>2. /\ DOMAIN frames' = DOMAIN frames \cup {call.key} /\ frames'[call.key] = f
      /\ \A k \in DOMAIN frames : k # call.key => frames'[k] = frames[k]
  BY DEF Begin
<1>3. f.collected \in [Ranks -> Nat] /\ \A r \in Ranks : f.collected[r] = IF r = RankOf(call.key) THEN 1 ELSE 0
  BY <1>1 DEF Nothing
<1>4. IsFrame(f)
  BY <1>3 DEF IsFrame
<1> QED BY <1>2, <1>3, <1>4 DEF Begin

-----------------------------------------------------------------------------
(* No rank is in an answer twice *)

\* Nothing that is not done already is begun for anybody.
LEMMA NothingBegins ==
    ASSUME Once, calls' \subseteq calls, DOMAIN frames' \subseteq DOMAIN frames,
           \A k \in DOMAIN frames' : frames'[k].id = frames[k].id
    PROVE  BeginsWithRoot' /\ OneNumber'
BY DEF Once, BeginsWithRoot, OneNumber, IsRoot

\* A reply moves what a frame has collected to the one before it, or nothing.
LEMMA ReplyKeepsOnce ==
    ASSUME Once, NEW key \in Routes, NEW results \in [Ranks -> Nat], Reply(key, results),
           \/ key \in DOMAIN frames /\ results = frames[key].collected
           \/ ~IsRoot(key) /\ results = Nothing,
           calls' \subseteq calls,
           UNCHANGED <<counter, processedQueries, failures, restarts, hurt>>
    PROVE  Once'
<1> DEFINE resumed(k) == ~IsRoot(key) /\ k = Caller(key) /\ Awaited(key)
<1>1. TypeOK
  BY DEF Once
<1>2. /\ DOMAIN frames' = DOMAIN frames \ {key}
      /\ \A k \in DOMAIN frames' :
            frames'[k] = IF resumed(k) THEN Resumed(frames[k], results) ELSE frames[k]
      /\ IsRoot(key) =>
            answers' = [answers EXCEPT ![key.client] = [state |-> "answered", results |-> results]]
      /\ ~IsRoot(key) => answers' = answers
  <2>1. CASE IsRoot(key)
    BY <1>1, <2>1, ReplyFacts
  <2>2. CASE ~IsRoot(key)
    BY <1>1, <2>2, ReplyFacts
  <2> QED BY <2>1, <2>2
<1>3. \A k \in DOMAIN frames' :
         /\ k \in Routes /\ k \in DOMAIN frames /\ k # key /\ IsFrame(frames[k]) /\ IsFrame(frames'[k])
         /\ frames'[k].id = frames[k].id
         /\ frames'[k].waiting => frames[k].waiting /\ frames'[k].next = frames[k].next
         /\ \A r \in Ranks : frames'[k].collected[r] =
               IF resumed(k) THEN frames[k].collected[r] + results[r] ELSE frames[k].collected[r]
  BY <1>1, <1>2, ResumedFacts DEF TypeOK
<1>4. \A k \in DOMAIN frames' : resumed(k) => k.client = key.client
  BY CallerFacts
<1>5. BeginsWithRoot' /\ OneNumber'
  BY <1>2, <1>3, NothingBegins
<1>6. TypeOK'
  <2>1. answers' \in [Clients -> [state : States, results : [Ranks -> Nat]]]
    <3>1. [state |-> "answered", results |-> results] \in [state : States, results : [Ranks -> Nat]]
      BY DEF States
    <3> QED BY <1>1, <1>2, <3>1 DEF TypeOK
  <2> QED BY <1>1, <1>2, <1>3, <2>1 DEF TypeOK
<1>7. LoopOK'
  BY <1>3 DEF LoopOK, Once
<1>8. WorksForCallers'
  <2>1. CASE IsRoot(key)
    <3>1. key \in DOMAIN frames /\ key.client \in Clients
      BY <2>1, RouteFacts
    <3>2. \A call \in calls : IsRoot(call.key) => call.key.client # key.client
      BY <3>1 DEF Once, BeginsWithRoot
    <3>3. \A k \in DOMAIN frames' : IsRoot(k) => k.client # key.client
      BY <1>3, <2>1, OneRoot
    <3>4. \A c \in Clients : answers'[c].state = IF c = key.client THEN "answered" ELSE answers[c].state
      BY <1>1, <1>2, <2>1, <3>1 DEF TypeOK
    <3>5. \A call \in calls : call.key.client \in Clients
      BY <1>1, RouteFacts DEF TypeOK
    <3>6. \A k \in DOMAIN frames' : k.client \in Clients
      BY <1>3, RouteFacts
    <3> QED BY <1>2, <3>2, <3>3, <3>4, <3>5, <3>6 DEF Once, WorksForCallers, IsRoot
  <2>2. CASE ~IsRoot(key)
    BY <1>2, <2>2 DEF Once, WorksForCallers, IsRoot
  <2> QED BY <2>1, <2>2
<1>9. \A r \in Ranks : results[r] \in Nat /\ results[r] <= 1
  BY DEF Once, CollectedOnce, Nothing
<1>10. \A k \in DOMAIN frames' : \A r \in Ranks :
          k.client = key.client => results[r] = 0 \/ frames[k].collected[r] = 0
  BY <1>3 DEF Once, CollectedApart, Nothing
<1>11. \A k \in DOMAIN frames' : \A r \in Ranks :
          resumed(k) /\ results[r] = 1 => r # 0 /\ frames[k].id \in processedQueries[r]
  BY <1>3, <1>4 DEF Once, CollectedOnce, OneNumber, Nothing
<1>12. CollectedOnce'
  <2> SUFFICES ASSUME NEW k \in DOMAIN frames'
               PROVE  /\ ~IsRoot(k) => frames'[k].id \in processedQueries[RankOf(k)]
                      /\ \A r \in Ranks :
                            /\ frames'[k].collected[r] <= 1
                            /\ frames'[k].collected[r] = 1 =>
                                  IF r = 0 THEN IsRoot(k) ELSE frames'[k].id \in processedQueries[r]
    BY DEF CollectedOnce, IsRoot, RankOf
  <2>1. \A r \in Ranks : frames[k].collected[r] \in Nat
    BY <1>3 DEF IsFrame
  <2>2. /\ ~IsRoot(k) => frames[k].id \in processedQueries[RankOf(k)]
        /\ \A r \in Ranks :
              /\ frames[k].collected[r] <= 1
              /\ frames[k].collected[r] = 1 =>
                    IF r = 0 THEN IsRoot(k) ELSE frames[k].id \in processedQueries[r]
    BY <1>3 DEF Once, CollectedOnce
  <2>3. CASE resumed(k)
    BY <1>3, <1>4, <1>9, <1>10, <1>11, <2>1, <2>2, <2>3
  <2>4. CASE ~resumed(k)
    BY <1>3, <2>2, <2>4
  <2> QED BY <2>3, <2>4
<1>13. CollectedApart'
  <2> SUFFICES ASSUME NEW k \in DOMAIN frames', NEW l \in DOMAIN frames', k.client = l.client, k # l,
                      NEW r \in Ranks
               PROVE  frames'[k].collected[r] = 0 \/ frames'[l].collected[r] = 0
    BY DEF CollectedApart
  <2>1. frames[k].collected[r] = 0 \/ frames[l].collected[r] = 0
    BY <1>3 DEF Once, CollectedApart
  <2> QED BY <1>3, <1>4, <1>10, <2>1
<1>14. AnsweredOnce'
  <2> SUFFICES ASSUME NEW c \in Clients, answers'[c].state = "answered", NEW r \in Ranks
               PROVE  answers'[c].results[r] <= 1
    BY DEF AnsweredOnce, Answered
  <2> QED BY <1>1, <1>2, <1>9 DEF Once, AnsweredOnce, Answered, TypeOK
<1> QED BY <1>5, <1>6, <1>7, <1>8, <1>12, <1>13, <1>14 DEF Once

\* A handler begins whose rank nobody has collected for the client.
LEMMA BeginKeepsOnce ==
    ASSUME Once, NEW call \in calls, NEW id \in Nat, Begin(call, id),
           IsRoot(call.key) \/ id = call.id,
           \A k \in DOMAIN frames : k.client = call.key.client =>
               k # call.key /\ frames[k].collected[RankOf(call.key)] = 0,
           counter' \in Nat,
           processedQueries' \in [Ranks -> SUBSET Nat],
           \A r \in Ranks : processedQueries[r] \subseteq processedQueries'[r],
           ~IsRoot(call.key) => id \in processedQueries'[RankOf(call.key)]
    PROVE  Once'
<1>1. TypeOK /\ call.key \in Routes /\ RankOf(call.key) \in Ranks /\ 0 \in Ranks
      /\ (RankOf(call.key) = 0 <=> IsRoot(call.key))
  BY RouteFacts, RankFacts DEF Once, TypeOK
<1>2. /\ calls' = calls \ {call} /\ answers' = answers /\ restarts' = restarts /\ hurt' = hurt
      /\ DOMAIN frames' = DOMAIN frames \cup {call.key} /\ call.key \notin DOMAIN frames
      /\ \A k \in DOMAIN frames : frames'[k] = frames[k]
      /\ IsFrame(frames'[call.key]) /\ frames'[call.key].id = id /\ ~frames'[call.key].waiting
      /\ \A r \in Ranks : frames'[call.key].collected[r] = IF r = RankOf(call.key) THEN 1 ELSE 0
  <2>1. call.key \notin DOMAIN frames
    OBVIOUS
  <2>2. answers' = answers /\ restarts' = restarts /\ hurt' = hurt
    BY DEF Begin
  <2>3. /\ calls' = calls \ {call} /\ DOMAIN frames' = DOMAIN frames \cup {call.key}
        /\ \A k \in DOMAIN frames : k # call.key => frames'[k] = frames[k]
        /\ IsFrame(frames'[call.key]) /\ frames'[call.key].id = id /\ ~frames'[call.key].waiting
        /\ \A r \in Ranks : frames'[call.key].collected[r] = IF r = RankOf(call.key) THEN 1 ELSE 0
    BY <1>1, BeginFacts
  <2> QED BY <2>1, <2>2, <2>3
<1>3. \A k \in DOMAIN frames : k \in Routes /\ IsFrame(frames[k])
  BY <1>1 DEF TypeOK
<1>4. TypeOK' /\ LoopOK' /\ AnsweredOnce'
  BY <1>1, <1>2 DEF Once, TypeOK, LoopOK, AnsweredOnce, Answered
<1>5. WorksForCallers'
  BY <1>2 DEF Once, WorksForCallers, IsRoot
<1>6. BeginsWithRoot'
  BY <1>2 DEF Once, BeginsWithRoot, IsRoot
<1>7. OneNumber'
  <2>1. CASE IsRoot(call.key)
    <3>1. /\ \A other \in calls \ {call} : other.key.client # call.key.client
          /\ \A k \in DOMAIN frames : k.client # call.key.client
      BY <2>1 DEF Once, BeginsWithRoot
    <3> QED BY <1>2, <3>1 DEF Once, OneNumber
  <2>2. CASE id = call.id
    BY <1>2, <2>2 DEF Once, OneNumber
  <2> QED BY <2>1, <2>2
<1>8. CollectedOnce'
  <2> SUFFICES ASSUME NEW k \in DOMAIN frames'
               PROVE  /\ ~IsRoot(k) => frames'[k].id \in processedQueries'[RankOf(k)]
                      /\ \A r \in Ranks :
                            /\ frames'[k].collected[r] <= 1
                            /\ frames'[k].collected[r] = 1 =>
                                  IF r = 0 THEN IsRoot(k) ELSE frames'[k].id \in processedQueries'[r]
    BY DEF CollectedOnce, IsRoot, RankOf
  <2>1. CASE k = call.key
    BY <1>1, <1>2, <2>1
  <2>2. CASE k \in DOMAIN frames
    <3>1. RankOf(k) \in Ranks
      BY <1>3, <2>2, RouteFacts
    <3> QED BY <1>2, <2>2, <3>1 DEF Once, CollectedOnce
  <2> QED BY <1>2, <2>1, <2>2
<1>9. CollectedApart'
  <2> SUFFICES ASSUME NEW k \in DOMAIN frames', NEW l \in DOMAIN frames', k.client = l.client, k # l,
                      NEW r \in Ranks
               PROVE  frames'[k].collected[r] = 0 \/ frames'[l].collected[r] = 0
    BY DEF CollectedApart
  <2>1. CASE k = call.key \/ l = call.key
    BY <1>1, <1>2, <2>1
  <2>2. CASE k # call.key /\ l # call.key
    BY <1>2, <2>2 DEF Once, CollectedApart
  <2> QED BY <2>1, <2>2
<1> QED BY <1>4, <1>5, <1>6, <1>7, <1>8, <1>9 DEF Once

LEMMA OnceInit == Init => Once
<1> SUFFICES ASSUME Init PROVE Once
  OBVIOUS
<1>1. TypeOK
  <2>1. Nothing \in [Ranks -> Nat]
    BY RankFacts DEF Nothing
  <2>2. [state |-> "none", results |-> Nothing] \in [state : States, results : [Ranks -> Nat]]
    BY <2>1 DEF States
  <2> QED BY <2>2 DEF Init, TypeOK
<1> QED BY <1>1 DEF Init, Once, LoopOK, WorksForCallers, BeginsWithRoot, OneNumber, CollectedOnce,
                        CollectedApart, AnsweredOnce, Answered

LEMMA OnceStep == Once /\ [Next]_vars => Once'
<1> SUFFICES ASSUME Once, [Next]_vars PROVE Once'
  OBVIOUS
<1>0. TypeOK /\ LoopOK
  BY DEF Once
<1>1. \A call \in calls : call.key \in Routes /\ call.id \in Nat /\ RankOf(call.key) \in Ranks
                          /\ (RankOf(call.key) = 0 <=> IsRoot(call.key))
  BY <1>0, RouteFacts DEF TypeOK
<1>2. \A k \in DOMAIN frames : k \in Routes /\ IsFrame(frames[k])
  BY <1>0 DEF TypeOK
<1>3. Nothing \in [Ranks -> Nat]
  BY DEF Nothing
<1>4. ASSUME NEW c \in Clients, Submit(c) PROVE Once'
  <2> DEFINE call == [key |-> [client |-> c, path |-> <<0>>], id |-> 1]
  <2>1. /\ calls' = calls \cup {call} /\ call.key.client = c /\ IsRoot(call.key)
        /\ frames' = frames /\ processedQueries' = processedQueries
        /\ answers' = [answers EXCEPT ![c].state = "called"] /\ answers[c].state = "none"
    BY <1>4 DEF Submit, IsRoot
  <2>2. call \in [key : Routes, id : Nat]
    BY RankFacts DEF Routes, Paths
  <2>3. \A d \in Clients : /\ answers'[d].state = IF d = c THEN "called" ELSE answers[d].state
                           /\ answers'[d].results = answers[d].results
    BY <1>0, <2>1 DEF TypeOK
  <2>4. TypeOK'
    <3>1. answers' \in [Clients -> [state : States, results : [Ranks -> Nat]]]
      BY <1>0, <2>1 DEF TypeOK, States
    <3> HIDE DEF call
    <3> QED BY <1>0, <1>4, <2>1, <2>2, <3>1 DEF TypeOK, Submit
  <2>5. /\ \A other \in calls : other.key.client # c /\ other.key.client \in Clients
        /\ \A k \in DOMAIN frames : k.client # c /\ k.client \in Clients
    BY <1>1, <1>2, <2>1, RouteFacts DEF Once, WorksForCallers
  <2> HIDE DEF call
  <2>6. WorksForCallers'
    BY <2>1, <2>3, <2>5 DEF Once, WorksForCallers, IsRoot
  <2>7. BeginsWithRoot' /\ OneNumber'
    BY <2>1, <2>5 DEF Once, BeginsWithRoot, OneNumber, IsRoot
  <2>8. LoopOK' /\ CollectedOnce' /\ CollectedApart' /\ AnsweredOnce'
    BY <2>1, <2>3 DEF Once, LoopOK, CollectedOnce, CollectedApart, AnsweredOnce, Answered, IsRoot
  <2> QED BY <2>4, <2>6, <2>7, <2>8 DEF Once
<1>5. ASSUME NEW call \in calls, Number(call) PROVE Once'
  <2>1. Begin(call, counter) /\ IsRoot(call.key) /\ counter \in Nat /\ counter' \in Nat
        /\ processedQueries' = processedQueries /\ processedQueries \in [Ranks -> SUBSET Nat]
    BY <1>0, <1>1, <1>5 DEF Number, TypeOK
  <2>2. \A k \in DOMAIN frames : k.client # call.key.client
    BY <2>1 DEF Once, BeginsWithRoot
  <2> QED BY <2>1, <2>2, BeginKeepsOnce
<1>6. ASSUME NEW call \in calls, Accept(call) PROVE Once'
  <2> DEFINE r == RankOf(call.key)
  <2>1. Begin(call, call.id) /\ r \in Ranks /\ r # 0 /\ ~IsRoot(call.key) /\ counter' = counter
        /\ call.id \notin processedQueries[r]
        /\ processedQueries' = [processedQueries EXCEPT ![r] = @ \cup {call.id}]
    BY <1>1, <1>6 DEF Accept
  <2>2. /\ processedQueries' \in [Ranks -> SUBSET Nat] /\ counter' \in Nat
        /\ \A s \in Ranks : processedQueries[s] \subseteq processedQueries'[s]
        /\ call.id \in processedQueries'[r]
    BY <1>0, <1>1, <2>1 DEF TypeOK
  <2>3. ASSUME NEW k \in DOMAIN frames, k.client = call.key.client
        PROVE  k # call.key /\ frames[k].collected[r] = 0
    <3>1. frames[k].id = call.id
      BY <2>3 DEF Once, OneNumber
    <3>2. frames[k].collected[r] \in Nat
      BY <1>2, <2>1 DEF IsFrame
    <3> QED BY <2>1, <3>1, <3>2 DEF Once, CollectedOnce
  <2> QED BY <1>1, <2>1, <2>2, <2>3, BeginKeepsOnce
<1>7. ASSUME NEW call \in calls, Reject(call) PROVE Once'
  <2>1. call.key \in Routes /\ ~IsRoot(call.key) /\ Reply(call.key, Nothing) /\ calls' \subseteq calls
        /\ UNCHANGED <<counter, processedQueries, failures, restarts, hurt>>
    BY <1>1, <1>7 DEF Reject
  <2> QED BY <1>3, <2>1, ReplyKeepsOnce
<1>8. ASSUME NEW key \in DOMAIN frames, QueryPeer(key) PROVE Once'
  <2> DEFINE call == [key |-> CalledBy(key), id |-> frames[key].id]
  <2>1. /\ calls' = calls \cup {call} /\ call.key \in Routes /\ ~IsRoot(call.key)
        /\ call.key.client = key.client /\ call.id = frames[key].id
        /\ frames[key].next <= Len(logical_neighbors[RankOf(key)])
        /\ UNCHANGED <<counter, processedQueries, answers, failures, restarts, hurt>>
    BY <1>0, <1>8, CalledByFacts DEF QueryPeer
  <2>2. call \in [key : Routes, id : Nat]
    BY <1>2, <2>1 DEF IsFrame
  <2> HIDE DEF call
  <2>3. DOMAIN frames' = DOMAIN frames
    BY <1>8 DEF QueryPeer
  <2>4. \A k \in DOMAIN frames :
           /\ frames'[k].id = frames[k].id /\ frames'[k].next = frames[k].next
           /\ frames'[k].collected = frames[k].collected
    BY <1>2, <1>8 DEF QueryPeer, IsFrame
  <2>5. \A k \in DOMAIN frames : frames'[k].waiting = IF k = key THEN TRUE ELSE frames[k].waiting
    BY <1>2, <1>8 DEF QueryPeer, IsFrame
  <2>6. TypeOK' /\ LoopOK'
    BY <1>0, <2>1, <2>2, <2>3, <2>4, <2>5 DEF TypeOK, IsFrame, LoopOK, RankOf
  <2>7. WorksForCallers' /\ AnsweredOnce'
    BY <2>1, <2>3 DEF Once, WorksForCallers, AnsweredOnce, Answered, IsRoot
  <2>8. BeginsWithRoot'
    BY <2>1, <2>3 DEF Once, BeginsWithRoot, IsRoot
  <2>9. OneNumber'
    <3> DEFINE D == DOMAIN frames
    <3>1. DOMAIN frames' = D
      BY <2>3
    <3> HIDE DEF D
    <3> QED BY <2>1, <2>4, <3>1 DEF Once, OneNumber, D
  <2>10. CollectedOnce' /\ CollectedApart'
    BY <2>1, <2>3, <2>4 DEF Once, CollectedOnce, CollectedApart, IsRoot, RankOf
  <2> QED BY <2>6, <2>7, <2>8, <2>9, <2>10 DEF Once
<1>9. ASSUME NEW key \in DOMAIN frames, Return(key) PROVE Once'
  <2>1. key \in Routes /\ frames[key].collected \in [Ranks -> Nat] /\ Reply(key, frames[key].collected)
        /\ calls' \subseteq calls /\ UNCHANGED <<counter, processedQueries, failures, restarts, hurt>>
    BY <1>2, <1>9 DEF Return, IsFrame
  <2> QED BY <2>1, ReplyKeepsOnce
<1>10. ASSUME NEW key \in DOMAIN frames, QueryPeerFails(key) PROVE Once'
  <2>1. /\ IsFrame(Resumed(frames[key], Nothing)) /\ Resumed(frames[key], Nothing).id = frames[key].id
        /\ ~Resumed(frames[key], Nothing).waiting
        /\ \A r \in Ranks : Resumed(frames[key], Nothing).collected[r] = frames[key].collected[r]
    <3>1. \A r \in Ranks : frames[key].collected[r] \in Nat /\ frames[key].collected[r] + 0 = frames[key].collected[r]
      BY <1>2 DEF IsFrame
    <3> QED BY <1>2, <1>3, <3>1, ResumedFacts DEF Nothing
  <2>2. /\ UNCHANGED <<counter, processedQueries, calls, answers, restarts>>
        /\ hurt' = hurt \cup {key.client} /\ key.client \in Clients
        /\ DOMAIN frames' = DOMAIN frames
        /\ \A k \in DOMAIN frames :
              frames'[k] = IF k = key THEN Resumed(frames[k], Nothing) ELSE frames[k]
    BY <1>2, <1>10, RouteFacts DEF QueryPeerFails
  <2>3. TypeOK' /\ LoopOK'
    BY <1>0, <2>1, <2>2 DEF TypeOK, LoopOK
  <2>4. BeginsWithRoot' /\ OneNumber'
    BY <2>1, <2>2, NothingBegins
  <2>5. WorksForCallers' /\ AnsweredOnce'
    BY <2>2 DEF Once, WorksForCallers, AnsweredOnce, Answered, IsRoot
  <2>6. \A k \in DOMAIN frames : frames'[k].id = frames[k].id
                                  /\ \A r \in Ranks : frames'[k].collected[r] = frames[k].collected[r]
    BY <2>1, <2>2
  <2>7. CollectedOnce' /\ CollectedApart'
    BY <2>2, <2>6 DEF Once, CollectedOnce, CollectedApart, IsRoot, RankOf
  <2> QED BY <2>3, <2>4, <2>5, <2>7 DEF Once
<1>11. ASSUME NEW call \in calls, Cancel(call) PROVE Once'
  BY <1>11 DEF Cancel, Once, TypeOK, LoopOK, WorksForCallers, BeginsWithRoot, OneNumber, CollectedOnce,
               CollectedApart, AnsweredOnce, Answered, IsRoot, RankOf
<1>12. ASSUME Restart PROVE Once'
  <2>1. /\ restarts' = restarts + 1 /\ counter' = 0 /\ hurt' = hurt /\ processedQueries' = processedQueries
        /\ DOMAIN frames' = {k \in DOMAIN frames : ~IsRoot(k)}
        /\ \A k \in DOMAIN frames' : frames'[k] = frames[k]
        /\ calls' = {call \in calls : ~IsRoot(call.key)}
    BY <1>1, <1>2, <1>12, RouteFacts DEF Restart
  <2>2. /\ answers' \in [Clients -> [state : States, results : [Ranks -> Nat]]]
        /\ \A c \in Clients :
              /\ answers'[c].state = IF answers[c].state = "called" THEN "error" ELSE answers[c].state
              /\ answers'[c].results = answers[c].results
    <3>1. \A c \in Clients : answers[c] \in [state : States, results : [Ranks -> Nat]]
      BY <1>0 DEF TypeOK
    <3>2. \A c \in Clients : [answers[c] EXCEPT !.state = "error"] \in [state : States, results : [Ranks -> Nat]]
      BY <3>1 DEF States
    <3> QED BY <1>12, <3>1, <3>2 DEF Restart
  <2>3. TypeOK' /\ LoopOK'
    BY <1>0, <2>1, <2>2 DEF TypeOK, LoopOK
  <2>4. BeginsWithRoot' /\ OneNumber'
    BY <2>1, NothingBegins
  <2>5. \A call \in calls : call.key.client \in Clients
    BY <1>1, RouteFacts
  <2>6. \A k \in DOMAIN frames : k.client \in Clients
    BY <1>2, RouteFacts
  <2>7. WorksForCallers'
    BY <2>1, <2>2, <2>5, <2>6 DEF Once, WorksForCallers, IsRoot
  <2>8. CollectedOnce' /\ CollectedApart' /\ AnsweredOnce'
    BY <2>1, <2>2 DEF Once, CollectedOnce, CollectedApart, AnsweredOnce, Answered, IsRoot, RankOf
  <2> QED BY <2>3, <2>4, <2>7, <2>8 DEF Once
<1>13. CASE UNCHANGED vars
  BY <1>13 DEF vars, Once, TypeOK, LoopOK, WorksForCallers, BeginsWithRoot, OneNumber, CollectedOnce,
               CollectedApart, AnsweredOnce, Answered, IsRoot, RankOf
<1> QED BY <1>4, <1>5, <1>6, <1>7, <1>8, <1>9, <1>10, <1>11, <1>12, <1>13 DEF Next, Serve

\* No rank's results are in an answer twice, for any neighbours, however many
\* paths lead to a rank, and whatever calls fail.
THEOREM NoRankTwice == Spec => []EachRankOnce
<1>1. Once => EachRankOnce
  BY DEF Once, EachRankOnce, AnsweredOnce, CollectedOnce
<1>2. Spec => []Once
  BY OnceInit, OnceStep, PTL DEF Spec
<1> QED BY <1>1, <1>2, PTL

-----------------------------------------------------------------------------
(* An answer none of whose calls has failed is whole *)

LEMMA NeighbourFacts ==
    ASSUME NEW r \in Ranks, NEW i \in 1 .. Len(logical_neighbors[r])
    PROVE  logical_neighbors[r][i] \in Ranks \ {0}
BY RankFacts, ElementOfSeq

\* Whether a handler is waited for, its caller's frame tells.
LEMMA AwaitedFacts ==
    ASSUME NEW k \in Routes, ~IsRoot(k)
    PROVE  /\ Awaited(k) <=> /\ Caller(k) \in DOMAIN frames /\ frames[Caller(k)].waiting
                             /\ CalledBy(Caller(k)) = k
           /\ Awaited(k)' <=> /\ Caller(k) \in DOMAIN frames' /\ frames'[Caller(k)].waiting
                              /\ CalledBy(Caller(k))' = k
BY CallerFacts DEF Awaited

LEMMA AwaitedKept ==
    ASSUME NEW k \in Routes, ~IsRoot(k), Awaited(k),
           Caller(k) \in DOMAIN frames', frames'[Caller(k)] = frames[Caller(k)]
    PROVE  Awaited(k)'
<1>1. CalledBy(Caller(k))' = CalledBy(Caller(k))
  BY DEF CalledBy, Neighbour
<1> QED BY <1>1, AwaitedFacts

\* What is done for one client leaves the others alone.
LEMMA OthersUntouched ==
    ASSUME TypeOK, NEW c \in Clients, ClientOK(c),
           \A k \in Routes : k.client = c =>
               /\ k \in DOMAIN frames' <=> k \in DOMAIN frames
               /\ k \in DOMAIN frames => frames'[k] = frames[k],
           DOMAIN frames' \subseteq Routes,
           \A call : call.key.client = c => (call \in calls' <=> call \in calls),
           answers'[c] = answers[c],
           \A k \in DOMAIN frames, r \in Ranks : k.client = c =>
               (frames[k].id \in processedQueries'[r] <=> frames[k].id \in processedQueries[r])
    PROVE  ClientOK(c)'
<1>1. /\ \A k \in DOMAIN frames : k \in Routes
      /\ \A call \in calls : call.key \in Routes
  BY DEF TypeOK
<1>2. OneAtATime(c)'
  BY <1>1 DEF ClientOK, OneAtATime
<1>3. AllAwaited(c)'
  <2>1. ASSUME NEW k \in Routes, k.client = c, ~IsRoot(k), Awaited(k)
        PROVE  Awaited(k)'
    BY <2>1, AwaitedFacts, AwaitedKept, CallerFacts
  <2> QED BY <1>1, <2>1 DEF ClientOK, AllAwaited, IsRoot
<1>4. \A k \in DOMAIN frames', r \in Ranks : k.client = c => (Reached(k, r)' <=> Reached(k, r))
  BY DEF Reached
<1>5. ResultsKept(c)'
  BY <1>1, <1>4 DEF ClientOK, ResultsKept, IsRoot
<1>6. NeighboursReached(c)'
  BY <1>1, <1>4, NeighbourFacts DEF ClientOK, NeighboursReached, IsRoot, RankOf
<1> QED BY <1>2, <1>3, <1>5, <1>6 DEF ClientOK, AnsweredWhole, Answered

\* A handler begins at a rank the client's query had not come to.
LEMMA BeginClientOK ==
    ASSUME Once, NEW call \in calls, Begin(call, call.id), ClientOK(call.key.client),
           ~IsRoot(call.key), call.id \notin processedQueries[RankOf(call.key)],
           processedQueries' = [processedQueries EXCEPT ![RankOf(call.key)] = @ \cup {call.id}]
    PROVE  ClientOK(call.key.client)'
<1> DEFINE c == call.key.client
           key == call.key
<1>1. TypeOK /\ key \in Routes /\ RankOf(key) \in Ranks /\ 0 \in Ranks /\ RankOf(key) # 0
      /\ call.id \in Nat /\ \A k \in DOMAIN frames : k \in Routes
  BY RouteFacts, RankFacts DEF Once, TypeOK
<1>2. /\ \A k \in DOMAIN frames : k.client = c =>
            Len(k.path) < Len(key.path) /\ frames[k].waiting /\ k # key /\ frames[k].id = call.id
      /\ \A other \in calls : other.key.client = c => other = call
  <2>1. Len(key.path) \in Nat
    BY <1>1, RouteFacts
  <2> QED BY <2>1 DEF ClientOK, OneAtATime, Once, OneNumber
<1>3. /\ \A other \in calls' : other.key.client # c
      /\ DOMAIN frames' = DOMAIN frames \cup {key}
      /\ frames'[key].next = 1 /\ frames'[key].id = call.id
      /\ frames'[key].collected[RankOf(key)] = 1
      /\ \A k \in DOMAIN frames : k.client = c => frames'[k] = frames[k]
      /\ answers' = answers
  <2>1. calls' = calls \ {call} /\ answers' = answers
    BY DEF Begin
  <2>2. /\ DOMAIN frames' = DOMAIN frames \cup {key}
        /\ frames'[key].next = 1 /\ frames'[key].id = call.id
        /\ frames'[key].collected[RankOf(key)] = 1
        /\ \A k \in DOMAIN frames : k # key => frames'[k] = frames[k]
    BY <1>1, BeginFacts
  <2> QED BY <1>2, <2>1, <2>2
<1>4. OneAtATime(c)'
  <2>1. \A k \in Routes : Len(k.path) \in Nat
    BY RouteFacts
  <2>2. \A k, l \in DOMAIN frames : k.client = c /\ l.client = c /\ k # l => Len(k.path) # Len(l.path)
    BY DEF ClientOK, OneAtATime
  <2>3. \A k, l \in DOMAIN frames' : k.client = c /\ l.client = c =>
           /\ k # l => Len(k.path) # Len(l.path)
           /\ Len(k.path) < Len(l.path) => frames'[k].waiting
    BY <1>1, <1>2, <1>3, <2>1, <2>2
  <2> QED BY <1>3, <2>3 DEF OneAtATime
<1>5. AllAwaited(c)'
  <2>1. ASSUME NEW k \in Routes, k.client = c, ~IsRoot(k), Awaited(k)
        PROVE  Awaited(k)'
    BY <1>3, <2>1, AwaitedFacts, AwaitedKept, CallerFacts
  <2>2. Awaited(key) /\ \A k \in DOMAIN frames : k.client = c /\ ~IsRoot(k) => Awaited(k)
    BY DEF ClientOK, AllAwaited
  <2> QED BY <1>1, <1>3, <2>1, <2>2 DEF AllAwaited, IsRoot
<1>6. \A k \in DOMAIN frames', r \in Ranks : k.client = c /\ IsRoot(k) =>
         /\ k \in DOMAIN frames /\ k # key
         /\ Reached(k, r)' <=> (Reached(k, r) \/ r = RankOf(key))
  <2>1. \A r \in Ranks : processedQueries'[r] = IF r = RankOf(key) THEN processedQueries[r] \cup {call.id}
                                                ELSE processedQueries[r]
    BY <1>1 DEF TypeOK
  <2> SUFFICES ASSUME NEW k \in DOMAIN frames', NEW r \in Ranks, k.client = c, IsRoot(k)
               PROVE  /\ k \in DOMAIN frames /\ k # key
                      /\ Reached(k, r)' <=> (Reached(k, r) \/ r = RankOf(key))
    OBVIOUS
  <2>2. k \in DOMAIN frames /\ k # key /\ frames'[k].id = call.id /\ frames[k].id = call.id
    BY <1>2, <1>3
  <2> QED BY <2>1, <2>2 DEF Reached
<1>7. ResultsKept(c)'
  <2> SUFFICES ASSUME NEW root \in DOMAIN frames', root.client = c, IsRoot(root),
                      NEW r \in Ranks, Reached(root, r)'
               PROVE  \E k \in DOMAIN frames' : k.client = c /\ frames'[k].collected[r] = 1
    BY DEF ResultsKept, IsRoot
  <2>1. CASE r = RankOf(key)
    BY <1>3, <2>1
  <2>2. CASE Reached(root, r)
    <3>1. PICK k \in DOMAIN frames : k.client = c /\ frames[k].collected[r] = 1
      BY <1>6, <2>2 DEF ClientOK, ResultsKept
    <3> QED BY <1>3, <3>1
  <2> QED BY <1>6, <2>1, <2>2
<1>8. NeighboursReached(c)'
  <2> SUFFICES ASSUME NEW root \in DOMAIN frames', root.client = c, IsRoot(root),
                      NEW r \in Ranks, Reached(root, r)', NEW i \in 1 .. Len(logical_neighbors[r])
               PROVE  \/ Reached(root, logical_neighbors[r][i])'
                      \/ \E k \in DOMAIN frames' : k.client = c /\ RankOf(k) = r /\ frames'[k].next <= i
    BY DEF NeighboursReached, IsRoot, RankOf
  <2>1. CASE r = RankOf(key)
    BY <1>3, <2>1
  <2>2. CASE Reached(root, r)
    <3>1. \/ Reached(root, logical_neighbors[r][i])
          \/ \E k \in DOMAIN frames : k.client = c /\ RankOf(k) = r /\ frames[k].next <= i
      BY <1>6, <2>2 DEF ClientOK, NeighboursReached
    <3> QED BY <1>3, <1>6, <3>1, NeighbourFacts
  <2> QED BY <1>6, <2>1, <2>2
<1>9. AnsweredWhole(c)'
  BY <1>3 DEF ClientOK, AnsweredWhole, Answered
<1> QED BY <1>4, <1>5, <1>7, <1>8, <1>9 DEF ClientOK

\* Rank 0 begins: there is one frame.
LEMMA NumberClientOK ==
    ASSUME Once, NumbersDiffer, NEW call \in calls, Begin(call, counter), IsRoot(call.key),
           processedQueries' = processedQueries
    PROVE  ClientOK(call.key.client)'
<1> DEFINE c == call.key.client
           key == call.key
<1>1. TypeOK /\ key \in Routes /\ 0 \in Ranks /\ RankOf(key) = 0 /\ counter \in Nat /\ c \in Clients
  BY RouteFacts, RankFacts DEF Once, TypeOK
<1>2. /\ \A other \in calls' : other.key.client # c
      /\ \A k \in DOMAIN frames' : k.client = c => k = key
      /\ frames'[key].next = 1 /\ frames'[key].id = counter /\ frames'[key].collected[0] = 1
      /\ key \in DOMAIN frames' /\ answers'[c].state = "called"
  <2>1. calls' = calls \ {call} /\ answers' = answers
    BY DEF Begin
  <2>2. /\ DOMAIN frames' = DOMAIN frames \cup {key}
        /\ frames'[key].next = 1 /\ frames'[key].id = counter
        /\ frames'[key].collected[0] = 1
    BY <1>1, BeginFacts
  <2>3. /\ \A other \in calls : other.key.client = c => other = call
        /\ \A k \in DOMAIN frames : k.client # c
    BY DEF Once, BeginsWithRoot
  <2>4. answers[c].state = "called"
    BY DEF Once, WorksForCallers
  <2> QED BY <2>1, <2>2, <2>3, <2>4
<1>3. \A r \in Ranks : Reached(key, r)' <=> r = 0
  <2>1. \A r \in Ranks : counter \notin processedQueries[r]
    BY <1>1 DEF NumbersDiffer
  <2> QED BY <1>2, <2>1 DEF Reached
<1>4. OneAtATime(c)' /\ AllAwaited(c)' /\ AnsweredWhole(c)'
  BY <1>2 DEF OneAtATime, AllAwaited, AnsweredWhole, Answered, IsRoot
<1>5. ResultsKept(c)'
  BY <1>2, <1>3 DEF ResultsKept, IsRoot
<1>6. NeighboursReached(c)'
  BY <1>1, <1>2, <1>3 DEF NeighboursReached, IsRoot, RankOf
<1> QED BY <1>4, <1>5, <1>6 DEF ClientOK

\* A frame calls its next neighbour.
LEMMA QueryPeerClientOK ==
    ASSUME Once, NEW key \in DOMAIN frames, QueryPeer(key), ClientOK(key.client)
    PROVE  ClientOK(key.client)'
<1> DEFINE c == key.client
<1>1. /\ TypeOK /\ LoopOK /\ \A k \in DOMAIN frames : k \in Routes /\ IsFrame(frames[k])
      /\ \A other \in calls : other.key \in Routes
  BY DEF Once, TypeOK
<1>2. PICK called \in Routes :
         /\ called = CalledBy(key) /\ ~IsRoot(called) /\ called.client = c
         /\ Len(called.path) = Len(key.path) + 1 /\ Caller(called) = key
         /\ calls' = calls \cup {[key |-> called, id |-> frames[key].id]}
         /\ UNCHANGED <<processedQueries, answers>> /\ ~frames[key].waiting
  <2>1. /\ CalledBy(key) \in Routes /\ CalledBy(key).client = key.client
        /\ Len(CalledBy(key).path) = Len(key.path) + 1 /\ ~IsRoot(CalledBy(key))
        /\ [CalledBy(key) EXCEPT !.path = Front(@)] = key
    BY <1>1, CalledByFacts DEF QueryPeer
  <2>2. Caller(CalledBy(key)) = key
    BY <2>1, CallerFacts
  <2> QED BY <2>1, <2>2 DEF QueryPeer
<1>3. /\ DOMAIN frames' = DOMAIN frames
      /\ \A k \in DOMAIN frames : k # key => frames'[k] = frames[k]
  BY DEF QueryPeer
<1>4. /\ \A k \in DOMAIN frames : /\ frames'[k].id = frames[k].id /\ frames'[k].next = frames[k].next
                                  /\ frames'[k].collected = frames[k].collected
      /\ \A k \in DOMAIN frames : frames'[k].waiting = IF k = key THEN TRUE ELSE frames[k].waiting
  BY <1>1 DEF QueryPeer, IsFrame
<1>5. /\ \A other \in calls : other.key.client # c
      /\ \A k \in DOMAIN frames : k.client = c /\ k # key =>
            Len(k.path) < Len(key.path) /\ frames[k].waiting
  <2>1. \A k \in Routes : Len(k.path) \in Nat
    BY RouteFacts
  <2> QED BY <1>1, <1>2, <2>1 DEF ClientOK, OneAtATime
<1>6. OneAtATime(c)'
  <2>1. \A k \in Routes : Len(k.path) \in Nat
    BY RouteFacts
  <2>2. \A k, l \in DOMAIN frames : k.client = c /\ l.client = c /\ k # l => Len(k.path) # Len(l.path)
    BY DEF ClientOK, OneAtATime
  <2>3. \A k \in DOMAIN frames' : k.client = c => frames'[k].waiting /\ Len(k.path) < Len(called.path)
    <3> SUFFICES ASSUME NEW k \in DOMAIN frames, k.client = c
                 PROVE  frames'[k].waiting /\ Len(k.path) < Len(called.path)
      BY <1>3
    <3>1. Len(k.path) < Len(key.path) + 1
      BY <1>1, <1>5, <2>1
    <3> QED BY <1>2, <1>4, <1>5, <3>1
  <2> QED BY <1>2, <1>3, <1>5, <2>2, <2>3 DEF OneAtATime
<1>7. AllAwaited(c)'
  <2>1. ASSUME NEW k \in DOMAIN frames, k.client = c, ~IsRoot(k)
        PROVE  Awaited(k)'
    <3>1. Awaited(k)
      BY <2>1 DEF ClientOK, AllAwaited
    <3> QED BY <1>1, <1>2, <1>3, <2>1, <3>1, AwaitedFacts, AwaitedKept
  <2>2. Awaited(called)'
    <3>1. CalledBy(key)' = CalledBy(key)
      BY <1>4 DEF CalledBy, Neighbour
    <3> QED BY <1>2, <1>3, <1>4, <3>1, AwaitedFacts
  <2> QED BY <1>2, <1>3, <1>5, <2>1, <2>2 DEF AllAwaited, IsRoot
<1>8. \A k \in DOMAIN frames, r \in Ranks : Reached(k, r)' <=> Reached(k, r)
  BY <1>2, <1>4 DEF Reached
<1>9. ResultsKept(c)'
  BY <1>3, <1>4, <1>8 DEF ClientOK, ResultsKept, IsRoot
<1>10. NeighboursReached(c)'
  BY <1>3, <1>4, <1>8, NeighbourFacts DEF ClientOK, NeighboursReached, IsRoot, RankOf
<1>11. AnsweredWhole(c)'
  BY <1>2 DEF ClientOK, AnsweredWhole, Answered
<1> QED BY <1>6, <1>7, <1>9, <1>10, <1>11 DEF ClientOK

\* A handler replies to the frame that waits for it; its rank was reached.
LEMMA ReplyClientOK ==
    ASSUME Once, NEW key \in Routes, ~IsRoot(key), NEW results \in [Ranks -> Nat],
           Reply(key, results), ClientOK(key.client), Awaited(key),
           \A k \in DOMAIN frames : k.client = key.client =>
               /\ k # key => Len(k.path) < Len(key.path)
               /\ frames[k].id \in processedQueries[RankOf(key)],
           \A call \in calls' : call.key.client # key.client,
           \/ key \notin DOMAIN frames /\ results = Nothing
           \/ /\ key \in DOMAIN frames /\ results = frames[key].collected
              /\ ~frames[key].waiting /\ frames[key].next > Len(logical_neighbors[RankOf(key)]),
           UNCHANGED processedQueries
    PROVE  ClientOK(key.client)'
<1> DEFINE c == key.client
           caller == Caller(key)
<1>1. /\ TypeOK /\ LoopOK /\ \A k \in DOMAIN frames : k \in Routes /\ IsFrame(frames[k])
      /\ \A k \in Routes : Len(k.path) \in Nat
  BY RouteFacts DEF Once, TypeOK
<1>2. /\ caller \in Routes /\ caller.client = c /\ Len(caller.path) = Len(key.path) - 1
      /\ caller # key /\ caller \in DOMAIN frames /\ frames[caller].waiting /\ CalledBy(caller) = key
  BY CallerFacts, AwaitedFacts
<1>3. /\ DOMAIN frames' = DOMAIN frames \ {key} /\ answers' = answers
      /\ frames'[caller] = Resumed(frames[caller], results)
      /\ \A k \in DOMAIN frames' : k # caller => frames'[k] = frames[k]
  <2>1. /\ DOMAIN frames' = DOMAIN frames \ {key} /\ answers' = answers
        /\ \A k \in DOMAIN frames' :
              frames'[k] = IF k = Caller(key) /\ Awaited(key)
                           THEN Resumed(frames[k], results) ELSE frames[k]
    BY <1>1, ReplyFacts
  <2>2. caller \in DOMAIN frames'
    BY <1>2, <2>1
  <2> QED BY <2>1, <2>2
<1>4. /\ ~frames'[caller].waiting /\ frames'[caller].id = frames[caller].id
      /\ frames'[caller].next = frames[caller].next + 1
      /\ \A r \in Ranks : frames'[caller].collected[r] = frames[caller].collected[r] + results[r]
  BY <1>1, <1>2, <1>3, ResumedFacts
<1>5. RankOf(key) = logical_neighbors[RankOf(caller)][frames[caller].next]
      /\ frames[caller].next \in Nat
  BY <1>1, <1>2, CalledByFacts DEF LoopOK, IsFrame
<1>6. OneAtATime(c)'
  <2>1. \A k, l \in DOMAIN frames : k.client = c /\ l.client = c =>
           /\ k # l => Len(k.path) # Len(l.path)
           /\ Len(k.path) < Len(l.path) => frames[k].waiting
    BY DEF ClientOK, OneAtATime
  <2>2. \A l \in DOMAIN frames' : l.client = c => ~(Len(caller.path) < Len(l.path))
    <3> SUFFICES ASSUME NEW l \in DOMAIN frames, l # key, l.client = c
                 PROVE  ~(Len(caller.path) < Len(l.path))
      BY <1>3
    <3> QED BY <1>1, <1>2
  <2>3. \A k, l \in DOMAIN frames' : k.client = c /\ l.client = c =>
           /\ k # l => Len(k.path) # Len(l.path)
           /\ Len(k.path) < Len(l.path) => frames'[k].waiting
    <3> SUFFICES ASSUME NEW k \in DOMAIN frames', NEW l \in DOMAIN frames', k.client = c, l.client = c
                 PROVE  /\ k # l => Len(k.path) # Len(l.path)
                        /\ Len(k.path) < Len(l.path) => frames'[k].waiting
      OBVIOUS
    <3>1. k \in DOMAIN frames /\ l \in DOMAIN frames
      BY <1>3
    <3>2. CASE k = caller
      BY <2>1, <2>2, <3>1, <3>2
    <3>3. CASE k # caller
      BY <1>3, <2>1, <3>1, <3>3
    <3> QED BY <3>2, <3>3
  <2> QED BY <2>3 DEF OneAtATime
<1>7. AllAwaited(c)'
  <2> SUFFICES ASSUME NEW k \in DOMAIN frames', k.client = c, ~IsRoot(k)
               PROVE  Awaited(k)'
    BY DEF AllAwaited, IsRoot
  <2>1. k \in DOMAIN frames /\ k # key /\ k \in Routes
    BY <1>1, <1>3
  <2>2. Awaited(k) /\ Caller(k) \in DOMAIN frames /\ frames[Caller(k)].waiting
    BY <2>1, AwaitedFacts DEF ClientOK, AllAwaited
  <2>3. Caller(k) # key
    <3>1. CASE key \notin DOMAIN frames
      BY <2>2, <3>1
    <3>2. CASE ~frames[key].waiting
      BY <2>2, <3>2
    <3> QED BY <3>1, <3>2
  <2>4. Caller(k) # caller
    <3>1. Len(k.path) < Len(key.path) /\ Len(Caller(k).path) = Len(k.path) - 1
      BY <2>1, CallerFacts
    <3> QED BY <1>1, <1>2, <2>1, <3>1
  <2>5. Caller(k) \in DOMAIN frames' /\ frames'[Caller(k)] = frames[Caller(k)]
    BY <1>3, <2>2, <2>3, <2>4
  <2> QED BY <2>1, <2>2, <2>5, AwaitedKept
<1>8. \A k \in DOMAIN frames' : k \in DOMAIN frames /\ frames'[k].id = frames[k].id
  BY <1>3, <1>4
<1>9. \A k \in DOMAIN frames', r \in Ranks : Reached(k, r)' <=> Reached(k, r)
  BY <1>8 DEF Reached
<1>10. ResultsKept(c)'
  <2> SUFFICES ASSUME NEW root \in DOMAIN frames', root.client = c, IsRoot(root),
                      NEW r \in Ranks, Reached(root, r)
               PROVE  \E k \in DOMAIN frames' : k.client = c /\ frames'[k].collected[r] = 1
    BY <1>9 DEF ResultsKept, IsRoot
  <2>1. PICK k \in DOMAIN frames : k.client = c /\ frames[k].collected[r] = 1
    BY <1>8 DEF ClientOK, ResultsKept
  <2>2. /\ frames[caller].collected[r] \in Nat /\ results[r] \in Nat
        /\ key \in DOMAIN frames => frames[caller].collected[r] = 0 \/ results[r] = 0
    <3>1. key \in DOMAIN frames => results = frames[key].collected
      OBVIOUS
    <3> QED BY <1>1, <1>2, <3>1 DEF Once, CollectedApart, IsFrame
  <2>3. CASE k = key
    <3>1. results[r] = 1
      BY <2>1, <2>3
    <3>2. frames'[caller].collected[r] = 1
      BY <1>4, <2>2, <2>3, <3>1
    <3> QED BY <1>2, <1>3, <3>2
  <2>4. CASE k = caller
    <3>1. results[r] = 0
      BY <2>1, <2>2, <2>4 DEF Nothing
    <3>2. frames'[caller].collected[r] = 1
      BY <1>4, <2>1, <2>4, <3>1
    <3> QED BY <1>2, <1>3, <3>2
  <2>5. CASE k # key /\ k # caller
    BY <1>3, <2>1, <2>5
  <2> QED BY <2>3, <2>4, <2>5
<1>11. NeighboursReached(c)'
  <2> SUFFICES ASSUME NEW root \in DOMAIN frames', root.client = c, IsRoot(root),
                      NEW r \in Ranks, Reached(root, r), NEW i \in 1 .. Len(logical_neighbors[r])
               PROVE  \/ Reached(root, logical_neighbors[r][i])'
                      \/ \E k \in DOMAIN frames' : k.client = c /\ RankOf(k) = r /\ frames'[k].next <= i
    BY <1>9 DEF NeighboursReached, IsRoot, RankOf
  <2>1. CASE Reached(root, logical_neighbors[r][i])
    BY <1>9, <2>1, NeighbourFacts
  <2>2. ASSUME NEW k \in DOMAIN frames, k.client = c, RankOf(k) = r, frames[k].next <= i
        PROVE  \/ Reached(root, logical_neighbors[r][i])
               \/ \E l \in DOMAIN frames' : l.client = c /\ RankOf(l) = r /\ frames'[l].next <= i
    <3>1. k # key
      <4>1. Len(logical_neighbors[r]) \in Nat /\ frames[k].next \in Nat
        BY <1>1, RankFacts DEF IsFrame
      <4> QED BY <2>2, <4>1
    <3>2. CASE k = caller /\ frames[k].next = i
      <4>1. logical_neighbors[r][i] = RankOf(key)
        BY <1>5, <2>2, <3>2
      <4> QED BY <1>8, <4>1 DEF Reached
    <3>3. CASE k = caller /\ frames[k].next # i
      <4>1. frames'[caller].next <= i
        BY <1>4, <1>5, <2>2, <3>3
      <4> QED BY <1>2, <1>3, <2>2, <3>3, <4>1
    <3>4. CASE k # caller
      BY <1>3, <2>2, <3>1, <3>4
    <3> QED BY <3>2, <3>3, <3>4
  <2>3. \/ Reached(root, logical_neighbors[r][i])
        \/ \E k \in DOMAIN frames : k.client = c /\ RankOf(k) = r /\ frames[k].next <= i
    BY <1>8 DEF ClientOK, NeighboursReached
  <2> QED BY <2>1, <2>2, <2>3
<1>12. AnsweredWhole(c)'
  BY <1>3 DEF ClientOK, AnsweredWhole, Answered
<1> QED BY <1>6, <1>7, <1>10, <1>11, <1>12 DEF ClientOK, AllAwaited

\* Rank 0 returns: every rank has been reached, and its results are there.
LEMMA ReturnRootClientOK ==
    ASSUME EveryRankReachable, Once, NEW key \in DOMAIN frames, IsRoot(key), Return(key), ClientOK(key.client)
    PROVE  ClientOK(key.client)'
<1> DEFINE c == key.client
           results == frames[key].collected
<1>1. /\ TypeOK /\ key \in Routes /\ RankOf(key) = 0 /\ c \in Clients /\ 0 \in Ranks
      /\ IsFrame(frames[key]) /\ \A k \in DOMAIN frames : k \in Routes
  BY RouteFacts, RankFacts DEF Once, TypeOK
<1>2. /\ ~frames[key].waiting /\ frames[key].next > Len(logical_neighbors[0])
      /\ Reply(key, results) /\ calls' = calls /\ results \in [Ranks -> Nat]
  BY <1>1 DEF Return, IsFrame
<1>3. \A k \in DOMAIN frames : k.client = c => k = key
  <2> SUFFICES ASSUME NEW k \in DOMAIN frames, k.client = c, k # key PROVE FALSE
    OBVIOUS
  <2>1. ~IsRoot(k) /\ Len(k.path) \in Nat \ {0}
    BY <1>1, OneRoot, RouteFacts
  <2>2. Len(key.path) < Len(k.path)
    <3>1. Len(k.path) # 1 /\ Len(key.path) = 1
      BY <2>1 DEF IsRoot
    <3>2. \A n \in Nat \ {0} : n # 1 => 1 < n
      OBVIOUS
    <3> QED BY <2>1, <3>1, <3>2
  <2> QED BY <1>2, <2>2 DEF ClientOK, OneAtATime
<1>4. \A call \in calls : call.key.client # c
  BY <1>2 DEF ClientOK, OneAtATime
<1>5. results = [r \in Ranks |-> 1]
  <2> DEFINE S == {r \in Ranks : Reached(key, r)}
  <2>1. 0 \in S
    BY <1>1 DEF Reached
  <2>2. ASSUME NEW r \in S, NEW i \in 1 .. Len(logical_neighbors[r])
        PROVE  logical_neighbors[r][i] \in S
    <3>1. \/ Reached(key, logical_neighbors[r][i])
          \/ \E k \in DOMAIN frames : k.client = c /\ RankOf(k) = r /\ frames[k].next <= i
      BY DEF ClientOK, NeighboursReached
    <3>2. ~ \E k \in DOMAIN frames : k.client = c /\ RankOf(k) = r /\ frames[k].next <= i
      <4>1. Len(logical_neighbors[0]) \in Nat /\ frames[key].next \in Nat
        BY <1>1, RankFacts DEF IsFrame
      <4> QED BY <1>1, <1>2, <1>3, <4>1
    <3> QED BY <3>1, <3>2, NeighbourFacts
  <2>3. S = Ranks
    <3> HIDE DEF S
    <3>1. S \in SUBSET Ranks
      BY DEF S
    <3> QED BY <2>1, <2>2, <3>1 DEF EveryRankReachable
  <2>4. \A r \in Ranks : results[r] = 1
    BY <1>3, <2>3 DEF ClientOK, ResultsKept
  <2> QED BY <1>2, <2>4
<1>6. /\ \A k \in DOMAIN frames' : k.client # c
      /\ answers'[c].results = results
  <2>1. /\ DOMAIN frames' = DOMAIN frames \ {key}
        /\ answers' = [answers EXCEPT ![c] = [state |-> "answered", results |-> results]]
    BY <1>1, <1>2, ReplyFacts
  <2>2. answers'[c] = [state |-> "answered", results |-> results]
    BY <1>1, <2>1 DEF TypeOK
  <2> QED BY <1>3, <2>1, <2>2
<1>7. OneAtATime(c)' /\ AllAwaited(c)' /\ ResultsKept(c)' /\ NeighboursReached(c)'
  BY <1>2, <1>4, <1>6 DEF OneAtATime, AllAwaited, ResultsKept, NeighboursReached
<1>8. AnsweredWhole(c)'
  BY <1>5, <1>6 DEF AnsweredWhole
<1> QED BY <1>7, <1>8 DEF ClientOK

LEMMA NumbersKept ==
    ASSUME NumbersDiffer, UNCHANGED <<counter, processedQueries>>,
           \A call \in calls' : ~IsRoot(call.key) => call \in calls,
           DOMAIN frames' \subseteq DOMAIN frames,
           \A k \in DOMAIN frames' : frames'[k].id = frames[k].id
    PROVE  NumbersDiffer'
BY DEF NumbersDiffer, IsRoot

LEMMA UnharmedInit == Init => Unharmed
BY DEF Init, Unharmed, NumbersDiffer, ClientOK, OneAtATime, AllAwaited, ResultsKept, NeighboursReached,
       AnsweredWhole, Answered

LEMMA UnharmedStep ==
    ASSUME EveryRankReachable, Once, Unharmed, [Next]_vars PROVE Unharmed'
<1> SUFFICES ASSUME restarts' = 0 PROVE NumbersDiffer' /\ \A c \in Clients \ hurt' : ClientOK(c)'
  BY DEF Unharmed, ClientOK, OneAtATime, AllAwaited, ResultsKept, NeighboursReached, AnsweredWhole,
         NumbersDiffer, Reached, Awaited, Answered
<1>0. TypeOK /\ LoopOK
  BY DEF Once
<1>1. \A call \in calls : call.key \in Routes /\ call.id \in Nat /\ RankOf(call.key) \in Ranks
                          /\ (RankOf(call.key) = 0 <=> IsRoot(call.key)) /\ call.key.client \in Clients
  BY <1>0, RouteFacts DEF TypeOK
<1>2. \A k \in DOMAIN frames : k \in Routes /\ IsFrame(frames[k]) /\ k.client \in Clients
  BY <1>0, RouteFacts DEF TypeOK
<1>3. TypeOK' /\ DOMAIN frames' \subseteq Routes
  BY OnceStep DEF Once, TypeOK
<1>4. ~Restart
  BY <1>0 DEF Restart, TypeOK
<1>5. restarts = 0
  <2>1. \A c \in Clients : Submit(c) => restarts' = restarts
    BY DEF Submit
  <2>2. \A call \in calls : Number(call) \/ Accept(call) \/ Reject(call) \/ Cancel(call) => restarts' = restarts
    BY DEF Number, Accept, Reject, Cancel, Begin
  <2>3. \A key \in DOMAIN frames :
           QueryPeer(key) \/ Return(key) \/ QueryPeerFails(key) => restarts' = restarts
    BY DEF QueryPeer, Return, QueryPeerFails
  <2>4. UNCHANGED vars => restarts' = restarts
    BY DEF vars
  <2>5. Next => restarts' = restarts \/ Restart
    BY <2>1, <2>2, <2>3 DEF Next, Serve
  <2> QED BY <1>4, <2>4, <2>5
<1>6. NumbersDiffer /\ \A c \in Clients \ hurt : ClientOK(c)
  BY <1>5 DEF Unharmed
\* What is left to show if only client d is served.
<1>7. ASSUME NEW d \in Clients, hurt \subseteq hurt', d \notin hurt' => ClientOK(d)',
             \A k \in Routes : k.client # d =>
                 /\ k \in DOMAIN frames' <=> k \in DOMAIN frames
                 /\ k \in DOMAIN frames => frames'[k] = frames[k],
             \A call : call.key.client # d => (call \in calls' <=> call \in calls),
             \A c \in Clients : c # d => answers'[c] = answers[c],
             \A k \in DOMAIN frames, r \in Ranks : k.client # d =>
                 (frames[k].id \in processedQueries'[r] <=> frames[k].id \in processedQueries[r])
      PROVE  \A c \in Clients \ hurt' : ClientOK(c)'
  <2> SUFFICES ASSUME NEW c \in Clients \ hurt', c # d PROVE ClientOK(c)'
    BY <1>7
  <2>1. ClientOK(c)
    BY <1>6, <1>7
  <2> QED BY <1>0, <1>3, <1>7, <2>1, OthersUntouched
<1>8. ASSUME NEW c \in Clients, Submit(c)
      PROVE  NumbersDiffer' /\ \A d \in Clients \ hurt' : ClientOK(d)'
  <2> DEFINE call == [key |-> [client |-> c, path |-> <<0>>], id |-> 1]
  <2>1. /\ calls' = calls \cup {call} /\ call.key.client = c /\ IsRoot(call.key)
        /\ answers' = [answers EXCEPT ![c].state = "called"] /\ answers[c].state = "none"
        /\ UNCHANGED <<counter, processedQueries, frames, hurt>>
    BY <1>8 DEF Submit, IsRoot
  <2>2. /\ \A other \in calls : other.key.client # c
        /\ \A k \in DOMAIN frames : k.client # c
    BY <2>1 DEF Once, WorksForCallers
  <2> HIDE DEF call
  <2>3. NumbersDiffer'
    BY <1>6, <2>1, NumbersKept
  <2>4. answers'[c].state = "called" /\ \A d \in Clients : d # c => answers'[d] = answers[d]
    BY <1>0, <2>1 DEF TypeOK
  <2>5. ClientOK(c)'
    BY <2>1, <2>2, <2>4 DEF ClientOK, OneAtATime, AllAwaited, ResultsKept, NeighboursReached,
                            AnsweredWhole, Answered, IsRoot
  <2> QED BY <1>7, <2>1, <2>3, <2>4, <2>5
<1>9. ASSUME NEW call \in calls, Number(call)
      PROVE  NumbersDiffer' /\ \A d \in Clients \ hurt' : ClientOK(d)'
  <2>1. /\ Begin(call, counter) /\ IsRoot(call.key) /\ counter \in Nat /\ counter' = counter + 1
        /\ UNCHANGED <<processedQueries, answers, hurt>> /\ calls' = calls \ {call}
    BY <1>0, <1>1, <1>9 DEF Number, Begin, TypeOK
  <2>2. /\ DOMAIN frames' = DOMAIN frames \cup {call.key} /\ frames'[call.key].id = counter
        /\ \A k \in DOMAIN frames : k # call.key => frames'[k] = frames[k]
        /\ \A k \in DOMAIN frames : k # call.key
    BY <1>0, <2>1, BeginFacts DEF Once, BeginsWithRoot
  <2>3. NumbersDiffer'
    <3>1. /\ \A r \in Ranks : \A id \in processedQueries[r] : id \in Nat
          /\ \A k \in DOMAIN frames : frames[k].id \in Nat
      BY <1>0, <1>2 DEF TypeOK, IsFrame
    <3>2. \A k \in DOMAIN frames' : k = call.key \/ (k \in DOMAIN frames /\ frames'[k] = frames[k])
      BY <2>2
    <3>3. \A k, l \in DOMAIN frames' : frames'[k].id = frames'[l].id => k.client = l.client
      BY <1>6, <2>1, <2>2, <3>1, <3>2 DEF NumbersDiffer
    <3>4. /\ \A r \in Ranks : \A id \in processedQueries'[r] : id < counter'
          /\ \A k \in DOMAIN frames' : frames'[k].id < counter'
          /\ \A other \in calls' : ~IsRoot(other.key) => other.id < counter'
      BY <1>1, <1>6, <2>1, <2>2, <3>1, <3>2 DEF NumbersDiffer
    <3>5. /\ \A other \in calls', k \in DOMAIN frames' :
                ~IsRoot(other.key) /\ other.id = frames'[k].id => other.key.client = k.client
          /\ \A one, other \in calls' :
                ~IsRoot(one.key) /\ ~IsRoot(other.key) /\ one.id = other.id =>
                    one.key.client = other.key.client
      BY <1>1, <1>6, <2>1, <2>2, <3>1, <3>2 DEF NumbersDiffer
    <3> QED BY <3>3, <3>4, <3>5 DEF NumbersDiffer, IsRoot
  <2>4. ClientOK(call.key.client)'
    BY <1>6, <2>1, NumberClientOK
  <2> QED BY <1>1, <1>7, <2>1, <2>2, <2>3, <2>4
<1>10. ASSUME NEW call \in calls, Accept(call)
       PROVE  NumbersDiffer' /\ \A d \in Clients \ hurt' : ClientOK(d)'
  <2>1. /\ Begin(call, call.id) /\ ~IsRoot(call.key) /\ call.id \notin processedQueries[RankOf(call.key)]
        /\ processedQueries' = [processedQueries EXCEPT ![RankOf(call.key)] = @ \cup {call.id}]
        /\ UNCHANGED <<counter, answers, hurt>> /\ calls' = calls \ {call}
    BY <1>1, <1>10 DEF Accept, Begin
  <2>2. /\ DOMAIN frames' = DOMAIN frames \cup {call.key} /\ frames'[call.key].id = call.id
        /\ \A k \in DOMAIN frames : k # call.key => frames'[k] = frames[k]
    BY <1>0, <1>1, <2>1, BeginFacts
  <2>3. \A r \in Ranks : \A id : id \in processedQueries'[r] <=>
           id \in processedQueries[r] \/ (r = RankOf(call.key) /\ id = call.id)
    BY <1>0, <1>1, <2>1 DEF TypeOK
  <2>4. call.id < counter /\ \A k \in DOMAIN frames : k.client # call.key.client => frames[k].id # call.id
    BY <1>6, <2>1 DEF NumbersDiffer
  <2>5. NumbersDiffer'
    <3>1. \A k \in DOMAIN frames' : \/ frames'[k].id = call.id /\ k.client = call.key.client
                                    \/ k \in DOMAIN frames /\ frames'[k] = frames[k]
      BY <2>2
    <3>2. /\ \A r \in Ranks : \A id \in processedQueries'[r] : id < counter'
          /\ \A k \in DOMAIN frames' : frames'[k].id < counter'
          /\ \A other \in calls' : ~IsRoot(other.key) => other.id < counter'
      BY <1>6, <2>1, <2>3, <2>4, <3>1 DEF NumbersDiffer
    <3>3. \A k, l \in DOMAIN frames' : frames'[k].id = frames'[l].id => k.client = l.client
      <4>1. \A k, l \in DOMAIN frames : frames[k].id = frames[l].id => k.client = l.client
        BY <1>6 DEF NumbersDiffer
      <4> QED BY <2>4, <3>1, <4>1
    <3>4. \A other \in calls', k \in DOMAIN frames' :
             ~IsRoot(other.key) /\ other.id = frames'[k].id => other.key.client = k.client
      BY <1>6, <2>1, <3>1 DEF NumbersDiffer
    <3>5. \A one, other \in calls' :
             ~IsRoot(one.key) /\ ~IsRoot(other.key) /\ one.id = other.id => one.key.client = other.key.client
      BY <1>6, <2>1 DEF NumbersDiffer
    <3> QED BY <3>2, <3>3, <3>4, <3>5 DEF NumbersDiffer, IsRoot
  <2>6. call.key.client \notin hurt' => ClientOK(call.key.client)'
    BY <1>1, <1>6, <2>1, BeginClientOK
  <2> QED BY <1>1, <1>7, <2>1, <2>2, <2>3, <2>4, <2>5, <2>6
\* A reply changes the frame of the same client's handler at most.
<1>11. ASSUME NEW key \in Routes, NEW results \in [Ranks -> Nat], Reply(key, results),
              UNCHANGED <<counter, processedQueries, hurt>>,
              \A call : call.key.client # key.client => (call \in calls' <=> call \in calls),
              calls' \subseteq calls,
              key.client \notin hurt => ClientOK(key.client)'
       PROVE  NumbersDiffer' /\ \A d \in Clients \ hurt' : ClientOK(d)'
  <2>1. /\ DOMAIN frames' = DOMAIN frames \ {key}
        /\ \A k \in DOMAIN frames' : k.client # key.client => frames'[k] = frames[k]
        /\ \A k \in DOMAIN frames' : frames'[k].id = frames[k].id
        /\ \A c \in Clients : c # key.client => answers'[c] = answers[c]
    <3>1. CASE IsRoot(key)
      BY <1>0, <1>11, <3>1, ReplyFacts DEF TypeOK
    <3>2. CASE ~IsRoot(key)
      <4>1. /\ DOMAIN frames' = DOMAIN frames \ {key} /\ answers' = answers
            /\ \A k \in DOMAIN frames' :
                  frames'[k] = IF k = Caller(key) /\ Awaited(key)
                               THEN Resumed(frames[k], results) ELSE frames[k]
        BY <1>0, <1>11, <3>2, ReplyFacts
      <4>2. \A k \in DOMAIN frames' : frames'[k].id = frames[k].id
        BY <1>2, <1>11, <4>1, ResumedFacts
      <4> QED BY <3>2, <4>1, <4>2, CallerFacts
    <3> QED BY <3>1, <3>2
  <2>2. NumbersDiffer'
    BY <1>6, <1>11, <2>1, NumbersKept
  <2>3. \A k \in Routes : k.client # key.client =>
           /\ k \in DOMAIN frames' <=> k \in DOMAIN frames
           /\ k \in DOMAIN frames => frames'[k] = frames[k]
    BY <2>1
  <2> QED BY <1>7, <1>11, <2>1, <2>2, <2>3, RouteFacts
<1>12. ASSUME NEW call \in calls, Reject(call)
       PROVE  NumbersDiffer' /\ \A d \in Clients \ hurt' : ClientOK(d)'
  <2>1. /\ call.key \in Routes /\ ~IsRoot(call.key) /\ Reply(call.key, Nothing)
        /\ calls' = calls \ {call} /\ call.id \in processedQueries[RankOf(call.key)]
        /\ UNCHANGED <<counter, processedQueries, hurt>>
    BY <1>1, <1>12 DEF Reject
  <2>2. Nothing \in [Ranks -> Nat]
    BY DEF Nothing
  <2>3. ASSUME call.key.client \notin hurt
        PROVE  ClientOK(call.key.client)'
    <3>1. ClientOK(call.key.client)
      BY <1>1, <1>6, <2>3
    <3>2. Awaited(call.key)
      BY <2>1, <3>1 DEF ClientOK, AllAwaited
    <3>3. \A k \in DOMAIN frames : k.client = call.key.client =>
             Len(k.path) < Len(call.key.path) /\ frames[k].id \in processedQueries[RankOf(call.key)]
      BY <2>1, <3>1 DEF ClientOK, OneAtATime, Once, OneNumber
    <3>4. call.key \notin DOMAIN frames
      <4>1. Len(call.key.path) \in Nat
        BY <2>1, RouteFacts
      <4> QED BY <3>3, <4>1
    <3>5. \A other \in calls' : other.key.client # call.key.client
      BY <2>1, <3>1 DEF ClientOK, OneAtATime
    <3> QED BY <2>1, <2>2, <3>1, <3>2, <3>3, <3>4, <3>5, ReplyClientOK
  <2> QED BY <1>11, <2>1, <2>2, <2>3
<1>13. ASSUME NEW key \in DOMAIN frames, QueryPeer(key)
       PROVE  NumbersDiffer' /\ \A d \in Clients \ hurt' : ClientOK(d)'
  <2>1. PICK called \in Routes :
           /\ called.client = key.client
           /\ calls' = calls \cup {[key |-> called, id |-> frames[key].id]}
           /\ UNCHANGED <<counter, processedQueries, answers, hurt>> /\ DOMAIN frames' = DOMAIN frames
    <3>1. CalledBy(key) \in Routes /\ CalledBy(key).client = key.client
      BY <1>0, <1>13, CalledByFacts DEF QueryPeer
    <3> QED BY <1>13, <3>1 DEF QueryPeer
  <2>2. \A k \in DOMAIN frames : frames'[k].id = frames[k].id
    BY <1>2, <1>13 DEF QueryPeer, IsFrame
  <2>3. \A k \in DOMAIN frames : k # key => frames'[k] = frames[k]
    BY <1>13 DEF QueryPeer
  <2>4. NumbersDiffer'
    <3> DEFINE call == [key |-> called, id |-> frames[key].id]
    <3>1. call.key.client = key.client /\ call.id = frames[key].id /\ calls' = calls \cup {call}
      BY <2>1
    <3> HIDE DEF call
    <3>2. /\ \A r \in Ranks : \A id \in processedQueries'[r] : id < counter'
          /\ \A k \in DOMAIN frames' : frames'[k].id < counter'
          /\ \A other \in calls' : ~IsRoot(other.key) => other.id < counter'
      BY <1>6, <2>1, <2>2, <3>1 DEF NumbersDiffer
    <3>3. /\ \A k, l \in DOMAIN frames : frames[k].id = frames[l].id => k.client = l.client
          /\ \A other \in calls', k \in DOMAIN frames :
                ~IsRoot(other.key) /\ other.id = frames[k].id => other.key.client = k.client
      BY <1>6, <3>1 DEF NumbersDiffer
    <3>4. \A one, other \in calls' :
             ~IsRoot(one.key) /\ ~IsRoot(other.key) /\ one.id = other.id => one.key.client = other.key.client
      BY <1>6, <3>1, <3>3 DEF NumbersDiffer
    <3> QED BY <2>1, <2>2, <3>2, <3>3, <3>4 DEF NumbersDiffer, IsRoot
  <2>5. key.client \notin hurt' => ClientOK(key.client)'
    BY <1>2, <1>6, <1>13, <2>1, QueryPeerClientOK
  <2> QED BY <1>2, <1>7, <2>1, <2>3, <2>4, <2>5
<1>14. ASSUME NEW key \in DOMAIN frames, Return(key)
       PROVE  NumbersDiffer' /\ \A d \in Clients \ hurt' : ClientOK(d)'
  <2>1. /\ key \in Routes /\ frames[key].collected \in [Ranks -> Nat] /\ Reply(key, frames[key].collected)
        /\ ~frames[key].waiting /\ frames[key].next > Len(logical_neighbors[RankOf(key)])
        /\ UNCHANGED <<counter, processedQueries, calls, hurt>>
    BY <1>2, <1>14 DEF Return, IsFrame
  <2>2. ASSUME key.client \notin hurt
        PROVE  ClientOK(key.client)'
    <3>1. ClientOK(key.client)
      BY <1>2, <1>6, <2>2
    <3>2. CASE IsRoot(key)
      BY <1>14, <3>1, <3>2, ReturnRootClientOK
    <3>3. CASE ~IsRoot(key)
      <4>1. Awaited(key)
        BY <3>1, <3>3 DEF ClientOK, AllAwaited
      <4>2. \A k \in DOMAIN frames : k.client = key.client /\ k # key => Len(k.path) < Len(key.path)
        <5>1. \A k \in DOMAIN frames : Len(k.path) \in Nat
          BY <1>2, RouteFacts
        <5> QED BY <2>1, <3>1, <5>1 DEF ClientOK, OneAtATime
      <4>3. \A k \in DOMAIN frames : k.client = key.client => frames[k].id \in processedQueries[RankOf(key)]
        <5>1. frames[key].id \in processedQueries[RankOf(key)]
          BY <3>3 DEF Once, CollectedOnce
        <5> QED BY <5>1 DEF Once, OneNumber
      <4>4. \A call \in calls' : call.key.client # key.client
        BY <2>1, <3>1 DEF ClientOK, OneAtATime
      <4> QED BY <2>1, <3>1, <3>3, <4>1, <4>2, <4>3, <4>4, ReplyClientOK
    <3> QED BY <3>2, <3>3
  <2> QED BY <1>11, <2>1, <2>2
<1>15. ASSUME NEW key \in DOMAIN frames, QueryPeerFails(key)
       PROVE  NumbersDiffer' /\ \A d \in Clients \ hurt' : ClientOK(d)'
  <2>1. /\ UNCHANGED <<counter, processedQueries, calls, answers>>
        /\ hurt' = hurt \cup {key.client} /\ DOMAIN frames' = DOMAIN frames
        /\ \A k \in DOMAIN frames : k # key => frames'[k] = frames[k]
        /\ frames'[key] = Resumed(frames[key], Nothing)
    BY <1>2, <1>15 DEF QueryPeerFails
  <2>2. \A k \in DOMAIN frames : frames'[k].id = frames[k].id
    <3>1. Nothing \in [Ranks -> Nat]
      BY DEF Nothing
    <3> QED BY <1>2, <2>1, <3>1, ResumedFacts
  <2>3. NumbersDiffer'
    BY <1>6, <2>1, <2>2, NumbersKept
  <2> QED BY <1>2, <1>7, <2>1, <2>3
<1>16. ASSUME NEW call \in calls, Cancel(call)
       PROVE  NumbersDiffer' /\ \A d \in Clients \ hurt' : ClientOK(d)'
  <2>1. /\ calls' = calls \ {call} /\ ~Awaited(call.key) /\ ~IsRoot(call.key)
        /\ UNCHANGED <<counter, processedQueries, frames, answers, hurt>>
    <3>1. calls' = calls \ {call} /\ ~Awaited(call.key) /\ Len(call.key.path) > 1
      BY <1>16 DEF Cancel
    <3>2. ~IsRoot(call.key)
      <4>1. Len(call.key.path) \in Nat
        BY <1>1, RouteFacts
      <4>2. \A n \in Nat : n > 1 => n # 1
        OBVIOUS
      <4> QED BY <3>1, <4>1, <4>2 DEF IsRoot
    <3> QED BY <1>16, <3>1, <3>2 DEF Cancel
  <2>2. call.key.client \in hurt
    BY <1>1, <1>6, <2>1 DEF ClientOK, AllAwaited
  <2>3. NumbersDiffer'
    BY <1>6, <2>1, NumbersKept
  <2> QED BY <1>1, <1>7, <2>1, <2>2, <2>3
<1>17. CASE UNCHANGED vars
  <2>1. NumbersDiffer'
    BY <1>6, <1>17, NumbersKept DEF vars
  <2>2. ASSUME NEW c \in Clients \ hurt' PROVE ClientOK(c)'
    BY <1>0, <1>2, <1>6, <1>17, OthersUntouched DEF vars
  <2> QED BY <2>1, <2>2
<1> QED BY <1>4, <1>8, <1>9, <1>10, <1>12, <1>13, <1>14, <1>15, <1>16, <1>17 DEF Next, Serve

\* If every rank can be reached from rank 0, an answer has the results of all of
\* them unless one of its calls has failed: on no topology does a path on which
\* a query is turned down cost its results.
THEOREM WholeUnlessCallsFail == EveryRankReachable => (Spec => []AnswersAreWhole)
<1> SUFFICES ASSUME EveryRankReachable PROVE Spec => []AnswersAreWhole
  OBVIOUS
<1>1. Once /\ Unharmed => AnswersAreWhole
  BY DEF Unharmed, ClientOK, AnsweredWhole, AnswersAreWhole
<1>2. Init => Once /\ Unharmed
  BY OnceInit, UnharmedInit
<1>3. Once /\ Unharmed /\ [Next]_vars => (Once /\ Unharmed)'
  BY OnceStep, UnharmedStep
<1> QED BY <1>1, <1>2, <1>3, PTL DEF Spec

-----------------------------------------------------------------------------
(* Every call ends: there is always something that can be done for a client  *)
(* that waits, and always less that is left to do.                           *)

\* The rank a call comes from.
CalledFrom(call) == RankOf([call.key EXCEPT !.path = Front(@)])

\* The loop over the neighbours of r is at the i-th, which has been called, or behind it.
PastCall(f, i) == f.next > i \/ (f.next = i /\ f.waiting)

\* A client has one frame at a rank, each call is of a neighbour of a rank the query
\* has come to, whose frame has made it, and no neighbour is called twice.
FramesApart ==
    \A k, l \in DOMAIN frames : k.client = l.client /\ RankOf(k) = RankOf(l) => k = l

LoopBound == \A k \in DOMAIN frames : frames[k].next <= Len(logical_neighbors[RankOf(k)]) + 1

CallsFollow ==
    \A call \in calls : ~IsRoot(call.key) =>
        LET r == CalledFrom(call)
        IN  /\ r = 0 \/ call.id \in processedQueries[r]
            /\ \E i \in DOMAIN logical_neighbors[r] :
                  /\ logical_neighbors[r][i] = RankOf(call.key)
                  /\ \A k \in DOMAIN frames :
                        k.client = call.key.client /\ RankOf(k) = r => PastCall(frames[k], i)

\* For one client, from the same rank to the same neighbour.
SameCall(call, other) ==
    /\ ~IsRoot(call.key) /\ ~IsRoot(other.key) /\ call.key.client = other.key.client
    /\ CalledFrom(call) = CalledFrom(other) /\ RankOf(call.key) = RankOf(other.key)

CallsApart == \A call, other \in calls : SameCall(call, other) => call = other

Apart == FramesApart /\ LoopBound /\ CallsFollow /\ CallsApart

LEMMA CallsApartNext ==
    CallsApart' <=> \A call, other \in calls' : SameCall(call, other) => call = other
BY DEF CallsApart, SameCall, CalledFrom, RankOf, IsRoot

\* A step by which nothing is begun for c.
Fewer(c) ==
    /\ \A call \in calls' : call.key.client = c => call \in calls
    /\ \A k \in DOMAIN frames' : k.client = c =>
          /\ k \in DOMAIN frames /\ frames'[k].id = frames[k].id
          /\ \/ frames'[k].next = frames[k].next /\ frames'[k].waiting = frames[k].waiting
             \/ frames'[k].next = frames[k].next + 1 /\ frames[k].waiting /\ ~frames'[k].waiting
    /\ \A r \in Ranks : processedQueries[r] \subseteq processedQueries'[r]
    /\ answers[c].state # "none" => answers'[c].state # "none"

LEMMA CalledFromFacts ==
    ASSUME TypeOK, NEW call \in calls
    PROVE  /\ call.key \in Routes /\ call.key.client \in Clients /\ call.id \in Nat
           /\ RankOf(call.key) \in Ranks /\ (RankOf(call.key) = 0 <=> IsRoot(call.key))
           /\ (Len(call.key.path) > 1 <=> ~IsRoot(call.key))
           /\ ~IsRoot(call.key) => CalledFrom(call) \in Ranks
<1>1. call.key \in Routes /\ call.id \in Nat
  BY DEF TypeOK
<1>2. Len(call.key.path) \in Nat \ {0} /\ (\A n \in Nat \ {0} : n > 1 <=> n # 1)
  BY <1>1, RouteFacts
<1>3. Len(call.key.path) > 1 <=> ~IsRoot(call.key)
  BY <1>2 DEF IsRoot
<1>4. ~IsRoot(call.key) => CalledFrom(call) \in Ranks
  BY <1>1, CallerFacts, RouteFacts DEF CalledFrom
<1> QED BY <1>1, <1>3, <1>4, RouteFacts

LEMMA FrameFacts ==
    ASSUME TypeOK, NEW k \in DOMAIN frames
    PROVE  /\ k \in Routes /\ k.client \in Clients /\ RankOf(k) \in Ranks
           /\ (RankOf(k) = 0 <=> IsRoot(k))
           /\ frames[k].next \in Nat \ {0} /\ frames[k].waiting \in BOOLEAN /\ frames[k].id \in Nat
           /\ Len(logical_neighbors[RankOf(k)]) \in Nat
<1>1. k \in Routes /\ IsFrame(frames[k])
  BY DEF TypeOK
<1>2. Len(logical_neighbors[RankOf(k)]) \in Nat
  BY <1>1, RouteFacts, RankFacts
<1> QED BY <1>1, <1>2, RouteFacts DEF IsFrame

LEMMA IndexFacts ==
    ASSUME NEW r \in Ranks
    PROVE  /\ Len(logical_neighbors[r]) \in Nat
           /\ DOMAIN logical_neighbors[r] = 1 .. Len(logical_neighbors[r])
<1>1. logical_neighbors[r] \in Seq(Ranks \ {0})
  BY RankFacts
<1> QED BY <1>1

\* The neighbours of a rank differ.
LEMMA NeighboursDiffer ==
    ASSUME NEW r \in Ranks, NEW i \in DOMAIN logical_neighbors[r], NEW j \in DOMAIN logical_neighbors[r],
           logical_neighbors[r][i] = logical_neighbors[r][j]
    PROVE  i = j
BY SyncAssumption DEF IsInjective

LEMMA FewerKeepsApart ==
    ASSUME Once, Apart, \A c \in Clients : Fewer(c), TypeOK', LoopOK'
    PROVE  Apart'
<1>0. TypeOK /\ LoopOK
  BY DEF Once
<1>1. /\ \A call \in calls' : call \in calls /\ call.key.client \in Clients
      /\ \A k \in DOMAIN frames' : k \in DOMAIN frames /\ k.client \in Clients
  BY <1>0, CalledFromFacts, RouteFacts DEF Fewer, TypeOK
<1>2. \A k \in DOMAIN frames' :
         /\ frames[k].next \in Nat /\ k \in DOMAIN frames
         /\ \/ frames'[k].next = frames[k].next /\ frames'[k].waiting = frames[k].waiting
            \/ frames'[k].next = frames[k].next + 1 /\ frames[k].waiting
  BY <1>0, <1>1, FrameFacts DEF Fewer
<1>3. FramesApart'
  BY <1>1 DEF Apart, FramesApart, RankOf
<1>4. LoopBound'
  <2> SUFFICES ASSUME NEW k \in DOMAIN frames'
               PROVE  frames'[k].next <= Len(logical_neighbors[RankOf(k)]) + 1
    BY DEF LoopBound, RankOf
  <2>1. Len(logical_neighbors[RankOf(k)]) \in Nat /\ frames[k].next <= Len(logical_neighbors[RankOf(k)]) + 1
        /\ (frames[k].waiting => frames[k].next <= Len(logical_neighbors[RankOf(k)]))
    BY <1>0, <1>2, FrameFacts DEF Apart, LoopBound, LoopOK
  <2> QED BY <1>2, <2>1
<1>5. CallsFollow'
  <2> SUFFICES ASSUME NEW call \in calls', ~IsRoot(call.key)
               PROVE  /\ CalledFrom(call) = 0 \/ call.id \in processedQueries'[CalledFrom(call)]
                      /\ \E i \in DOMAIN logical_neighbors[CalledFrom(call)] :
                            /\ logical_neighbors[CalledFrom(call)][i] = RankOf(call.key)
                            /\ \A k \in DOMAIN frames' :
                                  k.client = call.key.client /\ RankOf(k) = CalledFrom(call) =>
                                      PastCall(frames'[k], i)
    BY DEF CallsFollow, CalledFrom, RankOf, IsRoot, PastCall
  <2>1. call \in calls /\ call.key.client \in Clients /\ CalledFrom(call) \in Ranks
    BY <1>0, <1>1, CalledFromFacts
  <2>2. CalledFrom(call) = 0 \/ call.id \in processedQueries'[CalledFrom(call)]
    BY <2>1 DEF Apart, CallsFollow, Fewer
  <2>3. PICK i \in DOMAIN logical_neighbors[CalledFrom(call)] :
           /\ logical_neighbors[CalledFrom(call)][i] = RankOf(call.key)
           /\ \A k \in DOMAIN frames :
                 k.client = call.key.client /\ RankOf(k) = CalledFrom(call) => PastCall(frames[k], i)
    BY <2>1 DEF Apart, CallsFollow
  <2>4. i \in Nat
    BY <2>1, <2>3, IndexFacts
  <2>5. ASSUME NEW k \in DOMAIN frames', k.client = call.key.client, RankOf(k) = CalledFrom(call)
        PROVE  PastCall(frames'[k], i)
    <3>1. PastCall(frames[k], i)
      BY <1>2, <2>3, <2>5
    <3> QED BY <1>2, <2>4, <3>1 DEF PastCall
  <2> QED BY <2>2, <2>3, <2>5
<1>6. CallsApart'
  BY <1>1, CallsApartNext DEF Apart, CallsApart
<1> QED BY <1>3, <1>4, <1>5, <1>6 DEF Apart

LEMMA ReplyFewer ==
    ASSUME TypeOK, NEW key \in Routes, NEW results \in [Ranks -> Nat], Reply(key, results),
           calls' \subseteq calls, processedQueries' = processedQueries
    PROVE  \A c \in Clients : Fewer(c)
<1>1. ASSUME NEW k \in DOMAIN frames'
      PROVE  /\ k \in DOMAIN frames /\ frames'[k].id = frames[k].id
             /\ \/ frames'[k].next = frames[k].next /\ frames'[k].waiting = frames[k].waiting
                \/ frames'[k].next = frames[k].next + 1 /\ frames[k].waiting /\ ~frames'[k].waiting
  <2>1. k \in DOMAIN frames
    BY ReplyFacts
  <2>2. IsFrame(frames[k])
    BY <2>1 DEF TypeOK
  <2>3. \/ frames'[k] = frames[k]
        \/ frames'[k] = Resumed(frames[k], results) /\ frames[k].waiting
    <3>1. CASE IsRoot(key)
      BY <3>1, ReplyFacts
    <3>2. CASE ~IsRoot(key)
      <4>1. frames'[k] = IF k = Caller(key) /\ Awaited(key) THEN Resumed(frames[k], results) ELSE frames[k]
        <5>1. \A j \in DOMAIN frames' :
                 frames'[j] = IF j = Caller(key) /\ Awaited(key) THEN Resumed(frames[j], results) ELSE frames[j]
          BY <3>2, ReplyFacts
        <5> QED BY <5>1
      <4>2. Awaited(key) => frames[Caller(key)].waiting
        BY <3>2, ReplyFacts
      <4> QED BY <4>1, <4>2
    <3> QED BY <3>1, <3>2
  <2> QED BY <2>1, <2>2, <2>3, ResumedFacts
<1>2. ASSUME NEW c \in Clients PROVE answers[c].state # "none" => answers'[c].state # "none"
  <2>1. \/ answers' = answers
        \/ answers' = [answers EXCEPT ![key.client] = [state |-> "answered", results |-> results]]
    BY ReplyFacts
  <2>2. answers'[c] = answers[c] \/ answers'[c] = [state |-> "answered", results |-> results]
    BY <2>1 DEF TypeOK
  <2> QED BY <2>2
<1> QED BY <1>1, <1>2 DEF Fewer

LEMMA FailsFewer ==
    ASSUME TypeOK, NEW key \in DOMAIN frames, QueryPeerFails(key)
    PROVE  /\ \A c \in Clients : Fewer(c)
           /\ DOMAIN frames' = DOMAIN frames /\ frames[key].waiting
           /\ frames'[key].next = frames[key].next + 1
<1>1. IsFrame(frames[key]) /\ Nothing \in [Ranks -> Nat]
  BY DEF TypeOK, Nothing
<1>2. /\ DOMAIN frames' = DOMAIN frames /\ frames[key].waiting
      /\ \A k \in DOMAIN frames : frames'[k] = IF k = key THEN Resumed(frames[k], Nothing) ELSE frames[k]
      /\ UNCHANGED <<processedQueries, calls, answers>>
  BY DEF QueryPeerFails
<1> QED BY <1>1, <1>2, ResumedFacts DEF Fewer

LEMMA CancelFewer ==
    ASSUME NEW call \in calls, Cancel(call) \/ UNCHANGED vars PROVE \A c \in Clients : Fewer(c)
BY DEF Cancel, vars, Fewer

LEMMA RestartFewer ==
    ASSUME TypeOK, Restart PROVE \A c \in Clients : Fewer(c)
<1>1. /\ processedQueries' = processedQueries /\ calls' \subseteq calls
      /\ \A k \in DOMAIN frames' : k \in DOMAIN frames /\ frames'[k] = frames[k]
  BY DEF Restart
<1>2. \A c \in Clients : answers[c].state # "none" => answers'[c].state # "none"
  <2> SUFFICES ASSUME NEW c \in Clients, answers[c].state # "none" PROVE answers'[c].state # "none"
    OBVIOUS
  <2>1. answers'[c] = answers[c] \/ answers'[c] = [answers[c] EXCEPT !.state = "error"]
    BY DEF Restart
  <2>2. answers[c] \in [state : States, results : [Ranks -> Nat]]
    BY DEF TypeOK
  <2> QED BY <2>1, <2>2
<1> QED BY <1>1, <1>2 DEF Fewer

\* A handler begins at a rank where the client has no frame, and that nothing has
\* been called from for it.
LEMMA BeginKeepsApart ==
    ASSUME Once, Apart, NEW call \in calls, NEW id \in Nat, Begin(call, id),
           \A r \in Ranks : processedQueries[r] \subseteq processedQueries'[r],
           \A k \in DOMAIN frames : k.client = call.key.client => RankOf(k) # RankOf(call.key),
           \A other \in calls :
              other # call /\ ~IsRoot(other.key) /\ other.key.client = call.key.client =>
                  CalledFrom(other) # RankOf(call.key)
    PROVE  Apart'
<1>0. TypeOK
  BY DEF Once
<1>1. /\ calls' = calls \ {call} /\ DOMAIN frames' = DOMAIN frames \cup {call.key}
      /\ frames'[call.key].next = 1
      /\ \A k \in DOMAIN frames : k # call.key => frames'[k] = frames[k]
  BY <1>0, BeginFacts
<1>2. call.key \notin DOMAIN frames /\ RankOf(call.key) \in Ranks
  BY <1>0, CalledFromFacts
<1>3. FramesApart'
  BY <1>1 DEF Apart, FramesApart, RankOf
<1>4. LoopBound'
  <2>1. Len(logical_neighbors[RankOf(call.key)]) \in Nat
    BY <1>2, IndexFacts
  <2> QED BY <1>1, <1>2, <2>1 DEF Apart, LoopBound, RankOf
<1>5. CallsFollow'
  <2> SUFFICES ASSUME NEW other \in calls', ~IsRoot(other.key)
               PROVE  /\ CalledFrom(other) = 0 \/ other.id \in processedQueries'[CalledFrom(other)]
                      /\ \E i \in DOMAIN logical_neighbors[CalledFrom(other)] :
                            /\ logical_neighbors[CalledFrom(other)][i] = RankOf(other.key)
                            /\ \A k \in DOMAIN frames' :
                                  k.client = other.key.client /\ RankOf(k) = CalledFrom(other) =>
                                      PastCall(frames'[k], i)
    BY DEF CallsFollow, CalledFrom, RankOf, IsRoot, PastCall
  <2>1. other \in calls /\ other # call /\ CalledFrom(other) \in Ranks
    BY <1>0, <1>1, CalledFromFacts
  <2>2. CalledFrom(other) = 0 \/ other.id \in processedQueries'[CalledFrom(other)]
    BY <2>1 DEF Apart, CallsFollow
  <2>3. PICK i \in DOMAIN logical_neighbors[CalledFrom(other)] :
           /\ logical_neighbors[CalledFrom(other)][i] = RankOf(other.key)
           /\ \A k \in DOMAIN frames :
                 k.client = other.key.client /\ RankOf(k) = CalledFrom(other) => PastCall(frames[k], i)
    BY <2>1 DEF Apart, CallsFollow
  <2>4. ASSUME NEW k \in DOMAIN frames', k.client = other.key.client, RankOf(k) = CalledFrom(other)
        PROVE  PastCall(frames'[k], i)
    <3>1. k # call.key
      BY <2>1, <2>4
    <3> QED BY <1>1, <2>3, <2>4, <3>1
  <2> QED BY <2>2, <2>3, <2>4
<1>6. CallsApart'
  BY <1>1, CallsApartNext DEF Apart, CallsApart
<1> QED BY <1>3, <1>4, <1>5, <1>6 DEF Apart

LEMMA AcceptFacts ==
    ASSUME Once, NEW call \in calls, Accept(call)
    PROVE  /\ Begin(call, call.id) /\ ~IsRoot(call.key) /\ RankOf(call.key) \in Ranks \ {0}
           /\ call.id \notin processedQueries[RankOf(call.key)]
           /\ call.id \in processedQueries'[RankOf(call.key)]
           /\ \A r \in Ranks : processedQueries[r] \subseteq processedQueries'[r]
           /\ \A other \in calls : other.key.client = call.key.client =>
                 other.id = call.id /\ ~IsRoot(other.key)
           /\ \A k \in DOMAIN frames : k.client = call.key.client => frames[k].id = call.id
<1>0. TypeOK
  BY DEF Once
<1>1. /\ RankOf(call.key) \in Ranks \ {0} /\ ~IsRoot(call.key) /\ Begin(call, call.id)
      /\ call.id \notin processedQueries[RankOf(call.key)]
      /\ processedQueries' = [processedQueries EXCEPT ![RankOf(call.key)] = @ \cup {call.id}]
  BY <1>0, CalledFromFacts DEF Accept
<1>2. /\ call.id \in processedQueries'[RankOf(call.key)]
      /\ \A r \in Ranks : processedQueries[r] \subseteq processedQueries'[r]
  BY <1>0, <1>1 DEF TypeOK
<1>3. \A other \in calls : other.key.client = call.key.client => other.id = call.id /\ ~IsRoot(other.key)
  <2> SUFFICES ASSUME NEW other \in calls, other.key.client = call.key.client
               PROVE  other.id = call.id /\ ~IsRoot(other.key)
    OBVIOUS
  <2>1. other.id = call.id
    BY DEF Once, OneNumber
  <2>2. IsRoot(other.key) => call = other
    BY DEF Once, BeginsWithRoot
  <2> QED BY <1>1, <2>1, <2>2
<1>4. \A k \in DOMAIN frames : k.client = call.key.client => frames[k].id = call.id
  BY DEF Once, OneNumber
<1> QED BY <1>1, <1>2, <1>3, <1>4

LEMMA NumberFacts ==
    ASSUME Once, NEW call \in calls, Number(call)
    PROVE  /\ Begin(call, counter) /\ counter \in Nat /\ IsRoot(call.key) /\ RankOf(call.key) = 0
           /\ processedQueries' = processedQueries
           /\ \A other \in calls : other.key.client = call.key.client => other = call
           /\ \A k \in DOMAIN frames : k.client # call.key.client
<1>1. TypeOK
  BY DEF Once
<1>2. /\ Begin(call, counter) /\ counter \in Nat /\ IsRoot(call.key) /\ RankOf(call.key) = 0
      /\ processedQueries' = processedQueries
  BY <1>1, CalledFromFacts DEF Number, TypeOK
<1> QED BY <1>2 DEF Once, BeginsWithRoot

LEMMA QueryPeerFacts ==
    ASSUME Once, NEW key \in DOMAIN frames, QueryPeer(key)
    PROVE  LET call == [key |-> CalledBy(key), id |-> frames[key].id]
           IN  /\ calls' = calls \cup {call} /\ ~IsRoot(call.key) /\ RankOf(call.key) # 0
               /\ call.key.client = key.client /\ CalledFrom(call) = RankOf(key)
               /\ frames[key].next \in DOMAIN logical_neighbors[RankOf(key)]
               /\ RankOf(call.key) = logical_neighbors[RankOf(key)][frames[key].next]
               /\ ~frames[key].waiting /\ frames'[key].waiting
               /\ DOMAIN frames' = DOMAIN frames
               /\ \A k \in DOMAIN frames :
                     /\ frames'[k].id = frames[k].id /\ frames'[k].next = frames[k].next
                     /\ k # key => frames'[k].waiting = frames[k].waiting
               /\ UNCHANGED <<processedQueries, answers>>
<1> DEFINE call == [key |-> CalledBy(key), id |-> frames[key].id]
<1>0. TypeOK /\ \A k \in DOMAIN frames : IsFrame(frames[k])
  BY DEF Once, TypeOK
<1>1. /\ calls' = calls \cup {call} /\ call.key \in Routes /\ ~IsRoot(call.key)
      /\ call.key.client = key.client /\ ~frames[key].waiting
      /\ [call.key EXCEPT !.path = Front(@)] = key
      /\ RankOf(call.key) = logical_neighbors[RankOf(key)][frames[key].next]
      /\ frames[key].next \in 1 .. Len(logical_neighbors[RankOf(key)])
      /\ UNCHANGED <<processedQueries, answers>>
  BY <1>0, CalledByFacts DEF QueryPeer
<1>2. frames[key].next \in DOMAIN logical_neighbors[RankOf(key)]
  BY <1>0, <1>1, FrameFacts, IndexFacts
<1>3. /\ DOMAIN frames' = DOMAIN frames /\ frames'[key].waiting
      /\ \A k \in DOMAIN frames :
            /\ frames'[k].id = frames[k].id /\ frames'[k].next = frames[k].next
            /\ k # key => frames'[k].waiting = frames[k].waiting
  <2>1. frames' = [frames EXCEPT ![key] = [frames[key] EXCEPT !.waiting = TRUE]]
    BY DEF QueryPeer
  <2>2. PICK f : f = [frames[key] EXCEPT !.waiting = TRUE]
    OBVIOUS
  <2>3. f.waiting = TRUE /\ f.id = frames[key].id /\ f.next = frames[key].next
    BY <1>0, <2>2 DEF IsFrame
  <2> QED BY <2>1, <2>2, <2>3
<1>4. RankOf(call.key) # 0 /\ CalledFrom(call) = RankOf(key)
  BY <1>1, RouteFacts DEF CalledFrom
<1> HIDE DEF call
<1>5. call = [key |-> CalledBy(key), id |-> frames[key].id]
  BY DEF call
<1> QED BY <1>1, <1>2, <1>3, <1>4, <1>5

LEMMA ApartInit == Init => Apart
BY DEF Init, Apart, FramesApart, LoopBound, CallsFollow, CallsApart

LEMMA ApartStep ==
    ASSUME Once, Apart, [Next]_vars PROVE Apart'
<1>0. TypeOK /\ TypeOK' /\ LoopOK'
  BY OnceStep DEF Once
<1>1. ASSUME \A c \in Clients : Fewer(c) PROVE Apart'
  BY <1>0, <1>1, FewerKeepsApart
<1>2. ASSUME NEW c \in Clients, Submit(c) PROVE Apart'
  <2> DEFINE call == [key |-> [client |-> c, path |-> <<0>>], id |-> 1]
  <2>1. /\ calls' = calls \cup {call} /\ IsRoot(call.key)
        /\ UNCHANGED <<frames, processedQueries>>
    BY <1>2 DEF Submit, IsRoot
  <2> HIDE DEF call
  <2>2. FramesApart' /\ LoopBound'
    BY <2>1 DEF Apart, FramesApart, LoopBound, RankOf
  <2>3. \A other \in calls' : ~IsRoot(other.key) => other \in calls
    BY <2>1
  <2>4. CallsFollow'
    BY <2>1, <2>3 DEF Apart, CallsFollow, PastCall, CalledFrom, RankOf, IsRoot
  <2>5. CallsApart'
    BY <2>3, CallsApartNext DEF Apart, CallsApart, SameCall
  <2> QED BY <2>2, <2>4, <2>5 DEF Apart
<1>3. ASSUME NEW call \in calls, Number(call) PROVE Apart'
  BY <1>3, NumberFacts, BeginKeepsApart
<1>4. ASSUME NEW call \in calls, Accept(call) PROVE Apart'
  <2>1. ASSUME NEW k \in DOMAIN frames, k.client = call.key.client PROVE RankOf(k) # RankOf(call.key)
    <3>1. IsRoot(k) \/ frames[k].id \in processedQueries[RankOf(k)]
      BY DEF Once, CollectedOnce
    <3> QED BY <1>0, <1>4, <2>1, <3>1, AcceptFacts, FrameFacts
  <2>2. ASSUME NEW other \in calls, ~IsRoot(other.key), other.key.client = call.key.client
        PROVE  CalledFrom(other) # RankOf(call.key)
    <3>1. CalledFrom(other) = 0 \/ other.id \in processedQueries[CalledFrom(other)]
      BY <2>2 DEF Apart, CallsFollow
    <3> QED BY <1>4, <2>2, <3>1, AcceptFacts
  <2>3. call.id \in Nat
    BY <1>0, CalledFromFacts
  <2> QED BY <1>4, <2>1, <2>2, <2>3, AcceptFacts, BeginKeepsApart
<1>5. ASSUME NEW call \in calls, Reject(call) PROVE Apart'
  <2>1. call.key \in Routes /\ Nothing \in [Ranks -> Nat] /\ Reply(call.key, Nothing)
        /\ calls' \subseteq calls /\ processedQueries' = processedQueries
    BY <1>0, <1>5, CalledFromFacts DEF Reject, Nothing
  <2> QED BY <1>0, <1>1, <2>1, ReplyFewer
<1>6. ASSUME NEW key \in DOMAIN frames, QueryPeer(key) PROVE Apart'
  <2> DEFINE call == [key |-> CalledBy(key), id |-> frames[key].id]
             r == RankOf(key)
  <2>1. /\ calls' = calls \cup {call} /\ ~IsRoot(call.key)
        /\ call.key.client = key.client /\ CalledFrom(call) = r
        /\ frames[key].next \in DOMAIN logical_neighbors[r]
        /\ RankOf(call.key) = logical_neighbors[r][frames[key].next]
        /\ ~frames[key].waiting /\ frames'[key].waiting
        /\ DOMAIN frames' = DOMAIN frames
        /\ \A k \in DOMAIN frames :
              /\ frames'[k].id = frames[k].id /\ frames'[k].next = frames[k].next
              /\ k # key => frames'[k].waiting = frames[k].waiting
        /\ processedQueries' = processedQueries
    BY <1>6, QueryPeerFacts
  <2>2. call.id = frames[key].id /\ r \in Ranks /\ (r = 0 \/ frames[key].id \in processedQueries[r])
    BY <1>0, FrameFacts DEF Once, CollectedOnce
  <2> HIDE DEF call
  <2>3. \A k \in DOMAIN frames : \A i \in Nat : PastCall(frames[k], i) => PastCall(frames'[k], i)
    BY <2>1 DEF PastCall
  <2>4. FramesApart' /\ LoopBound'
    BY <2>1 DEF Apart, FramesApart, LoopBound, RankOf
  <2>5. CallsFollow'
    <3>1. ASSUME NEW other \in calls, ~IsRoot(other.key)
          PROVE  \E i \in DOMAIN logical_neighbors[CalledFrom(other)] :
                    /\ logical_neighbors[CalledFrom(other)][i] = RankOf(other.key)
                    /\ \A k \in DOMAIN frames :
                          k.client = other.key.client /\ RankOf(k) = CalledFrom(other) =>
                              PastCall(frames'[k], i)
      <4>1. PICK i \in DOMAIN logical_neighbors[CalledFrom(other)] :
               /\ logical_neighbors[CalledFrom(other)][i] = RankOf(other.key)
               /\ \A k \in DOMAIN frames :
                     k.client = other.key.client /\ RankOf(k) = CalledFrom(other) => PastCall(frames[k], i)
        BY <3>1 DEF Apart, CallsFollow
      <4>2. i \in Nat
        BY <1>0, <3>1, <4>1, CalledFromFacts, IndexFacts
      <4> QED BY <2>3, <4>1, <4>2
    <3>2. \A k \in DOMAIN frames :
              k.client = call.key.client /\ RankOf(k) = CalledFrom(call) => PastCall(frames'[k], frames[key].next)
      BY <2>1 DEF Apart, FramesApart, PastCall
    <3>3. \A other \in calls : ~IsRoot(other.key) =>
              CalledFrom(other) = 0 \/ other.id \in processedQueries[CalledFrom(other)]
      BY DEF Apart, CallsFollow
    <3> SUFFICES ASSUME NEW other \in calls', ~IsRoot(other.key)
                 PROVE  /\ CalledFrom(other) = 0 \/ other.id \in processedQueries'[CalledFrom(other)]
                        /\ \E i \in DOMAIN logical_neighbors[CalledFrom(other)] :
                              /\ logical_neighbors[CalledFrom(other)][i] = RankOf(other.key)
                              /\ \A k \in DOMAIN frames' :
                                    k.client = other.key.client /\ RankOf(k) = CalledFrom(other) =>
                                        PastCall(frames'[k], i)
      BY DEF CallsFollow, CalledFrom, RankOf, IsRoot, PastCall
    <3>4. CASE other \in calls
      BY <2>1, <3>1, <3>3, <3>4
    <3>5. CASE other = call
      BY <2>1, <2>2, <3>2, <3>5
    <3> QED BY <2>1, <3>4, <3>5
  <2>6. CallsApart'
    <3>1. ASSUME NEW other \in calls, ~IsRoot(other.key), other.key.client = key.client,
                 CalledFrom(other) = r, RankOf(other.key) = RankOf(call.key)
          PROVE  FALSE
      <4>1. PICK i \in DOMAIN logical_neighbors[r] :
               logical_neighbors[r][i] = RankOf(other.key) /\ PastCall(frames[key], i)
        BY <3>1 DEF Apart, CallsFollow
      <4>2. i = frames[key].next
        BY <2>1, <2>2, <3>1, <4>1, NeighboursDiffer
      <4> QED BY <1>0, <2>1, <4>1, <4>2, FrameFacts DEF PastCall
    <3>2. ASSUME NEW a \in calls', NEW b \in calls', SameCall(a, b)
          PROVE  a = b
      <4>1. CASE a \in calls /\ b \in calls
        BY <3>2, <4>1 DEF Apart, CallsApart
      <4>2. CASE a = call /\ b \in calls
        BY <2>1, <3>1, <3>2, <4>2 DEF SameCall
      <4>3. CASE b = call /\ a \in calls
        BY <2>1, <3>1, <3>2, <4>3 DEF SameCall
      <4> QED BY <2>1, <3>2, <4>1, <4>2, <4>3
    <3> QED BY <3>2, CallsApartNext
  <2> QED BY <2>4, <2>5, <2>6 DEF Apart
<1>7. ASSUME NEW key \in DOMAIN frames, Return(key) PROVE Apart'
  <2>1. key \in Routes /\ frames[key].collected \in [Ranks -> Nat] /\ Reply(key, frames[key].collected)
        /\ calls' \subseteq calls /\ processedQueries' = processedQueries
    BY <1>0, <1>7 DEF Return, TypeOK, IsFrame
  <2> QED BY <1>0, <1>1, <2>1, ReplyFewer
<1>8. ASSUME NEW key \in DOMAIN frames, QueryPeerFails(key) PROVE Apart'
  BY <1>0, <1>1, <1>8, FailsFewer
<1>9. ASSUME NEW call \in calls, Cancel(call) PROVE Apart'
  BY <1>1, <1>9, CancelFewer
<1>10. CASE Restart
  BY <1>0, <1>1, <1>10, RestartFewer
<1>11. CASE UNCHANGED vars
  BY <1>11 DEF vars, Apart, FramesApart, LoopBound, CallsFollow, CallsApart, PastCall, CalledFrom, RankOf, IsRoot
<1> QED BY <1>2, <1>3, <1>4, <1>5, <1>6, <1>7, <1>8, <1>9, <1>10, <1>11 DEF Next, Serve

\* An open call of the i-th neighbour of r.
CallOpen(c, r, i) ==
    \E call \in calls :
        /\ call.key.client = c /\ ~IsRoot(call.key)
        /\ i \in DOMAIN logical_neighbors[r]
        /\ CalledFrom(call) = r
        /\ RankOf(call.key) = logical_neighbors[r][i]

LEMMA ExecutedFacts ==
    ASSUME NEW c, NEW r, NEW i
    PROVE  /\ NotExecuted(c, r, i) <=> NotCalled(c, r, i) \/ CallOpen(c, r, i)
           /\ NotExecuted(c, r, i)' <=> NotCalled(c, r, i)' \/ CallOpen(c, r, i)'
BY DEF NotExecuted, NotCalled, CallOpen, CalledFrom, IsRoot, RankOf

Left(c, r, i, kind) ==
    \/ ~HasCome(c, r)
    \/ kind = "call" /\ NotCalled(c, r, i)
    \/ kind = "execute" /\ NotExecuted(c, r, i)
    \/ kind = "wait" /\ NotReturned(c, r, i)

LEMMA TaskFacts ==
    /\ \A task \in Tasks : /\ task = <<task[1], task[2], task[3]>>
                           /\ task[1] \in Ranks /\ task[2] \in Nat
    /\ \A r \in Ranks : \A i \in Nat : \A kind \in {"call", "execute", "wait"} :
          i <= Len(logical_neighbors[r]) + 1 => <<r, i, kind>> \in Tasks
<1>1. ASSUME NEW task \in Tasks
      PROVE  task = <<task[1], task[2], task[3]>> /\ task[1] \in Ranks /\ task[2] \in Nat
  <2>1. PICK r \in Ranks : task \in {r} \X (0 .. Len(logical_neighbors[r]) + 1) \X {"call", "execute", "wait"}
    BY DEF Tasks
  <2> QED BY <2>1
<1>2. ASSUME NEW r \in Ranks, NEW i \in Nat, NEW kind \in {"call", "execute", "wait"},
             i <= Len(logical_neighbors[r]) + 1
      PROVE  <<r, i, kind>> \in Tasks
  <2>1. i \in 0 .. Len(logical_neighbors[r]) + 1
    BY <1>2, IndexFacts
  <2>2. <<r, i, kind>> \in {r} \X (0 .. Len(logical_neighbors[r]) + 1) \X {"call", "execute", "wait"}
    BY <2>1
  <2> QED BY <2>2 DEF Tasks
<1> QED BY <1>1, <1>2

LEMMA WorkFacts ==
    ASSUME NEW c
    PROVE  /\ Work(c) \subseteq Tasks /\ Work(c)' \subseteq Tasks
           /\ \A r, i, kind : <<r, i, kind>> \in Tasks =>
                 /\ <<r, i, kind>> \in Work(c) <=> Left(c, r, i, kind)
                 /\ <<r, i, kind>> \in Work(c)' <=> Left(c, r, i, kind)'
BY DEF Work, Left, Tasks

LEMMA WorkKept ==
    ASSUME NEW c,
           \A r \in Ranks : HasCome(c, r) =>
              /\ HasCome(c, r)'
              /\ \A i \in Nat :
                    /\ NotCalled(c, r, i)' => NotCalled(c, r, i)
                    /\ NotReturned(c, r, i)' => NotReturned(c, r, i)
                    /\ CallOpen(c, r, i)' => CallOpen(c, r, i) \/ NotCalled(c, r, i)
    PROVE  Work(c)' \subseteq Work(c)
<1> SUFFICES ASSUME NEW task \in Work(c)' PROVE task \in Work(c)
  OBVIOUS
<1>1. task \in Tasks
  BY WorkFacts
<1> DEFINE r == task[1]
           i == task[2]
           kind == task[3]
<1>2. task = <<r, i, kind>> /\ r \in Ranks /\ i \in Nat
  BY <1>1, TaskFacts
<1> HIDE DEF r, i, kind
<1>3. Left(c, r, i, kind)'
  BY <1>1, <1>2, WorkFacts
<1>4. Left(c, r, i, kind)
  <2>1. CASE ~HasCome(c, r)
    BY <2>1 DEF Left
  <2>2. CASE HasCome(c, r)
    <3>1. \/ kind = "call" /\ NotCalled(c, r, i)'
          \/ kind = "execute" /\ (NotCalled(c, r, i)' \/ CallOpen(c, r, i)')
          \/ kind = "wait" /\ NotReturned(c, r, i)'
      BY <1>2, <1>3, <2>2, ExecutedFacts DEF Left
    <3>2. \/ kind = "call" /\ NotCalled(c, r, i)
          \/ kind = "execute" /\ (NotCalled(c, r, i) \/ CallOpen(c, r, i))
          \/ kind = "wait" /\ NotReturned(c, r, i)
      BY <1>2, <2>2, <3>1
    <3> QED BY <3>2, ExecutedFacts DEF Left
  <2> QED BY <2>1, <2>2
<1> QED BY <1>1, <1>2, <1>4, WorkFacts

\* There is less to do when something has been done.
LEMMA WorkDone ==
    ASSUME NEW c, NEW r \in Ranks, NEW i \in Nat, NEW kind \in {"call", "execute", "wait"},
           i <= Len(logical_neighbors[r]) + 1, Left(c, r, i, kind), ~Left(c, r, i, kind)'
    PROVE  Work(c)' # Work(c)
<1>1. <<r, i, kind>> \in Tasks
  BY TaskFacts
<1> QED BY <1>1, WorkFacts

LEMMA FewerKeeps ==
    ASSUME TypeOK, NEW c \in Clients, Fewer(c), NEW r \in Ranks
    PROVE  /\ HasCome(c, r) => HasCome(c, r)'
           /\ \A i \in Nat :
                 /\ NotCalled(c, r, i)' => NotCalled(c, r, i)
                 /\ NotReturned(c, r, i)' => NotReturned(c, r, i)
                 /\ CallOpen(c, r, i)' => CallOpen(c, r, i)
<1>1. HasCome(c, r) => HasCome(c, r)'
  BY DEF HasCome, Fewer, RankOf
<1>2. \A k \in DOMAIN frames' : k.client = c =>
         /\ k \in DOMAIN frames /\ frames[k].next \in Nat
         /\ \/ frames'[k].next = frames[k].next /\ frames'[k].waiting = frames[k].waiting
            \/ frames'[k].next = frames[k].next + 1
  BY FrameFacts DEF Fewer
<1>3. ASSUME NEW i \in Nat, NotCalled(c, r, i)' PROVE NotCalled(c, r, i)
  <2>1. PICK k \in DOMAIN frames' :
           /\ k.client = c /\ RankOf(k) = r
           /\ frames'[k].next < i \/ (frames'[k].next = i /\ ~frames'[k].waiting)
    BY <1>3 DEF NotCalled, RankOf
  <2>2. frames[k].next < i \/ (frames[k].next = i /\ ~frames[k].waiting)
    BY <1>2, <2>1
  <2> QED BY <1>2, <2>1, <2>2 DEF NotCalled
<1>4. ASSUME NEW i \in Nat, NotReturned(c, r, i)' PROVE NotReturned(c, r, i)
  <2>1. PICK k \in DOMAIN frames' : k.client = c /\ RankOf(k) = r /\ frames'[k].next <= i
    BY <1>4 DEF NotReturned, RankOf
  <2>2. frames[k].next <= i
    BY <1>2, <2>1
  <2> QED BY <1>2, <2>1, <2>2 DEF NotReturned
<1>5. ASSUME NEW i \in Nat, CallOpen(c, r, i)' PROVE CallOpen(c, r, i)
  BY <1>5 DEF CallOpen, Fewer, CalledFrom, RankOf, IsRoot
<1> QED BY <1>1, <1>3, <1>4, <1>5

LEMMA FewerShrinks ==
    ASSUME TypeOK, NEW c \in Clients, Fewer(c) PROVE Work(c)' \subseteq Work(c)
BY FewerKeeps, WorkKept

\* Nothing is known of the query as long as rank 0 has not taken the call.
LEMMA NotCome ==
    ASSUME NEW c,
           \/ answers[c].state = "none"
           \/ \E call \in calls : call.key.client = c /\ RankOf(call.key) = 0
    PROVE  Work(c)' \subseteq Work(c)
<1>1. \A r : ~HasCome(c, r)
  BY DEF HasCome
<1> QED BY <1>1, WorkKept

LEMMA FrameHasCome ==
    ASSUME Once, NEW key \in DOMAIN frames
    PROVE  HasCome(key.client, RankOf(key))
<1>0. TypeOK
  BY DEF Once
<1>1. RankOf(key) = 0 \/ frames[key].id \in processedQueries[RankOf(key)]
  BY <1>0, FrameFacts DEF Once, CollectedOnce
<1>2. answers[key.client].state # "none"
  BY DEF Once, WorksForCallers
<1>3. \A call \in calls : call.key.client = key.client => call.id = frames[key].id /\ RankOf(call.key) # 0
  BY <1>0, CalledFromFacts DEF Once, OneNumber, BeginsWithRoot
<1>4. \A k \in DOMAIN frames : k.client = key.client => frames[k].id = frames[key].id
  BY DEF Once, OneNumber
<1> QED BY <1>1, <1>2, <1>3, <1>4 DEF HasCome

LEMMA CallHasCome ==
    ASSUME Once, Apart, NEW call \in calls, ~IsRoot(call.key)
    PROVE  HasCome(call.key.client, CalledFrom(call))
<1>0. TypeOK
  BY DEF Once
<1>1. CalledFrom(call) = 0 \/ call.id \in processedQueries[CalledFrom(call)]
  BY DEF Apart, CallsFollow
<1>2. answers[call.key.client].state # "none"
  BY DEF Once, WorksForCallers
<1>3. \A other \in calls : other.key.client = call.key.client => other.id = call.id /\ RankOf(other.key) # 0
  <2> SUFFICES ASSUME NEW other \in calls, other.key.client = call.key.client
               PROVE  other.id = call.id /\ RankOf(other.key) # 0
    OBVIOUS
  <2>1. other.id = call.id
    BY DEF Once, OneNumber
  <2>2. IsRoot(other.key) => call = other
    BY DEF Once, BeginsWithRoot
  <2> QED BY <1>0, <2>1, <2>2, CalledFromFacts
<1>4. \A k \in DOMAIN frames : k.client = call.key.client => frames[k].id = call.id
  BY DEF Once, OneNumber
<1> QED BY <1>1, <1>2, <1>3, <1>4 DEF HasCome

\* The other clients' work is what it was.
LEMMA BeginOthers ==
    ASSUME TypeOK, NEW call \in calls, NEW id \in Nat, Begin(call, id),
           \A r \in Ranks : processedQueries[r] \subseteq processedQueries'[r],
           NEW d \in Clients, d # call.key.client
    PROVE  Fewer(d)
<1>1. /\ calls' = calls \ {call} /\ DOMAIN frames' = DOMAIN frames \cup {call.key}
      /\ \A k \in DOMAIN frames : k # call.key => frames'[k] = frames[k]
  BY BeginFacts
<1>2. answers' = answers
  BY DEF Begin
<1> QED BY <1>1, <1>2 DEF Fewer

LEMMA NumberShrinks ==
    ASSUME Once, TypeOK', NEW call \in calls, Number(call)
    PROVE  LET c == call.key.client IN Work(c)' \subseteq Work(c) /\ Work(c)' # Work(c)
<1> DEFINE c == call.key.client
<1>0. TypeOK
  BY DEF Once
<1>1. /\ Begin(call, counter) /\ counter \in Nat /\ IsRoot(call.key) /\ RankOf(call.key) = 0
      /\ \A other \in calls : other.key.client = c => other = call
  BY NumberFacts
<1>2. 0 \in Ranks /\ answers[c].state # "none" /\ answers' = answers /\ calls' = calls \ {call}
  BY <1>1, RankFacts DEF Once, WorksForCallers, Begin
<1>3. ~HasCome(c, 0)
  BY <1>1 DEF HasCome
<1>4. HasCome(c, 0)'
  BY <1>1, <1>2 DEF HasCome
<1>5. ~NotCalled(c, 0, 0)'
  <2>1. \A k \in DOMAIN frames' : frames'[k].next \in Nat \ {0}
    BY DEF TypeOK, IsFrame
  <2>2. \A n \in Nat \ {0} : ~(n < 0) /\ n # 0
    OBVIOUS
  <2> QED BY <2>1, <2>2 DEF NotCalled
<1>6. Left(c, 0, 0, "call") /\ ~Left(c, 0, 0, "call")'
  BY <1>3, <1>4, <1>5 DEF Left
<1>7. 0 <= Len(logical_neighbors[0]) + 1
  BY <1>2, IndexFacts
<1>8. Work(c)' # Work(c)
  BY <1>2, <1>6, <1>7, WorkDone
<1> QED BY <1>1, <1>8, NotCome

LEMMA AcceptShrinks ==
    ASSUME Once, TypeOK', NEW call \in calls, Accept(call)
    PROVE  LET c == call.key.client IN Work(c)' \subseteq Work(c) /\ Work(c)' # Work(c)
<1> DEFINE c == call.key.client
           here == RankOf(call.key)
<1>0. TypeOK
  BY DEF Once
<1>1. /\ Begin(call, call.id) /\ call.id \in Nat /\ here \in Ranks \ {0}
      /\ call.id \notin processedQueries[here] /\ call.id \in processedQueries'[here]
      /\ \A r \in Ranks : processedQueries[r] \subseteq processedQueries'[r]
      /\ \A other \in calls : other.key.client = c => other.id = call.id /\ RankOf(other.key) # 0
      /\ \A k \in DOMAIN frames : k.client = c => frames[k].id = call.id
  BY <1>0, AcceptFacts, CalledFromFacts
<1>2. /\ calls' = calls \ {call} /\ answers' = answers
      /\ DOMAIN frames' = DOMAIN frames \cup {call.key} /\ frames'[call.key].id = call.id
      /\ \A k \in DOMAIN frames : k # call.key => frames'[k] = frames[k]
  BY <1>0, <1>1, BeginFacts DEF Begin
<1>3. /\ answers[c].state # "none"
      /\ \A other \in calls' : other.key.client = c => other.id = call.id /\ RankOf(other.key) # 0
      /\ \A k \in DOMAIN frames' : k.client = c => frames'[k].id = call.id
  <2>1. answers[c].state # "none"
    BY DEF Once, WorksForCallers
  <2> QED BY <1>1, <1>2, <2>1
<1>4. ~HasCome(c, here)
  BY <1>1 DEF HasCome
<1>5. HasCome(c, here)'
  BY <1>1, <1>2, <1>3 DEF HasCome, RankOf
<1>6. ~NotCalled(c, here, 0)'
  <2>1. \A k \in DOMAIN frames' : frames'[k].next \in Nat \ {0}
    BY DEF TypeOK, IsFrame
  <2>2. \A n \in Nat \ {0} : ~(n < 0) /\ n # 0
    OBVIOUS
  <2> QED BY <2>1, <2>2 DEF NotCalled
<1>7. Left(c, here, 0, "call") /\ ~Left(c, here, 0, "call")'
  BY <1>4, <1>5, <1>6 DEF Left
<1>8. 0 <= Len(logical_neighbors[here]) + 1
  BY <1>1, IndexFacts
<1>9. Work(c)' # Work(c)
  BY <1>1, <1>7, <1>8, WorkDone
<1>10. ASSUME NEW r \in Ranks, HasCome(c, r)
       PROVE  /\ HasCome(c, r)'
              /\ \A i \in Nat :
                    /\ NotCalled(c, r, i)' => NotCalled(c, r, i)
                    /\ NotReturned(c, r, i)' => NotReturned(c, r, i)
                    /\ CallOpen(c, r, i)' => CallOpen(c, r, i)
  <2>1. r # here /\ (r = 0 \/ call.id \in processedQueries[r])
    BY <1>4, <1>10 DEF HasCome
  <2>2. HasCome(c, r)'
    BY <1>1, <1>2, <1>3, <2>1 DEF HasCome, RankOf
  <2>3. \A k \in DOMAIN frames' : RankOf(k) = r => k \in DOMAIN frames /\ frames'[k] = frames[k]
    BY <1>2, <2>1
  <2>4. \A i \in Nat : /\ NotCalled(c, r, i)' => NotCalled(c, r, i)
                       /\ NotReturned(c, r, i)' => NotReturned(c, r, i)
    BY <2>3 DEF NotCalled, NotReturned, RankOf
  <2>5. \A i \in Nat : CallOpen(c, r, i)' => CallOpen(c, r, i)
    BY <1>2 DEF CallOpen, CalledFrom, RankOf, IsRoot
  <2> QED BY <2>2, <2>4, <2>5
<1>11. Work(c)' \subseteq Work(c)
  BY <1>10, WorkKept
<1> QED BY <1>9, <1>11

LEMMA RejectShrinks ==
    ASSUME Once, Apart, NEW call \in calls, Reject(call)
    PROVE  /\ \A d \in Clients : Fewer(d)
           /\ Work(call.key.client)' # Work(call.key.client)
<1> DEFINE c == call.key.client
           r == CalledFrom(call)
<1>0. TypeOK
  BY DEF Once
<1>1. /\ call.key \in Routes /\ Nothing \in [Ranks -> Nat] /\ Reply(call.key, Nothing)
      /\ calls' = calls \ {call} /\ processedQueries' = processedQueries
      /\ ~IsRoot(call.key) /\ r \in Ranks /\ c \in Clients
  BY <1>0, CalledFromFacts DEF Reject, Nothing
<1>2. \A d \in Clients : Fewer(d)
  BY <1>0, <1>1, ReplyFewer
<1>3. PICK i \in DOMAIN logical_neighbors[r] :
         /\ logical_neighbors[r][i] = RankOf(call.key)
         /\ \A k \in DOMAIN frames : k.client = c /\ RankOf(k) = r => PastCall(frames[k], i)
  BY <1>1 DEF Apart, CallsFollow
<1>4. i \in Nat /\ i <= Len(logical_neighbors[r]) + 1
  BY <1>1, <1>3, IndexFacts
<1>5. HasCome(c, r)
  BY <1>1, CallHasCome
<1>6. Left(c, r, i, "execute")
  <2>1. CallOpen(c, r, i)
    BY <1>1, <1>3 DEF CallOpen
  <2> QED BY <2>1, ExecutedFacts DEF Left
<1>7. ~Left(c, r, i, "execute")'
  <2>1. ~NotCalled(c, r, i)
    <3>1. \A k \in DOMAIN frames : frames[k].next \in Nat
      BY <1>0, FrameFacts
    <3> QED BY <1>3, <1>4, <3>1 DEF NotCalled, PastCall
  <2>2. HasCome(c, r)' /\ ~NotCalled(c, r, i)'
    BY <1>0, <1>1, <1>2, <1>4, <1>5, <2>1, FewerKeeps
  <2>3. ASSUME NEW other \in calls', other.key.client = c, ~IsRoot(other.key), CalledFrom(other) = r,
               RankOf(other.key) = logical_neighbors[r][i]
        PROVE  FALSE
    <3>1. other \in calls /\ other # call
      BY <1>1
    <3>2. SameCall(call, other)
      BY <1>1, <1>3, <2>3 DEF SameCall
    <3> QED BY <3>1, <3>2 DEF Apart, CallsApart
  <2>4. ~CallOpen(c, r, i)'
    BY <2>3 DEF CallOpen, CalledFrom, RankOf, IsRoot
  <2> QED BY <2>2, <2>4, ExecutedFacts DEF Left
<1>8. Work(c)' # Work(c)
  BY <1>1, <1>4, <1>6, <1>7, WorkDone
<1> QED BY <1>2, <1>8

LEMMA QueryPeerShrinks ==
    ASSUME Once, Apart, NEW key \in DOMAIN frames, QueryPeer(key)
    PROVE  /\ \A d \in Clients \ {key.client} : Fewer(d)
           /\ Work(key.client)' \subseteq Work(key.client)
           /\ Work(key.client)' # Work(key.client)
<1> DEFINE c == key.client
           here == RankOf(key)
           call == [key |-> CalledBy(key), id |-> frames[key].id]
<1>0. TypeOK
  BY DEF Once
<1>1. /\ calls' = calls \cup {call} /\ ~IsRoot(call.key) /\ RankOf(call.key) # 0
      /\ call.key.client = c /\ CalledFrom(call) = here
      /\ frames[key].next \in DOMAIN logical_neighbors[here]
      /\ RankOf(call.key) = logical_neighbors[here][frames[key].next]
      /\ ~frames[key].waiting /\ frames'[key].waiting
      /\ DOMAIN frames' = DOMAIN frames
      /\ \A k \in DOMAIN frames :
            /\ frames'[k].id = frames[k].id /\ frames'[k].next = frames[k].next
            /\ k # key => frames'[k].waiting = frames[k].waiting
      /\ processedQueries' = processedQueries /\ answers' = answers
  BY QueryPeerFacts
<1>2. call.id = frames[key].id
  OBVIOUS
<1> HIDE DEF call
<1>3. /\ here \in Ranks /\ c \in Clients /\ frames[key].next \in Nat
      /\ frames[key].next <= Len(logical_neighbors[here]) + 1
  BY <1>0, <1>1, FrameFacts, IndexFacts
<1>4. \A d \in Clients \ {c} : Fewer(d)
  BY <1>1 DEF Fewer
<1>5. ASSUME NEW r \in Ranks, HasCome(c, r)
      PROVE  /\ HasCome(c, r)'
             /\ \A i \in Nat :
                   /\ NotCalled(c, r, i)' => NotCalled(c, r, i)
                   /\ NotReturned(c, r, i)' => NotReturned(c, r, i)
                   /\ CallOpen(c, r, i)' => CallOpen(c, r, i) \/ NotCalled(c, r, i)
  <2>1. r = 0 \/ call.id \in processedQueries[r]
    BY <1>2, <1>5 DEF HasCome
  <2>2. HasCome(c, r)'
    BY <1>1, <1>5, <2>1 DEF HasCome, RankOf
  <2>3. ASSUME NEW i \in Nat, NotCalled(c, r, i)' PROVE NotCalled(c, r, i)
    <3>1. PICK k \in DOMAIN frames' :
             /\ k.client = c /\ RankOf(k) = r
             /\ frames'[k].next < i \/ (frames'[k].next = i /\ ~frames'[k].waiting)
      BY <2>3 DEF NotCalled, RankOf
    <3>2. frames[k].next < i \/ (frames[k].next = i /\ ~frames[k].waiting)
      BY <1>1, <3>1
    <3> QED BY <1>1, <3>1, <3>2 DEF NotCalled
  <2>4. \A i \in Nat : NotReturned(c, r, i)' => NotReturned(c, r, i)
    BY <1>1 DEF NotReturned, RankOf
  <2>5. ASSUME NEW i \in Nat, CallOpen(c, r, i)' PROVE CallOpen(c, r, i) \/ NotCalled(c, r, i)
    <3>1. PICK other \in calls' :
             /\ other.key.client = c /\ ~IsRoot(other.key)
             /\ i \in DOMAIN logical_neighbors[r]
             /\ CalledFrom(other) = r
             /\ RankOf(other.key) = logical_neighbors[r][i]
      BY <2>5 DEF CallOpen, CalledFrom, RankOf, IsRoot
    <3>2. CASE other \in calls
      BY <3>1, <3>2 DEF CallOpen
    <3>3. CASE other = call
      <4>1. r = here /\ i = frames[key].next
        BY <1>1, <1>3, <3>1, <3>3, NeighboursDiffer
      <4> QED BY <1>1, <4>1 DEF NotCalled
    <3> QED BY <1>1, <3>1, <3>2, <3>3
  <2> QED BY <2>2, <2>3, <2>4, <2>5
<1>6. Work(c)' \subseteq Work(c)
  BY <1>5, WorkKept
<1>7. Left(c, here, frames[key].next, "call")
  BY <1>1 DEF Left, NotCalled
<1>8. ASSUME NEW i \in Nat, i = frames[key].next PROVE ~Left(c, here, i, "call")'
  <2>1. HasCome(c, here)'
    BY <1>3, <1>5, FrameHasCome
  <2>2. \A k \in DOMAIN frames : frames[k].next \in Nat
    BY <1>0, FrameFacts
  <2>3. \A k \in DOMAIN frames : k.client = c /\ RankOf(k) = here => k = key
    BY DEF Apart, FramesApart
  <2>4. \A k \in DOMAIN frames' : k.client = c /\ RankOf(k) = here =>
            ~(frames'[k].next < i) /\ frames'[k].waiting
    BY <1>1, <1>8, <2>2, <2>3
  <2>5. ~NotCalled(c, here, i)'
    BY <2>4 DEF NotCalled, RankOf
  <2> QED BY <2>1, <2>5 DEF Left
<1>9. Work(c)' # Work(c)
  <2>1. PICK i \in Nat : i = frames[key].next
    BY <1>3
  <2> QED BY <1>3, <1>7, <1>8, <2>1, WorkDone
<1> QED BY <1>4, <1>6, <1>9

LEMMA ReturnShrinks ==
    ASSUME Once, Apart, NEW key \in DOMAIN frames, Return(key)
    PROVE  /\ \A d \in Clients : Fewer(d)
           /\ Work(key.client)' # Work(key.client)
<1> DEFINE c == key.client
           here == RankOf(key)
           last == Len(logical_neighbors[here]) + 1
<1>0. TypeOK
  BY DEF Once
<1>1. /\ key \in Routes /\ frames[key].collected \in [Ranks -> Nat] /\ Reply(key, frames[key].collected)
      /\ calls' = calls /\ processedQueries' = processedQueries
      /\ ~frames[key].waiting /\ frames[key].next > Len(logical_neighbors[here])
  BY <1>0 DEF Return, TypeOK, IsFrame
<1>2. \A d \in Clients : Fewer(d)
  BY <1>0, <1>1, ReplyFewer
<1>3. here \in Ranks /\ c \in Clients /\ last \in Nat /\ frames[key].next = last
  BY <1>0, <1>1, FrameFacts DEF Apart, LoopBound
<1>4. Left(c, here, last, "call")
  <2>1. NotCalled(c, here, last)
    BY <1>1, <1>3 DEF NotCalled
  <2> QED BY <2>1 DEF Left
<1>5. ~Left(c, here, last, "call")'
  <2>1. HasCome(c, here)'
    BY <1>0, <1>2, <1>3, FrameHasCome, FewerKeeps
  <2>2. \A k \in DOMAIN frames' : ~(k.client = c /\ RankOf(k) = here)
    <3>1. key \notin DOMAIN frames' /\ DOMAIN frames' \subseteq DOMAIN frames
      <4>1. DOMAIN frames' = DOMAIN frames \ {key}
        BY <1>0, <1>1, ReplyFacts
      <4> QED BY <4>1
    <3> QED BY <3>1 DEF Apart, FramesApart
  <2>3. ~NotCalled(c, here, last)'
    BY <2>2 DEF NotCalled, RankOf
  <2> QED BY <2>1, <2>3 DEF Left
<1>6. last <= Len(logical_neighbors[here]) + 1
  BY <1>3
<1>7. Work(c)' # Work(c)
  <2> HIDE DEF last
  <2> QED BY <1>3, <1>4, <1>5, <1>6, WorkDone
<1> QED BY <1>2, <1>7

LEMMA FailsShrinks ==
    ASSUME Once, Apart, NEW key \in DOMAIN frames, QueryPeerFails(key)
    PROVE  Work(key.client)' # Work(key.client)
<1> DEFINE c == key.client
           here == RankOf(key)
<1>0. TypeOK
  BY DEF Once
<1>1. /\ \A d \in Clients : Fewer(d)
      /\ DOMAIN frames' = DOMAIN frames /\ frames[key].waiting
      /\ frames'[key].next = frames[key].next + 1
  BY <1>0, FailsFewer
<1>2. /\ here \in Ranks /\ c \in Clients /\ frames[key].next \in Nat
      /\ frames[key].next <= Len(logical_neighbors[here]) + 1
  BY <1>0, FrameFacts DEF Apart, LoopBound
<1>3. PICK i \in Nat : i = frames[key].next
  BY <1>2
<1>4. Left(c, here, i, "wait")
  <2>1. NotReturned(c, here, i)
    BY <1>3 DEF NotReturned
  <2> QED BY <2>1 DEF Left
<1>5. ~Left(c, here, i, "wait")'
  <2>1. HasCome(c, here)'
    BY <1>0, <1>1, <1>2, FrameHasCome, FewerKeeps
  <2>2. \A k \in DOMAIN frames' : k.client = c /\ RankOf(k) = here => ~(frames'[k].next <= i)
    <3>1. \A k \in DOMAIN frames : k.client = c /\ RankOf(k) = here => k = key
      BY DEF Apart, FramesApart
    <3> QED BY <1>1, <1>3, <3>1
  <2>3. ~NotReturned(c, here, i)'
    BY <2>2 DEF NotReturned, RankOf
  <2> QED BY <2>1, <2>3 DEF Left
<1> QED BY <1>2, <1>3, <1>4, <1>5, WorkDone

LEMMA WorkStep ==
    ASSUME Once, Apart, [Next]_vars
    PROVE  \A c \in Clients : Work(c)' \subseteq Work(c)
<1>0. TypeOK /\ TypeOK'
  BY OnceStep DEF Once
<1>1. ASSUME \A c \in Clients : Fewer(c) PROVE \A c \in Clients : Work(c)' \subseteq Work(c)
  BY <1>0, <1>1, FewerShrinks
<1>2. ASSUME NEW c \in Clients, Submit(c) PROVE \A d \in Clients : Work(d)' \subseteq Work(d)
  <2>1. answers[c].state = "none"
    BY <1>2 DEF Submit
  <2>2. ASSUME NEW d \in Clients, d # c PROVE Fewer(d)
    <3> DEFINE call == [key |-> [client |-> c, path |-> <<0>>], id |-> 1]
    <3>1. /\ calls' = calls \cup {call} /\ call.key.client = c
          /\ frames' = frames /\ processedQueries' = processedQueries
          /\ answers' = [answers EXCEPT ![c].state = "called"]
      BY <1>2 DEF Submit
    <3> HIDE DEF call
    <3>2. answers'[d] = answers[d]
      BY <1>0, <2>2, <3>1 DEF TypeOK
    <3> QED BY <2>2, <3>1, <3>2 DEF Fewer
  <2> QED BY <1>0, <2>1, <2>2, NotCome, FewerShrinks
<1>3. ASSUME NEW call \in calls, Number(call) PROVE \A d \in Clients : Work(d)' \subseteq Work(d)
  <2>1. \A d \in Clients \ {call.key.client} : Fewer(d)
    BY <1>0, <1>3, NumberFacts, BeginOthers
  <2> QED BY <1>0, <1>3, <2>1, NumberShrinks, FewerShrinks
<1>4. ASSUME NEW call \in calls, Accept(call) PROVE \A d \in Clients : Work(d)' \subseteq Work(d)
  <2>1. \A d \in Clients \ {call.key.client} : Fewer(d)
    <3>1. call.id \in Nat
      BY <1>0, CalledFromFacts
    <3> QED BY <1>0, <1>4, <3>1, AcceptFacts, BeginOthers
  <2> QED BY <1>0, <1>4, <2>1, AcceptShrinks, FewerShrinks
<1>5. ASSUME NEW call \in calls, Reject(call) PROVE \A d \in Clients : Work(d)' \subseteq Work(d)
  BY <1>1, <1>5, RejectShrinks
<1>6. ASSUME NEW key \in DOMAIN frames, QueryPeer(key) PROVE \A d \in Clients : Work(d)' \subseteq Work(d)
  BY <1>0, <1>6, QueryPeerShrinks, FewerShrinks
<1>7. ASSUME NEW key \in DOMAIN frames, Return(key) PROVE \A d \in Clients : Work(d)' \subseteq Work(d)
  BY <1>1, <1>7, ReturnShrinks
<1>8. ASSUME NEW key \in DOMAIN frames, QueryPeerFails(key)
      PROVE  \A d \in Clients : Work(d)' \subseteq Work(d)
  BY <1>0, <1>1, <1>8, FailsFewer
<1>9. ASSUME NEW call \in calls, Cancel(call) PROVE \A d \in Clients : Work(d)' \subseteq Work(d)
  BY <1>1, <1>9, CancelFewer
<1>10. CASE Restart
  BY <1>0, <1>1, <1>10, RestartFewer
<1>11. CASE UNCHANGED vars
  <2>1. \A d \in Clients : Fewer(d)
    BY <1>11 DEF vars, Fewer
  <2> QED BY <1>1, <2>1
<1> QED BY <1>2, <1>3, <1>4, <1>5, <1>6, <1>7, <1>8, <1>9, <1>10, <1>11 DEF Next, Serve

LEMMA ServeShrinks ==
    ASSUME Once, Apart, TypeOK', NEW c \in Clients, Serve(c)
    PROVE  Work(c)' # Work(c)
<1>1. ASSUME NEW call \in calls, call.key.client = c, Number(call) \/ Accept(call) \/ Reject(call)
      PROVE  Work(c)' # Work(c)
  <2>1. CASE Number(call)
    BY <1>1, <2>1, NumberShrinks
  <2>2. CASE Accept(call)
    BY <1>1, <2>2, AcceptShrinks
  <2>3. CASE Reject(call)
    BY <1>1, <2>3, RejectShrinks
  <2> QED BY <1>1, <2>1, <2>2, <2>3
<1>2. ASSUME NEW key \in DOMAIN frames, key.client = c,
             QueryPeer(key) \/ Return(key) \/ QueryPeerFails(key)
      PROVE  Work(c)' # Work(c)
  <2>1. CASE QueryPeer(key)
    BY <1>2, <2>1, QueryPeerShrinks
  <2>2. CASE Return(key)
    BY <1>2, <2>2, ReturnShrinks
  <2>3. CASE QueryPeerFails(key)
    BY <1>2, <2>3, FailsShrinks
  <2> QED BY <1>2, <2>1, <2>2, <2>3
<1> QED BY <1>1, <1>2 DEF Serve

\* No step adds to what is still to be done for a client, and each that is taken
\* for it leaves less: however the neighbours are connected, and whatever calls
\* fail, the nested calls of a query do not go on for ever.
THEOREM CallsEnd == Spec => WorkShrinks
<1>1. Init => Once /\ Apart
  BY OnceInit, ApartInit
<1>2. Once /\ Apart /\ [Next]_vars => (Once /\ Apart)'
  BY OnceStep, ApartStep
<1>3. Once /\ Apart /\ [Next]_vars =>
          [\A c \in Clients : Work(c)' \subseteq Work(c) /\ (Serve(c) => Work(c)' # Work(c))]_vars
  <2> SUFFICES ASSUME Once, Apart, [Next]_vars, NEW c \in Clients
               PROVE  Work(c)' \subseteq Work(c) /\ (Serve(c) => Work(c)' # Work(c))
    OBVIOUS
  <2>1. TypeOK'
    BY OnceStep DEF Once
  <2> QED BY <2>1, WorkStep, ServeShrinks
<1> QED BY <1>1, <1>2, <1>3, PTL DEF Spec, WorkShrinks

\* What is to be done for a client is finite at first.
LEMMA TasksAreFinite == IsFiniteSet(Tasks)
<1> DEFINE Kinds == {"call", "execute", "wait"}
           TasksAt(r) == {r} \X (0 .. Len(logical_neighbors[r]) + 1) \X Kinds
           S == {TasksAt(r) : r \in Ranks}
<1>1. IsFiniteSet(Kinds)
  <2>1. IsFiniteSet({"call"}) /\ IsFiniteSet({"call"} \cup {"execute"})
    BY FS_Singleton, FS_AddElement
  <2>2. IsFiniteSet({"call"} \cup {"execute"} \cup {"wait"})
    BY <2>1, FS_AddElement
  <2>3. Kinds = {"call"} \cup {"execute"} \cup {"wait"}
    OBVIOUS
  <2> QED BY <2>2, <2>3
<1> HIDE DEF Kinds
<1>2. ASSUME NEW r \in Ranks PROVE IsFiniteSet(TasksAt(r))
  <2> DEFINE I == 0 .. Len(logical_neighbors[r]) + 1
             P == ({r} \X I) \X Kinds
             f == [x \in P |-> <<x[1][1], x[1][2], x[2]>>]
  <2>1. IsFiniteSet(I)
    <3>1. 0 \in Int /\ Len(logical_neighbors[r]) + 1 \in Int
      BY IndexFacts
    <3> QED BY <3>1, FS_Interval
  <2> HIDE DEF I
  <2>2. IsFiniteSet({r} \X I)
    BY <2>1, FS_Singleton, FS_Product
  <2>3. IsFiniteSet(P)
    BY <1>1, <2>2, FS_Product
  <2>4. f \in Surjection(P, {r} \X I \X Kinds)
    <3>1. f \in [P -> {r} \X I \X Kinds]
      OBVIOUS
    <3>2. ASSUME NEW i \in I, NEW kind \in Kinds PROVE \E x \in P : f[x] = <<r, i, kind>>
      <4>1. <<<<r, i>>, kind>> \in P
        OBVIOUS
      <4>2. f[<<<<r, i>>, kind>>] = <<r, i, kind>>
        BY <4>1
      <4> QED BY <4>1, <4>2
    <3> HIDE DEF f, P
    <3>3. \A t \in {r} \X I \X Kinds : \E x \in P : f[x] = t
      BY <3>2
    <3> QED BY <3>1, <3>3 DEF Surjection
  <2> HIDE DEF f, P
  <2>5. IsFiniteSet({r} \X I \X Kinds)
    BY <2>3, <2>4, FS_Surjection
  <2> QED BY <2>5 DEF I
<1>3. IsFiniteSet(S)
  <2> DEFINE f == [r \in Ranks |-> TasksAt(r)]
  <2> HIDE DEF TasksAt
  <2>1. f \in Surjection(Ranks, S)
    BY DEF Surjection
  <2>2. IsFiniteSet(Ranks)
    <3>1. 0 \in Int /\ NumRanks - 1 \in Int
      BY SyncAssumption
    <3> QED BY <3>1, FS_Interval DEF Ranks
  <2> HIDE DEF f, S
  <2> QED BY <2>1, <2>2, FS_Surjection
<1>4. \A T \in S : IsFiniteSet(T)
  <2> HIDE DEF TasksAt
  <2> QED BY <1>2
<1>5. Tasks = UNION S
  BY DEF Tasks, Kinds
<1> HIDE DEF S
<1> QED BY <1>3, <1>4, <1>5, FS_UNION

-----------------------------------------------------------------------------
(* Somebody serves *)

\* A step of what is done for c can be taken: every call can be begun or turned
\* down, a frame that does not wait calls or returns, and one that waits in vain
\* ends its wait.
CanBeServed(c) ==
    \/ \E call \in calls : call.key.client = c
    \/ \E key \in DOMAIN frames : key.client = c /\ (~frames[key].waiting \/ Abandoned(key))

SomebodyServes == \A c \in Clients : answers[c].state = "called" => CanBeServed(c)

\* Rank 0 is to take, or has taken, the call of each client that waits.
RootServes ==
    \A c \in Clients : answers[c].state = "called" =>
        \/ \E call \in calls : call.key.client = c /\ IsRoot(call.key)
        \/ \E k \in DOMAIN frames : k.client = c /\ IsRoot(k)

\* The nesting of the calls has a bound.
NestingBound ==
    \E n \in Nat : /\ \A k \in DOMAIN frames : Len(k.path) <= n
                   /\ \A call \in calls : Len(call.key.path) <= n

LEMMA DeepestFrame ==
    ASSUME TypeOK, NestingBound, NEW c, \E k \in DOMAIN frames : k.client = c
    PROVE  \E k \in DOMAIN frames :
              k.client = c /\ \A l \in DOMAIN frames : l.client = c => Len(l.path) <= Len(k.path)
<1>1. PICK n \in Nat : \A k \in DOMAIN frames : Len(k.path) <= n
  BY DEF NestingBound
<1>2. \A k \in DOMAIN frames : Len(k.path) \in Nat
  BY RouteFacts DEF TypeOK
<1> DEFINE T == {n - Len(k.path) : k \in {k \in DOMAIN frames : k.client = c}}
<1>3. T \subseteq Nat /\ T # {}
  BY <1>1, <1>2
<1>4. PICK x \in T : \A y \in T : ~(<<y, x>> \in OpToRel(<, Nat))
  <2> HIDE DEF T
  <2> QED BY <1>3, NatLessThanWellFounded, WFMin, Zenon
<1>5. \A y \in T : x <= y
  <2> SUFFICES ASSUME NEW y \in T, ~(x <= y) PROVE FALSE
    OBVIOUS
  <2>1. x \in Nat /\ y \in Nat /\ y < x
    BY <1>3
  <2> QED BY <1>4, <2>1 DEF OpToRel
<1>6. PICK k \in DOMAIN frames : k.client = c /\ x = n - Len(k.path)
  OBVIOUS
<1>7. ASSUME NEW l \in DOMAIN frames, l.client = c PROVE Len(l.path) <= Len(k.path)
  <2>1. n - Len(k.path) <= n - Len(l.path)
    BY <1>5, <1>6, <1>7
  <2> QED BY <1>2, <2>1
<1> QED BY <1>6, <1>7

LEMMA SomebodyWorks ==
    ASSUME TypeOK, LoopOK, NestingBound, RootServes
    PROVE  SomebodyServes
<1> SUFFICES ASSUME NEW c \in Clients, answers[c].state = "called",
                    \A call \in calls : call.key.client # c
             PROVE  \E key \in DOMAIN frames : key.client = c /\ (~frames[key].waiting \/ Abandoned(key))
  BY DEF SomebodyServes, CanBeServed
<1>1. PICK k \in DOMAIN frames :
         k.client = c /\ \A l \in DOMAIN frames : l.client = c => Len(l.path) <= Len(k.path)
  BY DeepestFrame DEF RootServes
<1>2. ASSUME frames[k].waiting PROVE Abandoned(k)
  <2>1. CalledBy(k).client = c /\ Len(CalledBy(k).path) = Len(k.path) + 1 /\ Len(k.path) \in Nat
    BY <1>1, <1>2, CalledByFacts, RouteFacts DEF LoopOK, TypeOK
  <2>2. CalledBy(k) \notin DOMAIN frames
    BY <1>1, <2>1
  <2>3. \A call \in calls : call.key # CalledBy(k)
    BY <2>1
  <2> QED BY <1>2, <2>2, <2>3 DEF Abandoned
<1> QED BY <1>1, <1>2

\* A reply leaves the root of every client that still waits.
LEMMA ReplyRoots ==
    ASSUME TypeOK, NEW key \in Routes, NEW results \in [Ranks -> Nat], Reply(key, results),
           RootServes, \A call \in calls : IsRoot(call.key) => call \in calls'
    PROVE  RootServes'
<1> SUFFICES ASSUME NEW c \in Clients, answers'[c].state = "called"
             PROVE  \/ \E call \in calls' : call.key.client = c /\ IsRoot(call.key)
                    \/ \E k \in DOMAIN frames' : k.client = c /\ IsRoot(k)
  BY DEF RootServes, IsRoot
<1>1. DOMAIN frames' = DOMAIN frames \ {key}
  BY ReplyFacts
<1>2. CASE IsRoot(key)
  <2>1. answers' = [answers EXCEPT ![key.client] = [state |-> "answered", results |-> results]]
    BY <1>2, ReplyFacts
  <2>2. c # key.client /\ answers'[c] = answers[c]
    BY <2>1, RouteFacts DEF TypeOK
  <2> QED BY <1>1, <2>2 DEF RootServes
<1>3. CASE ~IsRoot(key)
  <2>1. answers' = answers
    BY <1>3, ReplyFacts
  <2> QED BY <1>1, <1>3, <2>1 DEF RootServes
<1> QED BY <1>2, <1>3

LEMMA RootServesStep ==
    ASSUME Once, RootServes, [Next]_vars PROVE RootServes'
<1>0. TypeOK
  BY DEF Once
<1>1. ASSUME answers' = answers, \A call \in calls : IsRoot(call.key) => call \in calls',
             DOMAIN frames \subseteq DOMAIN frames'
      PROVE  RootServes'
  BY <1>1 DEF RootServes, IsRoot
<1>2. ASSUME NEW c \in Clients, Submit(c) PROVE RootServes'
  <2> DEFINE call == [key |-> [client |-> c, path |-> <<0>>], id |-> 1]
  <2>1. /\ calls' = calls \cup {call} /\ call.key.client = c /\ IsRoot(call.key)
        /\ frames' = frames /\ answers' = [answers EXCEPT ![c].state = "called"]
    BY <1>2 DEF Submit, IsRoot
  <2> HIDE DEF call
  <2>2. \A d \in Clients : d # c => answers'[d] = answers[d]
    BY <1>0, <2>1 DEF TypeOK
  <2> QED BY <2>1, <2>2 DEF RootServes, IsRoot
<1>3. ASSUME NEW call \in calls, Number(call) PROVE RootServes'
  <2>1. Begin(call, counter) /\ counter \in Nat /\ IsRoot(call.key)
    BY <1>3, NumberFacts
  <2>2. /\ calls' = calls \ {call} /\ answers' = answers
        /\ DOMAIN frames' = DOMAIN frames \cup {call.key}
    BY <1>0, <2>1, BeginFacts DEF Begin
  <2> QED BY <2>1, <2>2 DEF RootServes, IsRoot
<1>4. ASSUME NEW call \in calls, Accept(call) PROVE RootServes'
  <2>1. Begin(call, call.id) /\ call.id \in Nat /\ ~IsRoot(call.key)
    BY <1>0, <1>4, AcceptFacts, CalledFromFacts
  <2>2. /\ calls' = calls \ {call} /\ answers' = answers
        /\ DOMAIN frames' = DOMAIN frames \cup {call.key}
    BY <1>0, <2>1, BeginFacts DEF Begin
  <2> QED BY <1>1, <2>1, <2>2
<1>5. ASSUME NEW call \in calls, Reject(call) PROVE RootServes'
  <2>1. /\ call.key \in Routes /\ Nothing \in [Ranks -> Nat] /\ Reply(call.key, Nothing)
        /\ calls' = calls \ {call} /\ ~IsRoot(call.key)
    BY <1>0, <1>5, CalledFromFacts DEF Reject, Nothing
  <2> QED BY <1>0, <2>1, ReplyRoots
<1>6. ASSUME NEW key \in DOMAIN frames, QueryPeer(key) PROVE RootServes'
  BY <1>1, <1>6 DEF QueryPeer
<1>7. ASSUME NEW key \in DOMAIN frames, Return(key) PROVE RootServes'
  <2>1. key \in Routes /\ frames[key].collected \in [Ranks -> Nat] /\ Reply(key, frames[key].collected)
        /\ calls' = calls
    BY <1>0, <1>7 DEF Return, TypeOK, IsFrame
  <2> QED BY <1>0, <2>1, ReplyRoots
<1>8. ASSUME NEW key \in DOMAIN frames, QueryPeerFails(key) PROVE RootServes'
  BY <1>1, <1>8 DEF QueryPeerFails
<1>9. ASSUME NEW call \in calls, Cancel(call) PROVE RootServes'
  <2>1. ~IsRoot(call.key)
    BY <1>0, <1>9, CalledFromFacts DEF Cancel
  <2> QED BY <1>1, <1>9, <2>1 DEF Cancel
<1>10. CASE Restart
  <2>1. ASSUME NEW c \in Clients PROVE answers'[c].state # "called"
    <3>1. answers[c] \in [state : States, results : [Ranks -> Nat]]
      BY <1>0 DEF TypeOK
    <3>2. \/ answers[c].state = "called" /\ answers'[c] = [answers[c] EXCEPT !.state = "error"]
          \/ answers[c].state # "called" /\ answers'[c] = answers[c]
      BY <1>10 DEF Restart
    <3> QED BY <3>1, <3>2
  <2> QED BY <2>1 DEF RootServes
<1>11. CASE UNCHANGED vars
  BY <1>1, <1>11 DEF vars
<1> QED BY <1>2, <1>3, <1>4, <1>5, <1>6, <1>7, <1>8, <1>9, <1>10, <1>11 DEF Next, Serve

LEMMA NestingBoundStep ==
    ASSUME Once, NestingBound, [Next]_vars PROVE NestingBound'
<1>0. TypeOK
  BY DEF Once
<1>1. PICK n \in Nat : /\ \A k \in DOMAIN frames : Len(k.path) <= n
                       /\ \A call \in calls : Len(call.key.path) <= n
  BY DEF NestingBound
<1>2. /\ \A k \in DOMAIN frames : Len(k.path) \in Nat
      /\ \A call \in calls : Len(call.key.path) \in Nat
  BY <1>0, RouteFacts DEF TypeOK
<1>3. ASSUME \A k \in DOMAIN frames' : k \in DOMAIN frames \/ \E call \in calls : k = call.key,
             \A call \in calls' : \/ call \in calls
                                  \/ Len(call.key.path) = 1
                                  \/ \E k \in DOMAIN frames : Len(call.key.path) = Len(k.path) + 1
      PROVE  NestingBound'
  <2>1. \A k \in DOMAIN frames' : Len(k.path) <= n + 1
    BY <1>1, <1>2, <1>3
  <2>2. ASSUME NEW call \in calls' PROVE Len(call.key.path) <= n + 1
    <3>1. CASE call \in calls
      BY <1>1, <1>2, <3>1
    <3>2. CASE Len(call.key.path) = 1
      BY <3>2
    <3>3. CASE \E k \in DOMAIN frames : Len(call.key.path) = Len(k.path) + 1
      BY <1>1, <1>2, <3>3
    <3> QED BY <1>3, <3>1, <3>2, <3>3
  <2> QED BY <2>1, <2>2 DEF NestingBound
<1>4. ASSUME NEW c \in Clients, Submit(c) PROVE NestingBound'
  <2> DEFINE call == [key |-> [client |-> c, path |-> <<0>>], id |-> 1]
  <2>1. calls' = calls \cup {call} /\ Len(call.key.path) = 1 /\ frames' = frames
    BY <1>4 DEF Submit
  <2> HIDE DEF call
  <2> QED BY <1>3, <2>1
<1>5. ASSUME NEW call \in calls, NEW id \in Nat, Begin(call, id) PROVE NestingBound'
  <2>1. calls' = calls \ {call} /\ DOMAIN frames' = DOMAIN frames \cup {call.key}
    BY <1>0, <1>5, BeginFacts
  <2> QED BY <1>3, <2>1
<1>6. ASSUME NEW key \in Routes, NEW results \in [Ranks -> Nat], Reply(key, results), calls' \subseteq calls
      PROVE  NestingBound'
  <2>1. DOMAIN frames' \subseteq DOMAIN frames
    BY <1>0, <1>6, ReplyFacts
  <2> QED BY <1>3, <1>6, <2>1
<1>7. ASSUME NEW call \in calls, Number(call) \/ Accept(call) \/ Reject(call) PROVE NestingBound'
  <2>1. CASE Number(call)
    BY <1>5, <2>1, NumberFacts
  <2>2. CASE Accept(call)
    <3>1. call.id \in Nat
      BY <1>0, CalledFromFacts
    <3> QED BY <1>5, <2>2, <3>1, AcceptFacts
  <2>3. CASE Reject(call)
    <3>1. /\ call.key \in Routes /\ Nothing \in [Ranks -> Nat] /\ Reply(call.key, Nothing)
          /\ calls' \subseteq calls
      BY <1>0, <2>3, CalledFromFacts DEF Reject, Nothing
    <3> QED BY <1>6, <3>1
  <2> QED BY <1>7, <2>1, <2>2, <2>3
<1>8. ASSUME NEW key \in DOMAIN frames, QueryPeer(key) PROVE NestingBound'
  <2>1. /\ calls' = calls \cup {[key |-> CalledBy(key), id |-> frames[key].id]}
        /\ Len(CalledBy(key).path) = Len(key.path) + 1 /\ DOMAIN frames' = DOMAIN frames
    BY <1>0, <1>8, CalledByFacts DEF QueryPeer
  <2> QED BY <1>3, <2>1
<1>9. ASSUME NEW key \in DOMAIN frames, Return(key) PROVE NestingBound'
  <2>1. key \in Routes /\ frames[key].collected \in [Ranks -> Nat] /\ Reply(key, frames[key].collected)
        /\ calls' \subseteq calls
    BY <1>0, <1>9 DEF Return, TypeOK, IsFrame
  <2> QED BY <1>6, <2>1
<1>10. ASSUME NEW key \in DOMAIN frames, QueryPeerFails(key) PROVE NestingBound'
  BY <1>3, <1>10 DEF QueryPeerFails
<1>11. ASSUME NEW call \in calls, Cancel(call) PROVE NestingBound'
  BY <1>3, <1>11 DEF Cancel
<1>12. CASE Restart
  <2>1. DOMAIN frames' \subseteq DOMAIN frames /\ calls' \subseteq calls
    BY <1>12 DEF Restart
  <2> QED BY <1>3, <2>1
<1>13. CASE UNCHANGED vars
  BY <1>3, <1>13 DEF vars
<1> QED BY <1>4, <1>7, <1>8, <1>9, <1>10, <1>11, <1>12, <1>13 DEF Next, Serve

\* For a client that waits there always is something that can be done at once: the
\* nested handlers never all wait for each other, however the neighbours are
\* connected, since a duplicate is turned down and not waited for.
THEOREM NoHandlerWaitsInVain == Spec => []SomebodyServes
<1>1. Init => Once /\ RootServes /\ NestingBound
  <2>1. Init => RootServes
    BY DEF Init, RootServes
  <2>2. Init => NestingBound
    BY DEF Init, NestingBound
  <2> QED BY <2>1, <2>2, OnceInit
<1>2. Once /\ RootServes /\ NestingBound /\ [Next]_vars => (Once /\ RootServes /\ NestingBound)'
  BY OnceStep, RootServesStep, NestingBoundStep
<1>3. Once /\ RootServes /\ NestingBound => SomebodyServes
  BY SomebodyWorks DEF Once
<1> QED BY <1>1, <1>2, <1>3, PTL DEF Spec
=============================================================================
