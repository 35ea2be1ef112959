------------------------- MODULE IndexedSearchProofs -------------------------
(***************************************************************************)
(* For any number of processes, lines, records and messages: every line is *)
(* in one rank's part, the two binary searches over the index agree, what  *)
(* the client gets is what its conditions accept, and nothing but a text   *)
(* that is too long or a message that cannot be answered ends the process. *)
(*                                                                         *)
(* What is loaded are records, by the theorem that every line is typed.    *)
(* The searches are followed by the path they take through the intervals   *)
(* of the index: both are on the same one until they hit a match, so that  *)
(* they hit the same match first, or none.                                 *)
(***************************************************************************)
EXTENDS MCIndexedSearch, CollisionParserProofs

-----------------------------------------------------------------------------
(* The partition *)

LEMMA PartsFollow ==
    ASSUME NEW P \in Nat, NEW q \in Nat, NEW r \in Nat, q < r
    PROVE  q * P + P <= r * P
<1>1. (q + 1) * P <= r * P
  BY SMT
<1> QED BY <1>1, SMT

\* A line is in the part of the rank it falls to, or in the last one.
LEMMA OneRankPerLine ==
    ASSUME lines \in Nat, NEW line \in 0 .. lines - 1
    PROVE  \E q \in Ranks : \A r \in Ranks : StartIndex(r) <= line /\ line < EndIndex(r) <=> r = q
<1> DEFINE P == PartitionSize
           N == NumProcesses
           last == N - 1
<1>1. N \in Nat \ {0} /\ Ranks = 0 .. last /\ last \in Ranks /\ line \in Nat /\ line < lines
  BY SearchAssumption DEF Ranks
<1>2. P \in Nat
  <2>1. (lines + 1) \div N \in Nat
    BY <1>1
  <2> QED BY <2>1 DEF PartitionSize, TotalRecords
<1> HIDE DEF P
<1>3. \A r \in Ranks : /\ r \in Nat /\ r <= last
                       /\ StartIndex(r) = r * P /\ r * P \in Nat
                       /\ line < EndIndex(r) <=> r = last \/ line < r * P + P
  <2> SUFFICES ASSUME NEW r \in Ranks
               PROVE  /\ r \in Nat /\ r <= last /\ StartIndex(r) = r * P /\ r * P \in Nat
                      /\ line < EndIndex(r) <=> r = last \/ line < r * P + P
    OBVIOUS
  <2>1. r \in Nat /\ r <= last
    BY <1>1
  <2>2. StartIndex(r) = r * P /\ r * P \in Nat
    <3>1. r * P \in Nat
      BY <1>2, <2>1
    <3> QED BY <3>1 DEF StartIndex, P
  <2>3. EndIndex(r) = LET end == IF r = last THEN lines + 1 ELSE r * P + P
                      IN  IF end > lines THEN lines ELSE end
    BY <2>2 DEF EndIndex, TotalRecords, P
  <2> QED BY <1>1, <1>2, <2>1, <2>2, <2>3
<1>4. CASE last * P <= line
  <2>1. ASSUME NEW r \in Ranks, r # last PROVE ~(line < r * P + P)
    <3>1. r \in Nat /\ last \in Nat /\ r < last
      BY <1>1, <2>1
    <3>2. PICK a, b : a = r * P + P /\ b = last * P
      OBVIOUS
    <3>3. a <= b
      BY <1>2, <3>1, <3>2, PartsFollow
    <3>4. a \in Nat /\ b \in Nat
      BY <1>2, <3>1, <3>2
    <3>5. b <= line
      BY <1>4, <3>2
    <3>6. ~(line < a)
      BY <1>1, <3>3, <3>4, <3>5
    <3> HIDE DEF P
    <3> QED BY <3>2, <3>6
  <2>2. ASSUME NEW r \in Ranks PROVE StartIndex(r) <= line /\ line < EndIndex(r) <=> r = last
    <3>1. StartIndex(r) = r * P /\ (line < EndIndex(r) <=> r = last \/ line < r * P + P)
      BY <1>3
    <3>2. r = last => StartIndex(r) <= line
      BY <1>4, <3>1
    <3> QED BY <2>1, <3>1, <3>2
  <2> QED BY <1>1, <2>2
<1>5. CASE line < last * P
  <2>1. P \in Nat \ {0}
    BY <1>1, <1>2, <1>5
  <2>2. PICK q \in Nat : q * P <= line /\ line < q * P + P
    <3>1. line \div P \in Nat /\ (line \div P) * P <= line /\ line < (line \div P) * P + P
      BY <1>1, <2>1
    <3> QED BY <3>1
  <2>3. q < last
    <3>1. ~(last <= q)
      <4>1. last = q \/ last < q => last * P <= q * P
        BY <1>1, <1>2, PartsFollow
      <4> QED BY <1>1, <1>2, <1>5, <2>2, <4>1
    <3> QED BY <1>1, <3>1
  <2>4. q \in Ranks
    BY <1>1, <2>3
  <2>5. ASSUME NEW r \in Ranks PROVE r * P <= line /\ (r = last \/ line < r * P + P) <=> r = q
    <3>1. r \in Nat /\ last \in Nat
      BY <1>1
    <3>2. PICK a, b : a = r * P /\ b = q * P
      OBVIOUS
    <3>3. a \in Nat /\ b \in Nat /\ b <= line /\ line < b + P
      BY <1>2, <2>2, <3>1, <3>2
    <3>4. (r < q => a + P <= b) /\ (q < r => b + P <= a)
      BY <1>2, <3>1, <3>2, PartsFollow
    <3>5. r = q => a = b
      BY <3>2
    <3>6. P \in Nat /\ line \in Nat
      BY <1>1, <1>2
    <3> HIDE DEF P
    <3>7. a <= line /\ (r = last \/ line < a + P) <=> r = q
      <4>1. CASE r < q
        BY <2>3, <3>1, <3>3, <3>4, <3>6, <4>1
      <4>2. CASE q < r
        BY <3>1, <3>3, <3>4, <3>6, <4>2
      <4>3. CASE r = q
        BY <3>3, <3>5, <4>3
      <4> QED BY <3>1, <4>1, <4>2, <4>3
    <3> QED BY <3>2, <3>7
  <2> QED BY <1>3, <2>4, <2>5
<1> QED BY <1>1, <1>2, <1>3, <1>4, <1>5

LEMMA PartsCover == lines \in Nat => EveryLineInOnePart
<1> SUFFICES ASSUME lines \in Nat, NEW line \in 0 .. lines - 1
             PROVE  Cardinality({r \in Ranks : StartIndex(r) <= line /\ line < EndIndex(r)}) = 1
  BY DEF EveryLineInOnePart
<1>1. PICK q \in Ranks : \A r \in Ranks : StartIndex(r) <= line /\ line < EndIndex(r) <=> r = q
  BY OneRankPerLine
<1>2. {r \in Ranks : StartIndex(r) <= line /\ line < EndIndex(r)} = {q}
  BY <1>1
<1> QED BY <1>2, FS_Singleton

-----------------------------------------------------------------------------
(* Fields and messages *)

LEMMA FieldTypes ==
    /\ Indexed \in Fields
    /\ \A f \in Fields : /\ field_to_value_type[f] \in {"DATE", "UINT8_T", "FIXED_STRING"}
                         /\ field_to_value_type[f] = "UINT8_T" <=> f = Indexed
                         /\ is_indexed_field(f) <=> field_to_value_type[f] # "FIXED_STRING"
<1>1. Fields = {"crash_date", "number_of_persons_injured", "borough", "vehicle_type_code_5"}
  <2>1. Len(Columns) = 4 /\ 1 .. 4 = {1, 2, 3, 4}
    BY DEF Columns
  <2> QED BY <2>1 DEF Fields, Columns
<1> QED BY <1>1 DEF field_to_value_type, is_indexed_field, Indexed

\* The query that is read from a message.
QueryOf(m) == [k \in DOMAIN m |-> create(m[k])]

\* A message that no rank throws at.
Readable(m) ==
    /\ m \in Messages /\ m # <<>>
    /\ \A k \in DOMAIN m : m[k].type \in Types /\ from_proto_query_value(m[k]) # Thrown

LEMMA MessageFacts ==
    ASSUME NEW m \in Messages
    PROVE  /\ Len(m) \in Nat /\ DOMAIN m = 1 .. Len(m)
           /\ m = <<>> <=> Len(m) = 0
           /\ \A k \in DOMAIN m :
                 /\ m[k].field \in Fields /\ m[k].not \in BOOLEAN
                 /\ DOMAIN m[k].data \in {{}, {"uint8_data"}, {"string_data"}}
                 /\ Read(m[k], "uint8_data") \in Nat
<1>1. Len(m) \in Nat /\ m = [k \in 1 .. Len(m) |-> m[k]]
  BY SearchAssumption
<1>2. DOMAIN m = 1 .. Len(m)
  BY <1>1
<1>3. m = <<>> <=> Len(m) = 0
  BY <1>1
<1> QED BY <1>1, <1>2, <1>3, SearchAssumption DEF Read

\* A query is the same wherever it is read, and has no dates.
LEMMA QueryRoundTrip ==
    ASSUME NEW m \in Messages, Readable(m)
    PROVE  /\ deserialize(m) = QueryOf(m)
           /\ deserialize(serialize(QueryOf(m))) = QueryOf(m)
<1>1. deserialize(m) = QueryOf(m)
  BY DEF deserialize, Readable, QueryOf
<1>2. PICK s : s = serialize(QueryOf(m))
  OBVIOUS
<1>3. s # <<>> /\ DOMAIN s = DOMAIN m
  <2>1. DOMAIN s = DOMAIN m
    BY <1>2 DEF serialize, QueryOf
  <2>2. 1 \in DOMAIN m
    BY MessageFacts DEF Readable
  <2> QED BY <2>1, <2>2
<1>4. ASSUME NEW k \in DOMAIN m
      PROVE  /\ s[k].type = m[k].type /\ from_proto_query_value(s[k]) = from_proto_query_value(m[k])
             /\ create(s[k]) = create(m[k])
  <2>1. s[k] = [field |-> m[k].field, type |-> m[k].type,
                data |-> [member \in {Member[field_to_value_type[m[k].field]]} |-> from_proto_query_value(m[k])],
                not |-> m[k].not, case_insensitive |-> m[k].case_insensitive]
    BY <1>2 DEF serialize, QueryOf, create
  <2>2. from_proto_query_value(s[k]) = from_proto_query_value(m[k])
    <3>1. m[k].field \in Fields /\ Read(m[k], "uint8_data") \in Nat
      BY MessageFacts
    <3>2. CASE field_to_value_type[m[k].field] = "UINT8_T"
      <4>1. from_proto_query_value(m[k]) = UInt8(Read(m[k], "uint8_data"))
        BY <3>2 DEF from_proto_query_value
      <4>2. from_proto_query_value(s[k]) = UInt8(from_proto_query_value(m[k]))
        BY <2>1, <3>2 DEF from_proto_query_value, Read, Member
      <4> QED BY <3>1, <4>1, <4>2, NumbersFit
    <3>3. CASE field_to_value_type[m[k].field] = "FIXED_STRING"
      <4>1. from_proto_query_value(m[k]) = CollisionString(Read(m[k], "string_data"))
        BY <3>3 DEF from_proto_query_value
      <4>2. from_proto_query_value(s[k]) = CollisionString(from_proto_query_value(m[k]))
        BY <2>1, <3>3 DEF from_proto_query_value, Read, Member
      <4> QED BY <4>1, <4>2 DEF CollisionString, Readable
    <3>4. field_to_value_type[m[k].field] # "DATE"
      BY DEF Readable, from_proto_query_value
    <3> QED BY <3>1, <3>2, <3>3, <3>4, FieldTypes
  <2> QED BY <2>1, <2>2 DEF create
<1>5. deserialize(s) = [k \in DOMAIN s |-> create(s[k])]
  BY <1>3, <1>4 DEF deserialize, Readable
<1> QED BY <1>1, <1>2, <1>3, <1>4, <1>5 DEF QueryOf

LEMMA FieldQueryFacts ==
    ASSUME NEW m \in Messages, Readable(m), NEW k \in DOMAIN m
    PROVE  LET q == QueryOf(m)[k]
           IN  /\ q.name \in Fields /\ q.type \in Types /\ q.invert_match = m[k].not
               /\ q.name = m[k].field /\ q.type = m[k].type /\ q.case_insensitive = m[k].case_insensitive
               /\ q.value = from_proto_query_value(m[k])
               /\ is_indexed_field(q.name) => q.name = Indexed /\ q.value \in Nat
<1>1. QueryOf(m)[k] = create(m[k]) /\ m[k].field \in Fields /\ Read(m[k], "uint8_data") \in Nat
  BY MessageFacts DEF QueryOf
<1>2. field_to_value_type[m[k].field] # "DATE"
  BY DEF Readable, from_proto_query_value
<1>3. is_indexed_field(m[k].field) => m[k].field = Indexed /\ field_to_value_type[m[k].field] = "UINT8_T"
  BY <1>1, <1>2, FieldTypes
<1>4. is_indexed_field(m[k].field) => from_proto_query_value(m[k]) \in Nat
  <2>1. field_to_value_type[m[k].field] = "UINT8_T" =>
           from_proto_query_value(m[k]) = UInt8(Read(m[k], "uint8_data"))
    BY DEF from_proto_query_value
  <2>2. \A x \in 0 .. 2^Width - 1 : x \in Nat
    BY FieldsAssumption
  <2> QED BY <1>1, <1>3, <2>1, <2>2, NumbersFit
<1> QED BY <1>1, <1>3, <1>4 DEF create, Readable

-----------------------------------------------------------------------------
(* The path of a binary search *)

\* The interval l .. h that is still searched is narrowed until the item in its
\* middle matches, or it is empty.  M are the positions that match, and D those
\* from which a search goes down.
MidOf(l, h) == l + (h - l) \div 2

Done(M, l, h) == l > h \/ MidOf(l, h) \in M

Narrowed(D, l, h) == IF MidOf(l, h) \in D THEN <<l, MidOf(l, h) - 1>> ELSE <<MidOf(l, h) + 1, h>>

ClosedUnder(M, D, C) ==
    \A l, h \in Int : <<l, h>> \in C /\ ~Done(M, l, h) => Narrowed(D, l, h) \in C

\* A search of l .. h comes to a .. b: it is in every set of intervals that holds
\* l .. h and with an interval what that is narrowed to.
Leads(M, D, l, h, a, b) ==
    \A C \in SUBSET (Int \X Int) : ClosedUnder(M, D, C) /\ <<l, h>> \in C => <<a, b>> \in C

LEMMA MidBetween ==
    ASSUME NEW l \in Int, NEW h \in Int
    PROVE  MidOf(l, h) \in Int /\ (l <= h => l <= MidOf(l, h) /\ MidOf(l, h) <= h)
BY DEF MidOf

LEMMA NarrowedType ==
    ASSUME NEW D, NEW l \in Int, NEW h \in Int
    PROVE  Narrowed(D, l, h) \in Int \X Int
<1>1. PICK m \in Int : m = MidOf(l, h)
  BY MidBetween
<1>2. <<l, m - 1>> \in Int \X Int /\ <<m + 1, h>> \in Int \X Int
  BY <1>1
<1> QED BY <1>1, <1>2 DEF Narrowed

LEMMA LeadsToNext ==
    ASSUME NEW M, NEW D, NEW l \in Int, NEW h \in Int, NEW a \in Int, NEW b \in Int,
           Leads(M, D, l, h, a, b), a <= b, MidOf(a, b) \notin M
    PROVE  /\ MidOf(a, b) \in D => Leads(M, D, l, h, a, MidOf(a, b) - 1)
           /\ MidOf(a, b) \notin D => Leads(M, D, l, h, MidOf(a, b) + 1, b)
<1>1. ~Done(M, a, b)
  BY DEF Done
<1>2. ASSUME NEW C \in SUBSET (Int \X Int), ClosedUnder(M, D, C), <<l, h>> \in C
      PROVE  Narrowed(D, a, b) \in C
  BY <1>1, <1>2 DEF Leads, ClosedUnder
<1> QED BY <1>2 DEF Leads, Narrowed

\* A search comes to one end only: whatever it comes to leads to that end.
LEMMA OneEnd ==
    ASSUME NEW M, NEW D, NEW l \in Int, NEW h \in Int,
           NEW a \in Int, NEW b \in Int, NEW c \in Int, NEW d \in Int,
           Leads(M, D, l, h, a, b), Done(M, a, b), Leads(M, D, l, h, c, d), Done(M, c, d)
    PROVE  a = c /\ b = d
<1> DEFINE B == {x \in Int \X Int : Leads(M, D, x[1], x[2], a, b)}
<1>1. \A x, y \in Int : <<x, y>> \in B <=> Leads(M, D, x, y, a, b)
  OBVIOUS
<1>2. ClosedUnder(M, D, B)
  <2> SUFFICES ASSUME NEW x \in Int, NEW y \in Int, Leads(M, D, x, y, a, b), ~Done(M, x, y)
               PROVE  Narrowed(D, x, y) \in B
    BY <1>1 DEF ClosedUnder
  <2>1. PICK u \in Int, v \in Int : Narrowed(D, x, y) = <<u, v>>
    BY NarrowedType
  <2>2. ASSUME NEW C \in SUBSET (Int \X Int), ClosedUnder(M, D, C), <<u, v>> \in C
        PROVE  <<a, b>> \in C
    <3>1. PICK C2 : C2 = C \cup {<<x, y>>}
      OBVIOUS
    <3>2. C2 \in SUBSET (Int \X Int) /\ <<x, y>> \in C2
      BY <3>1
    <3>3. ClosedUnder(M, D, C2)
      BY <2>1, <2>2, <3>1 DEF ClosedUnder
    <3>4. <<a, b>> \in C2
      BY <3>2, <3>3 DEF Leads
    <3>5. <<a, b>> # <<x, y>>
      OBVIOUS
    <3> QED BY <3>1, <3>4, <3>5
  <2>3. Leads(M, D, u, v, a, b)
    BY <2>2 DEF Leads
  <2> HIDE DEF B
  <2> QED BY <1>1, <2>1, <2>3
<1>3. <<l, h>> \in B /\ B \in SUBSET (Int \X Int)
  BY <1>1
<1>4. Leads(M, D, c, d, a, b)
  <2> HIDE DEF B
  <2>1. <<c, d>> \in B
    BY <1>2, <1>3 DEF Leads
  <2> QED BY <1>1, <2>1
<1>5. PICK C : C = {<<c, d>>}
  OBVIOUS
<1>6. ClosedUnder(M, D, C) /\ C \in SUBSET (Int \X Int) /\ <<c, d>> \in C
  BY <1>5 DEF ClosedUnder
<1>7. <<a, b>> \in C
  BY <1>4, <1>6 DEF Leads
<1> QED BY <1>5, <1>7

-----------------------------------------------------------------------------
(* The index *)

IndexOK ==
    /\ sorted \in [Positions -> Positions]
    /\ \A i, j \in Positions : i # j => sorted[i] # sorted[j]
    /\ \A i, j \in Positions : i < j => ~ComesBefore(Item(j), Item(i))

DataOK ==
    /\ lines \in Nat /\ rank \in Ranks
    /\ Size \in Nat /\ Positions = 0 .. Size - 1
    /\ \A i \in Positions : IsRecord(collisions[i])
    /\ IndexOK

\* What can be compared with the field query, and matches.
Matching == {i \in Positions : do_match(FieldQuery, Item(i)) /\ ~Throws(FieldQuery, Item(i))}

GoingDown == {i \in Positions : GoesDown(FieldQuery, Item(i))}

\* A field query on the field with the index.
Numeric(q) == q.name = Indexed /\ q.type \in Types /\ q.value \in Nat

LEMMA NumberMatches ==
    ASSUME NEW q, Numeric(q), NEW v
    PROVE  /\ Throws(q, v) <=> v # NoValue /\ q.type = "CONTAINS"
           /\ do_match(q, v) => v # NoValue
           /\ q.type = "HAS_VALUE" => (do_match(q, v) <=> v # NoValue)
           /\ q.type = "EQUALS" => (do_match(q, v) <=> v # NoValue /\ v = q.value)
           /\ q.type = "LESS_THAN" => (do_match(q, v) <=> v # NoValue /\ v < q.value)
           /\ q.type = "GREATER_THAN" => (do_match(q, v) <=> v # NoValue /\ v > q.value)
<1>1. field_to_value_type[q.name] = "UINT8_T"
  BY DEF Numeric, field_to_value_type, Indexed
<1> QED BY <1>1 DEF Throws, Unsupported, do_match, NumbersMatch, Numeric

LEMMA SortedItems ==
    ASSUME DataOK, NEW i \in Positions, NEW j \in Positions, i <= j
    PROVE  /\ Item(i) \in Nat \cup {NoValue} /\ Item(j) \in Nat \cup {NoValue}
           /\ Item(j) # NoValue => Item(i) # NoValue /\ Item(i) <= Item(j)
<1>1. \A k \in Positions : Item(k) \in Nat \cup {NoValue}
  <2>1. \A k \in Positions : IsRecord(collisions[sorted[k]])
    BY DEF DataOK, IndexOK
  <2>2. \A r : IsRecord(r) => r[Indexed] \in 0 .. 2^Width - 1 \cup {NoValue}
    BY DEF IsRecord, Indexed
  <2>3. \A v \in 0 .. 2^Width - 1 \cup {NoValue} : v \in Nat \cup {NoValue}
    BY FieldsAssumption
  <2> QED BY <2>1, <2>2, <2>3 DEF Item
<1>2. i = j \/ i < j
  BY DEF DataOK
<1>3. i < j => ~ComesBefore(Item(j), Item(i))
  BY DEF DataOK, IndexOK
<1> QED BY <1>1, <1>2, <1>3, FieldsAssumption DEF ComesBefore

\* What matches is in one piece.
LEMMA MatchesAreTogether ==
    ASSUME DataOK, Numeric(FieldQuery), FieldQuery.type # "CONTAINS",
           NEW i \in Matching, NEW k \in Matching, NEW j \in Positions, i <= j, j <= k
    PROVE  j \in Matching
<1>1. i \in Positions /\ k \in Positions /\ do_match(FieldQuery, Item(i)) /\ do_match(FieldQuery, Item(k))
  BY DEF Matching
<1>2. /\ Item(i) \in Nat /\ Item(j) \in Nat /\ Item(k) \in Nat
      /\ Item(j) # NoValue /\ Item(i) # NoValue /\ Item(k) # NoValue
      /\ Item(i) <= Item(j) /\ Item(j) <= Item(k)
  BY <1>1, SortedItems, NumberMatches
<1>3. FieldQuery.type \in {"HAS_VALUE", "EQUALS", "LESS_THAN", "GREATER_THAN"} /\ FieldQuery.value \in Nat
  BY DEF Numeric, Types
<1>4. do_match(FieldQuery, Item(j)) /\ ~Throws(FieldQuery, Item(j))
  BY <1>1, <1>2, <1>3, NumberMatches
<1> QED BY <1>4 DEF Matching

\* Missing values are no obstacle to the searches.
Plain == FieldQuery.type \in {"EQUALS", "LESS_THAN"} \/ \A i \in Positions : Item(i) # NoValue

\* A search goes away from what does not match.
LEMMA GoesToMatches ==
    ASSUME DataOK, Numeric(FieldQuery), Plain, FieldQuery.type # "CONTAINS",
           NEW m \in Positions, m \notin Matching, NEW i \in Matching
    PROVE  IF m \in GoingDown THEN i < m ELSE m < i
<1>1. i \in Positions /\ do_match(FieldQuery, Item(i)) /\ ~do_match(FieldQuery, Item(m))
  BY NumberMatches DEF Matching
<1>2. m \in GoingDown <=> \/ FieldQuery.type = "EQUALS" /\ ~(Item(m) # NoValue /\ Item(m) < FieldQuery.value)
                          \/ FieldQuery.type = "LESS_THAN"
  BY DEF GoingDown, GoesDown, equals_is_less_than
<1>3. i \in Int /\ m \in Int /\ i # m
  BY <1>1 DEF DataOK, Matching
<1>4. FieldQuery.type \in {"HAS_VALUE", "EQUALS", "LESS_THAN", "GREATER_THAN"} /\ FieldQuery.value \in Nat
  BY DEF Numeric, Types
<1>5. Item(i) # NoValue /\ (Item(m) = NoValue => FieldQuery.type \in {"EQUALS", "LESS_THAN"})
  BY <1>1, NumberMatches DEF Plain
<1>6. Item(i) \in Nat /\ Item(m) \in Nat \cup {NoValue}
  BY <1>1, <1>3, <1>5, SortedItems
<1>7. CASE m < i
  <2>1. Item(m) # NoValue /\ Item(m) \in Nat /\ Item(m) <= Item(i)
    <3>1. m <= i
      BY <1>3, <1>7
    <3> QED BY <1>1, <1>5, <1>6, <3>1, SortedItems
  <2>2. m \notin GoingDown
    BY <1>1, <1>2, <1>4, <1>5, <1>6, <2>1, NumberMatches
  <2> QED BY <1>7, <2>2
<1>8. CASE i < m
  <2>1. Item(m) # NoValue => Item(m) \in Nat /\ Item(i) <= Item(m)
    <3>1. i <= m
      BY <1>3, <1>8
    <3> QED BY <1>1, <1>6, <3>1, SortedItems
  <2>2. m \in GoingDown
    BY <1>1, <1>2, <1>4, <1>5, <1>6, <2>1, NumberMatches
  <2> QED BY <1>8, <2>2
<1> QED BY <1>3, <1>7, <1>8

-----------------------------------------------------------------------------
(* The invariant of the records and of the query *)

Answering == {"match", "lower", "upper", "unmatch", "send", "answered"}

Searching == {"lower", "upper", "unmatch"}

QueryOK ==
    pc \in Answering =>
        /\ message \in Messages /\ Readable(message) /\ query = QueryOf(message)
        /\ next \in 1 .. Len(message) + 1
        /\ pc \in Searching => next <= Len(message) /\ is_indexed_field(FieldQuery.name)

\* The records of the lines that are kept are records.
LEMMA RecordsCombined ==
    ASSUME NEW n \in Int, NEW part \in [1 .. n -> Lines],
           NEW parsed, parsed = [i \in DOMAIN part |-> ParsedLines[part[i]]],
           ~Contains(parsed, Thrown)
    PROVE  LET records == Combined(parsed)
           IN  Len(records) \in Nat /\ \A k \in 1 .. Len(records) : IsRecord(records[k])
<1> DEFINE S == {i \in DOMAIN parsed : parsed[i] # Dropped}
           kept == InOrder(S)
<1>1. DOMAIN parsed = 1 .. n /\ S \in SUBSET (1 .. n)
  OBVIOUS
<1>2. IsFiniteSet(S) /\ S \in SUBSET Int
  <2>1. IsFiniteSet(1 .. n) /\ \A i \in 1 .. n : i \in Int
    BY FS_Interval
  <2> HIDE DEF S
  <2> QED BY <1>1, <2>1, FS_Subset
<1> HIDE DEF S
<1>3. /\ Cardinality(S) \in Nat /\ DOMAIN kept = 1 .. Cardinality(S)
      /\ \A k \in 1 .. Cardinality(S) : kept[k] \in S
  BY <1>2, InOrderLists
<1> HIDE DEF kept
<1>4. PICK records : records = [k \in DOMAIN kept |-> parsed[kept[k]]]
  OBVIOUS
<1>5. records = Combined(parsed)
  BY <1>4 DEF Combined, kept, S
<1>6. Len(records) = Cardinality(S)
  BY <1>3, <1>4
<1>7. ASSUME NEW k \in 1 .. Cardinality(S) PROVE IsRecord(records[k])
  <2>1. PICK i \in 1 .. n : i = kept[k] /\ parsed[i] # Dropped
    BY <1>1, <1>3 DEF S
  <2>2. records[k] = parsed[i] /\ part[i] \in Lines
    BY <1>3, <1>4, <2>1
  <2>3. parsed[i] = parseline(part[i])
    BY <2>1, <2>2 DEF ParsedLines
  <2>4. parsed[i] # Thrown
    BY <1>1 DEF Contains
  <2> QED BY <2>1, <2>2, <2>3, <2>4, EveryLineIsTyped, SearchAssumption
<1> QED BY <1>3, <1>5, <1>6, <1>7

LEMMA DataInit == Init => DataOK /\ QueryOK
<1> SUFFICES ASSUME Init PROVE DataOK /\ QueryOK
  OBVIOUS
<1>1. Positions = {} /\ lines \in Nat /\ rank \in Ranks /\ pc = "load"
  BY SearchAssumption DEF Init, Positions
<1>2. Size = 0
  BY <1>1, FS_EmptySet DEF Size
<1>3. sorted \in [Positions -> Positions]
  BY <1>1 DEF Init
<1>4. 0 .. Size - 1 = {} /\ Size \in Nat
  BY <1>2
<1> QED BY <1>1, <1>3, <1>4 DEF DataOK, IndexOK, QueryOK, Answering

LEMMA DataKept ==
    ASSUME UNCHANGED data
    PROVE  /\ Positions' = Positions /\ Size' = Size /\ \A i : Item(i)' = Item(i)
           /\ DataOK => DataOK'
BY DEF data, Positions, Size, Item, DataOK, IndexOK

LEMMA LoadStep ==
    ASSUME DataOK, Load
    PROVE  DataOK' /\ pc' \notin Answering
<1>1. PICK n, part : /\ n = EndIndex(rank) - StartIndex(rank)
                     /\ part \in [1 .. n -> Lines]
                     /\ LET parsed == [i \in DOMAIN part |-> ParsedLines[part[i]]]
                            records == Combined(parsed)
                        IN  IF Contains(parsed, Thrown)
                            THEN Terminate
                            ELSE /\ collisions' = [i \in 0 .. Len(records) - 1 |-> records[i + 1]]
                                 /\ sorted' \in SortedIndexes(collisions')
                                 /\ pc' = "ready"
                                 /\ UNCHANGED <<lines, rank, search, probes>>
  BY DEF Load
<1>2. PICK parsed, records : /\ parsed = [i \in DOMAIN part |-> ParsedLines[part[i]]]
                             /\ records = Combined(parsed)
  OBVIOUS
<1>3. CASE Contains(parsed, Thrown)
  <2>1. Terminate
    BY <1>1, <1>2, <1>3
  <2> QED BY <2>1, DataKept DEF Terminate, Answering
<1>4. CASE ~Contains(parsed, Thrown)
  <2>1. /\ collisions' = [i \in 0 .. Len(records) - 1 |-> records[i + 1]]
        /\ sorted' \in SortedIndexes(collisions') /\ pc' = "ready"
        /\ lines' = lines /\ rank' = rank
    BY <1>1, <1>2, <1>4
  <2>2. CASE n \in Int
    <3>1. Len(records) \in Nat /\ \A k \in 1 .. Len(records) : IsRecord(records[k])
      BY <1>1, <1>2, <1>4, <2>2, RecordsCombined
    <3>2. PICK size \in Nat : size = Len(records)
      BY <3>1
    <3>3. Positions' = 0 .. size - 1 /\ Size' = size
      BY <2>1, <3>2, RangeIsFinite DEF Positions, Size
    <3>4. \A i \in Positions' : IsRecord(collisions'[i])
      BY <2>1, <3>1, <3>2, <3>3
    <3>5. IndexOK'
      <4>1. DOMAIN collisions' = Positions'
        BY DEF Positions
      <4> QED BY <2>1, <4>1 DEF IndexOK, SortedIndexes, Item
    <3> QED BY <2>1, <3>2, <3>3, <3>4, <3>5 DEF DataOK, Answering
  <2>3. n \in Int
    <3>1. PICK P \in Nat : P = PartitionSize
      BY SearchAssumption DEF PartitionSize, TotalRecords, DataOK
    <3>2. rank \in Nat /\ rank * P \in Nat /\ lines \in Nat
      BY <3>1, SearchAssumption DEF DataOK, Ranks
    <3>3. StartIndex(rank) \in Nat /\ EndIndex(rank) \in Nat
      BY <3>1, <3>2 DEF StartIndex, EndIndex, TotalRecords
    <3> QED BY <1>1, <3>3
  <2> QED BY <2>2, <2>3
<1> QED BY <1>3, <1>4

-----------------------------------------------------------------------------
(* The two searches *)

\* Both searches begin with the whole index, and take the same path up to the
\* first match.
Path ==
    {interval \in Int \X Int : Leads(Matching, GoingDown, 0, Size - 1, interval[1], interval[2])}

NoMatch == \E a, b \in Int : <<a, b>> \in Path /\ a > b

FirstMatches == {m \in Matching : \E a, b \in Int : <<a, b>> \in Path /\ a <= b /\ m = MidOf(a, b)}

Window == low \in Nat /\ high \in Int /\ high <= Size - 1

LowerFirst ==
    /\ lower_bound \in Matching \cup {Null}
    /\ lower_bound # Null => \E m \in FirstMatches : lower_bound <= m

UpperFirst ==
    /\ upper_bound \in Matching \cup {Null}
    /\ upper_bound # Null => \E m \in FirstMatches : m <= upper_bound

\* Without a match the first search is on the path; with one it is below that.  It
\* has not left out a match that is below the bound.
LowerSearch ==
    /\ Window /\ LowerFirst
    /\ lower_bound = Null => <<low, high>> \in Path
    /\ lower_bound # Null => high < lower_bound
    /\ Plain /\ FieldQuery.type = "CONTAINS" => low = 0 /\ high = Size - 1
    /\ Plain => \A i \in Matching : low <= i /\ (high < i => lower_bound # Null /\ lower_bound <= i)

LowerEnded ==
    /\ LowerFirst
    /\ lower_bound = Null => NoMatch
    /\ Plain => \A i \in Matching : lower_bound # Null /\ lower_bound <= i

UpperSearch ==
    /\ Window /\ UpperFirst
    /\ upper_bound = Null => <<low, high>> \in Path
    /\ upper_bound # Null => upper_bound < low
    /\ Plain => \A i \in Matching : i <= high /\ (i < low => upper_bound # Null /\ i <= upper_bound)

UpperEnded ==
    /\ UpperFirst
    /\ upper_bound = Null => NoMatch
    /\ Plain => \A i \in Matching : upper_bound # Null /\ i <= upper_bound

\* The first probe throws, if there is one.
NoProbes == Plain /\ FieldQuery.type = "CONTAINS" => Size = 0

SearchInv ==
    /\ pc \in {"upper", "unmatch"} => NoProbes
    /\ pc = "lower" => LowerSearch /\ upper_bound = Null
    /\ pc = "upper" => LowerEnded /\ UpperSearch
    /\ pc = "unmatch" => LowerEnded /\ UpperEnded

LEMMA SearchesNumbers == QueryOK /\ pc \in Searching => Numeric(FieldQuery)
<1> SUFFICES ASSUME QueryOK, pc \in Searching PROVE Numeric(FieldQuery)
  OBVIOUS
<1>1. /\ message \in Messages /\ Readable(message) /\ query = QueryOf(message)
      /\ next \in 1 .. Len(message) /\ is_indexed_field(FieldQuery.name)
  BY MessageFacts DEF QueryOK, Answering, Searching
<1>2. next \in DOMAIN message /\ FieldQuery = QueryOf(message)[next]
  BY <1>1, MessageFacts DEF FieldQuery
<1> QED BY <1>1, <1>2, FieldQueryFacts DEF Numeric

\* The searches change nothing that they look at.
LEMMA SearchKept ==
    ASSUME UNCHANGED <<data, query, next>>
    PROVE  /\ Matching' = Matching /\ Size' = Size /\ Positions' = Positions
           /\ FieldQuery' = FieldQuery /\ (Plain' <=> Plain)
           /\ Path' = Path /\ FirstMatches' = FirstMatches /\ (NoMatch' <=> NoMatch)
<1>1. FieldQuery' = FieldQuery
  BY DEF FieldQuery
<1>2. Positions' = Positions /\ Size' = Size /\ \A i : Item(i)' = Item(i)
  BY DataKept
<1>3. Matching' = Matching
  BY <1>1, <1>2 DEF Matching
<1>4. GoingDown' = GoingDown
  BY <1>1, <1>2 DEF GoingDown
<1>5. Plain' <=> Plain
  BY <1>1, <1>2 DEF Plain
<1>6. Path' = Path
  BY <1>2, <1>3, <1>4 DEF Path, Leads, ClosedUnder, Done, Narrowed, MidOf
<1>7. FirstMatches' = FirstMatches
  BY <1>3, <1>6 DEF FirstMatches, MidOf
<1>8. NoMatch' <=> NoMatch
  BY <1>6 DEF NoMatch
<1> QED BY <1>1, <1>2, <1>3, <1>5, <1>6, <1>7, <1>8

LEMMA SearchKeepsInv ==
    ASSUME UNCHANGED <<data, query, next, probes>>
    PROVE  /\ LowerEnded => LowerEnded'
           /\ UpperEnded => UpperEnded'
<1>1. lower_bound' = lower_bound /\ upper_bound' = upper_bound
  BY DEF probes
<1> QED BY <1>1, SearchKept DEF LowerEnded, UpperEnded, LowerFirst, UpperFirst

LEMMA PathBegins == Size \in Nat => <<0, Size - 1>> \in Path
BY DEF Path, Leads

LEMMA MatchesInIndex ==
    ASSUME DataOK
    PROVE  /\ Size \in Nat /\ Null \notin Matching
           /\ \A i \in Matching : i \in Nat /\ i <= Size - 1
BY DEF DataOK, Matching, Null

LEMMA SearchBegins ==
    ASSUME DataOK, MatchIndexedField
    PROVE  SearchInv'
<1>1. /\ pc' = "lower" /\ low' = 0 /\ high' = Size - 1 /\ lower_bound' = Null /\ upper_bound' = Null
      /\ UNCHANGED <<data, query, next>>
  BY DEF MatchIndexedField, search
<1>2. /\ Matching' = Matching /\ Size' = Size /\ Path' = Path
      /\ Size \in Nat /\ \A i \in Matching : i \in Nat /\ i <= Size - 1
  BY <1>1, SearchKept, MatchesInIndex
<1>3. Window'
  BY <1>1, <1>2 DEF Window
<1>4. LowerFirst'
  BY <1>1 DEF LowerFirst
<1>5. \A i \in Matching : 0 <= i /\ ~(Size - 1 < i)
  BY <1>2
<1>6. LowerSearch'
  BY <1>1, <1>2, <1>3, <1>4, <1>5, PathBegins DEF LowerSearch
<1> QED BY <1>1, <1>6 DEF SearchInv

\* The middle is in the index; where the search goes on.
LEMMA ProbeFacts ==
    ASSUME DataOK, QueryOK, Window, pc \in {"lower", "upper"}, low <= high, ~Throws(FieldQuery, Item(Mid))
    PROVE  /\ Mid \in Positions /\ Mid \in Nat /\ low <= Mid /\ Mid <= high
           /\ Mid \in Matching <=> do_match(FieldQuery, Item(Mid))
           /\ Mid \in GoingDown <=> GoesDown(FieldQuery, Item(Mid))
           /\ Mid \notin Matching /\ Plain => \A i \in Matching : IF Mid \in GoingDown THEN i < Mid ELSE Mid < i
           /\ Plain => FieldQuery.type # "CONTAINS"
           /\ <<low, high>> \in Path /\ Mid \in Matching => Mid \in FirstMatches
           /\ <<low, high>> \in Path /\ Mid \notin Matching =>
                 IF Mid \in GoingDown THEN <<low, Mid - 1>> \in Path ELSE <<Mid + 1, high>> \in Path
<1>1. low \in Nat /\ high \in Int /\ Size \in Nat /\ high <= Size - 1 /\ Positions = 0 .. Size - 1
  BY DEF Window, DataOK
<1>2. Mid = MidOf(low, high) /\ Mid \in Int /\ low <= Mid /\ Mid <= high
  BY <1>1, MidBetween DEF Mid, MidOf
<1>3. Mid \in Positions /\ Mid \in Nat
  BY <1>1, <1>2
<1>4. /\ Mid \in Matching <=> do_match(FieldQuery, Item(Mid))
      /\ Mid \in GoingDown <=> GoesDown(FieldQuery, Item(Mid))
  BY <1>3 DEF Matching, GoingDown
<1>5. Numeric(FieldQuery)
  BY SearchesNumbers DEF Searching
<1>6. Plain => FieldQuery.type # "CONTAINS"
  BY <1>3, <1>5, NumberMatches DEF Plain
<1>7. Mid \notin Matching /\ Plain => \A i \in Matching : IF Mid \in GoingDown THEN i < Mid ELSE Mid < i
  BY <1>3, <1>5, <1>6, GoesToMatches
<1>8. <<low, high>> \in Path /\ Mid \in Matching => Mid \in FirstMatches
  <2> SUFFICES ASSUME <<low, high>> \in Path, Mid \in Matching PROVE Mid \in FirstMatches
    OBVIOUS
  <2>1. PICK a, b : a \in Int /\ b \in Int /\ a <= b /\ <<a, b>> \in Path /\ Mid = MidOf(a, b)
    BY <1>1, <1>2
  <2> QED BY <2>1 DEF FirstMatches
<1>9. <<low, high>> \in Path /\ Mid \notin Matching =>
         IF Mid \in GoingDown THEN <<low, Mid - 1>> \in Path ELSE <<Mid + 1, high>> \in Path
  <2>1. 0 \in Int /\ Size - 1 \in Int /\ low \in Int /\ high \in Int /\ Mid - 1 \in Int /\ Mid + 1 \in Int
    BY <1>1, <1>2
  <2>2. \A a, b \in Int : <<a, b>> \in Path <=> Leads(Matching, GoingDown, 0, Size - 1, a, b)
    BY DEF Path
  <2>3. <<low, high>> \in Path /\ Mid \notin Matching =>
           /\ Mid \in GoingDown => Leads(Matching, GoingDown, 0, Size - 1, low, Mid - 1)
           /\ Mid \notin GoingDown => Leads(Matching, GoingDown, 0, Size - 1, Mid + 1, high)
    BY <1>2, <2>1, <2>2, LeadsToNext
  <2> QED BY <2>1, <2>2, <2>3
<1> QED BY <1>2, <1>3, <1>4, <1>6, <1>7, <1>8, <1>9

LEMMA LowerStep ==
    ASSUME DataOK, QueryOK, SearchInv, FindFirstLowerMatch
    PROVE  SearchInv'
<1>1. /\ pc = "lower" /\ low <= high /\ ~Throws(FieldQuery, Item(Mid)) /\ pc' = pc
      /\ UNCHANGED <<data, query, next, upper_bound>>
  BY DEF FindFirstLowerMatch, search
<1>2. LowerSearch /\ upper_bound' = Null /\ Window
  BY <1>1 DEF SearchInv, LowerSearch
<1>3. /\ low \in Nat /\ high \in Int /\ Size \in Nat /\ high <= Size - 1
      /\ Null \notin Matching /\ \A i \in Matching : i \in Nat
  BY <1>2, MatchesInIndex DEF Window
<1>4. /\ Matching' = Matching /\ Size' = Size /\ FirstMatches' = FirstMatches /\ Path' = Path
      /\ (Plain' <=> Plain) /\ FieldQuery' = FieldQuery
      /\ (Plain => FieldQuery.type # "CONTAINS")
  BY <1>1, <1>2, SearchKept, ProbeFacts
<1>5. CASE Mid \in Matching
  <2>1. lower_bound' = Mid /\ high' = Mid - 1 /\ low' = low
    BY <1>1, <1>2, <1>5, ProbeFacts DEF FindFirstLowerMatch, Down
  <2>2. Mid \in Nat /\ Mid # Null /\ low <= Mid /\ Mid <= high
    BY <1>1, <1>2, <1>3, <1>5, ProbeFacts
  <2>3. \E m \in FirstMatches : Mid <= m
    <3>1. CASE lower_bound = Null
      <4>1. Mid \in FirstMatches /\ Mid <= Mid
        BY <1>1, <1>2, <1>5, <2>2, <3>1, ProbeFacts DEF LowerSearch
      <4> QED BY <4>1
    <3>2. CASE lower_bound # Null
      <4>1. PICK m \in FirstMatches : lower_bound <= m
        BY <1>2, <3>2 DEF LowerSearch, LowerFirst
      <4>2. high < lower_bound /\ lower_bound \in Matching /\ m \in Matching
        BY <1>2, <3>2 DEF LowerSearch, LowerFirst, FirstMatches
      <4>3. Mid <= m
        BY <1>3, <2>2, <4>1, <4>2
      <4> QED BY <4>3
    <3> QED BY <3>1, <3>2
  <2>4. Window'
    BY <1>3, <1>4, <2>1, <2>2 DEF Window
  <2>5. LowerFirst'
    BY <1>4, <1>5, <2>1, <2>3 DEF LowerFirst
  <2>6. lower_bound' # Null /\ high' < lower_bound'
    BY <2>1, <2>2
  <2>7. Plain => \A i \in Matching : low' <= i /\ (high' < i => lower_bound' <= i)
    <3>1. \A i \in Matching : Mid - 1 < i => Mid <= i
      BY <1>3, <2>2
    <3> QED BY <1>2, <2>1, <3>1 DEF LowerSearch
  <2>8. LowerSearch'
    BY <1>4, <2>4, <2>5, <2>6, <2>7 DEF LowerSearch
  <2> QED BY <1>1, <1>2, <2>8 DEF SearchInv
<1>6. CASE Mid \notin Matching
  <2>1. /\ lower_bound' = lower_bound
        /\ IF Mid \in GoingDown THEN high' = Mid - 1 /\ low' = low ELSE low' = Mid + 1 /\ high' = high
    BY <1>1, <1>2, <1>6, ProbeFacts DEF FindFirstLowerMatch, Down, Up
  <2>2. /\ Mid \in Nat /\ low <= Mid /\ Mid <= high
        /\ Plain => \A i \in Matching : IF Mid \in GoingDown THEN i < Mid ELSE Mid < i
    BY <1>1, <1>2, <1>6, ProbeFacts
  <2>3. Window'
    BY <1>3, <1>4, <2>1, <2>2 DEF Window
  <2>4. LowerFirst'
    BY <1>2, <1>4, <2>1 DEF LowerSearch, LowerFirst
  <2>5. lower_bound' = Null => <<low', high'>> \in Path
    BY <1>1, <1>2, <1>6, <2>1, ProbeFacts DEF LowerSearch
  <2>6. lower_bound' # Null => high' < lower_bound'
    <3>1. lower_bound # Null => high < lower_bound /\ lower_bound \in Nat
      BY <1>2, <1>3 DEF LowerSearch, LowerFirst
    <3> QED BY <1>3, <2>1, <2>2, <3>1
  <2>7. Plain => \A i \in Matching : low' <= i /\ (high' < i => lower_bound' # Null /\ lower_bound' <= i)
    <3> SUFFICES ASSUME Plain, NEW i \in Matching
                 PROVE  low' <= i /\ (high' < i => lower_bound' # Null /\ lower_bound' <= i)
      OBVIOUS
    <3>1. low <= i /\ (high < i => lower_bound # Null /\ lower_bound <= i) /\ i \in Nat
      BY <1>2, <1>3 DEF LowerSearch
    <3>2. CASE Mid \in GoingDown
      <4>1. i < Mid /\ low' = low /\ high' = Mid - 1
        BY <2>1, <2>2, <3>2
      <4>2. ~(high' < i)
        BY <2>2, <3>1, <4>1
      <4> QED BY <3>1, <4>1, <4>2
    <3>3. CASE Mid \notin GoingDown
      <4>1. Mid < i /\ low' = Mid + 1 /\ high' = high
        BY <2>1, <2>2, <3>3
      <4> QED BY <2>1, <2>2, <3>1, <4>1
    <3> QED BY <3>2, <3>3
  <2>8. LowerSearch'
    BY <1>4, <2>3, <2>4, <2>5, <2>6, <2>7 DEF LowerSearch
  <2> QED BY <1>1, <1>2, <2>8 DEF SearchInv
<1> QED BY <1>5, <1>6

LEMMA UpperStep ==
    ASSUME DataOK, QueryOK, SearchInv, FindLastUpperMatch
    PROVE  SearchInv'
<1>1. /\ pc = "upper" /\ low <= high /\ ~Throws(FieldQuery, Item(Mid)) /\ pc' = pc
      /\ UNCHANGED <<data, query, next, lower_bound>>
  BY DEF FindLastUpperMatch, search
<1>2. UpperSearch /\ LowerEnded /\ Window
  BY <1>1 DEF SearchInv, UpperSearch
<1>3. /\ low \in Nat /\ high \in Int /\ Size \in Nat /\ high <= Size - 1
      /\ Null \notin Matching /\ \A i \in Matching : i \in Nat
  BY <1>2, MatchesInIndex DEF Window
<1>4. /\ Matching' = Matching /\ Size' = Size /\ FirstMatches' = FirstMatches /\ Path' = Path
      /\ (Plain' <=> Plain) /\ (NoMatch' <=> NoMatch)
  BY <1>1, SearchKept
<1>5. NoProbes'
  BY <1>1, SearchKept DEF NoProbes, SearchInv
<1>6. LowerEnded'
  BY <1>1, <1>2, <1>4 DEF LowerEnded, LowerFirst
<1>7. CASE Mid \in Matching
  <2>1. upper_bound' = Mid /\ low' = Mid + 1 /\ high' = high
    BY <1>1, <1>2, <1>7, ProbeFacts DEF FindLastUpperMatch, Up
  <2>2. Mid \in Nat /\ Mid # Null /\ low <= Mid /\ Mid <= high
    BY <1>1, <1>2, <1>3, <1>7, ProbeFacts
  <2>3. \E m \in FirstMatches : m <= Mid
    <3>1. CASE upper_bound = Null
      <4>1. Mid \in FirstMatches /\ Mid <= Mid
        BY <1>1, <1>2, <1>7, <2>2, <3>1, ProbeFacts DEF UpperSearch
      <4> QED BY <4>1
    <3>2. CASE upper_bound # Null
      <4>1. PICK m \in FirstMatches : m <= upper_bound
        BY <1>2, <3>2 DEF UpperSearch, UpperFirst
      <4>2. upper_bound < low /\ upper_bound \in Matching /\ m \in Matching
        BY <1>2, <3>2 DEF UpperSearch, UpperFirst, FirstMatches
      <4>3. m <= Mid
        BY <1>3, <2>2, <4>1, <4>2
      <4> QED BY <4>3
    <3> QED BY <3>1, <3>2
  <2>4. Window'
    BY <1>3, <1>4, <2>1, <2>2 DEF Window
  <2>5. UpperFirst'
    BY <1>4, <1>7, <2>1, <2>3 DEF UpperFirst
  <2>6. upper_bound' # Null /\ upper_bound' < low'
    BY <2>1, <2>2
  <2>7. Plain => \A i \in Matching : i <= high' /\ (i < low' => i <= upper_bound')
    <3>1. \A i \in Matching : i < Mid + 1 => i <= Mid
      BY <1>3, <2>2
    <3> QED BY <1>2, <2>1, <3>1 DEF UpperSearch
  <2>8. UpperSearch'
    BY <1>4, <2>4, <2>5, <2>6, <2>7 DEF UpperSearch
  <2> QED BY <1>1, <1>5, <1>6, <2>8 DEF SearchInv
<1>8. CASE Mid \notin Matching
  <2>1. /\ upper_bound' = upper_bound
        /\ IF Mid \in GoingDown THEN high' = Mid - 1 /\ low' = low ELSE low' = Mid + 1 /\ high' = high
    BY <1>1, <1>2, <1>8, ProbeFacts DEF FindLastUpperMatch, Down, Up
  <2>2. /\ Mid \in Nat /\ low <= Mid /\ Mid <= high
        /\ Plain => \A i \in Matching : IF Mid \in GoingDown THEN i < Mid ELSE Mid < i
    BY <1>1, <1>2, <1>8, ProbeFacts
  <2>3. Window'
    BY <1>3, <1>4, <2>1, <2>2 DEF Window
  <2>4. UpperFirst'
    BY <1>2, <1>4, <2>1 DEF UpperSearch, UpperFirst
  <2>5. upper_bound' = Null => <<low', high'>> \in Path
    BY <1>1, <1>2, <1>8, <2>1, ProbeFacts DEF UpperSearch
  <2>6. upper_bound' # Null => upper_bound' < low'
    <3>1. upper_bound # Null => upper_bound < low /\ upper_bound \in Nat
      BY <1>2, <1>3 DEF UpperSearch, UpperFirst
    <3> QED BY <1>3, <2>1, <2>2, <3>1
  <2>7. Plain => \A i \in Matching : i <= high' /\ (i < low' => upper_bound' # Null /\ i <= upper_bound')
    <3> SUFFICES ASSUME Plain, NEW i \in Matching
                 PROVE  i <= high' /\ (i < low' => upper_bound' # Null /\ i <= upper_bound')
      OBVIOUS
    <3>1. i <= high /\ (i < low => upper_bound # Null /\ i <= upper_bound) /\ i \in Nat
      BY <1>2, <1>3 DEF UpperSearch
    <3>2. CASE Mid \notin GoingDown
      <4>1. Mid < i /\ low' = Mid + 1 /\ high' = high
        BY <2>1, <2>2, <3>2
      <4>2. ~(i < low')
        BY <2>2, <3>1, <4>1
      <4> QED BY <3>1, <4>1, <4>2
    <3>3. CASE Mid \in GoingDown
      <4>1. i < Mid /\ low' = low /\ high' = Mid - 1
        BY <2>1, <2>2, <3>3
      <4> QED BY <2>1, <2>2, <3>1, <4>1
    <3> QED BY <3>2, <3>3
  <2>8. UpperSearch'
    BY <1>4, <2>3, <2>4, <2>5, <2>6, <2>7 DEF UpperSearch
  <2> QED BY <1>1, <1>5, <1>6, <2>8 DEF SearchInv
<1> QED BY <1>7, <1>8

LEMMA LowerFoundStep ==
    ASSUME DataOK, SearchInv, LowerFound
    PROVE  SearchInv'
<1>1. /\ pc = "lower" /\ low > high /\ low' = 0 /\ high' = Size - 1 /\ pc' = "upper"
      /\ lower_bound' = lower_bound /\ upper_bound' = upper_bound
      /\ UNCHANGED <<data, query, next>>
  BY DEF LowerFound, search
<1>2. LowerSearch /\ upper_bound' = Null /\ low \in Nat /\ high \in Int
  BY <1>1 DEF SearchInv, LowerSearch, Window
<1>3. /\ Matching' = Matching /\ Size' = Size /\ FirstMatches' = FirstMatches /\ Path' = Path
      /\ (Plain' <=> Plain) /\ (NoMatch' <=> NoMatch)
      /\ Size \in Nat /\ \A i \in Matching : i \in Nat /\ i <= Size - 1
  BY <1>1, SearchKept, MatchesInIndex
<1>4. NoProbes'
  <2>1. NoProbes
    <3>1. low = 0 /\ high = Size - 1 => Size = 0
      BY <1>1, <1>3
    <3> QED BY <1>2, <3>1 DEF LowerSearch, NoProbes
  <2> QED BY <1>1, <2>1, SearchKept DEF NoProbes
<1>5. LowerEnded
  <2>1. lower_bound = Null => NoMatch
    BY <1>1, <1>2 DEF LowerSearch, NoMatch
  <2>2. Plain => \A i \in Matching : lower_bound # Null /\ lower_bound <= i
    <3>1. \A i \in Matching : low <= i => high < i
      BY <1>1, <1>2, <1>3
    <3> QED BY <1>2, <3>1 DEF LowerSearch
  <2> QED BY <1>2, <2>1, <2>2 DEF LowerSearch, LowerEnded
<1>6. LowerEnded'
  BY <1>1, <1>3, <1>5 DEF LowerEnded, LowerFirst
<1>7. UpperSearch'
  <2>1. Window' /\ UpperFirst'
    BY <1>1, <1>2, <1>3 DEF Window, UpperFirst
  <2>2. \A i \in Matching : i <= Size - 1 /\ ~(i < 0)
    BY <1>3
  <2> QED BY <1>1, <1>2, <1>3, <2>1, <2>2, PathBegins DEF UpperSearch
<1> QED BY <1>1, <1>4, <1>6, <1>7 DEF SearchInv

LEMMA UpperFoundStep ==
    ASSUME DataOK, SearchInv, UpperFound
    PROVE  SearchInv'
<1>1. /\ pc = "upper" /\ low > high /\ pc' = "unmatch"
      /\ UNCHANGED <<data, query, next, probes>>
  BY DEF UpperFound, search
<1>2. LowerEnded /\ UpperSearch /\ low \in Nat /\ high \in Int
  BY <1>1 DEF SearchInv, UpperSearch, Window
<1>3. \A i \in Matching : i \in Nat
  BY MatchesInIndex
<1>4. UpperEnded
  <2>1. upper_bound = Null => NoMatch
    BY <1>1, <1>2 DEF UpperSearch, NoMatch
  <2>2. Plain => \A i \in Matching : upper_bound # Null /\ i <= upper_bound
    <3>1. \A i \in Matching : i <= high => i < low
      BY <1>1, <1>2, <1>3
    <3> QED BY <1>2, <3>1 DEF UpperSearch
  <2> QED BY <1>2, <2>1, <2>2 DEF UpperSearch, UpperEnded
<1>5. NoProbes'
  BY <1>1, SearchKept DEF NoProbes, SearchInv
<1> QED BY <1>1, <1>2, <1>4, <1>5, SearchKeepsInv DEF SearchInv

-----------------------------------------------------------------------------
(* The query that is answered *)

LEMMA SearchAsks ==
    ASSUME QueryOK, Search
    PROVE  /\ QueryOK' /\ UNCHANGED data /\ pc = "ready" /\ message' \in Messages
           /\ \/ /\ pc' = "match" /\ Readable(message') /\ query' = QueryOf(message') /\ next' = 1
                 /\ matches' = [i \in Positions |-> TRUE]
              \/ pc' = "terminated" /\ deserialize(message') = Thrown
<1>1. /\ pc = "ready" /\ message' \in Messages /\ UNCHANGED data
      /\ \/ deserialize(message') = Thrown /\ pc' = "terminated"
         \/ /\ deserialize(message') # Thrown
            /\ query' \in {deserialize(message'), deserialize(serialize(deserialize(message')))}
            /\ next' = 1 /\ matches' = [i \in Positions |-> TRUE] /\ pc' = "match"
  BY DEF Search
<1>2. CASE deserialize(message') = Thrown /\ pc' = "terminated"
  BY <1>1, <1>2 DEF QueryOK, Answering
<1>3. CASE /\ deserialize(message') # Thrown
           /\ query' \in {deserialize(message'), deserialize(serialize(deserialize(message')))}
           /\ next' = 1 /\ matches' = [i \in Positions |-> TRUE] /\ pc' = "match"
  <2>1. PICK m \in Messages : m = message'
    BY <1>1
  <2>2. Readable(m)
    BY <1>3, <2>1 DEF deserialize, Readable
  <2>3. deserialize(m) = QueryOf(m) /\ deserialize(serialize(QueryOf(m))) = QueryOf(m)
    BY <2>2, QueryRoundTrip
  <2>4. query' = QueryOf(m)
    BY <1>3, <2>1, <2>3
  <2>5. 1 \in 1 .. Len(m) + 1
    BY MessageFacts
  <2>6. QueryOK'
    BY <1>3, <2>1, <2>2, <2>4, <2>5 DEF QueryOK, Searching
  <2> QED BY <1>1, <1>3, <2>1, <2>2, <2>4, <2>6
<1> QED BY <1>1, <1>2, <1>3

\* The length of the query, and what it asks next.
LEMMA QueryFacts ==
    ASSUME QueryOK, pc \in Answering
    PROVE  /\ message \in Messages /\ Readable(message) /\ query = QueryOf(message)
           /\ DOMAIN message = 1 .. Len(message) /\ Len(message) \in Nat
           /\ Len(query) = Len(message) /\ next \in 1 .. Len(message) + 1
           /\ next <= Len(message) => next \in DOMAIN message
<1>1. message \in Messages /\ Readable(message) /\ query = QueryOf(message) /\ next \in 1 .. Len(message) + 1
  BY DEF QueryOK
<1>2. DOMAIN message = 1 .. Len(message) /\ Len(message) \in Nat
  BY <1>1, MessageFacts
<1>3. Len(query) = Len(message)
  BY <1>1, <1>2 DEF QueryOf
<1> QED BY <1>1, <1>2, <1>3

LEMMA QueryStep ==
    ASSUME QueryOK, Answer
    PROVE  QueryOK' /\ UNCHANGED data
<1>1. UNCHANGED data
  BY DEF Answer, MatchField, MatchIndexedField, FindFirstLowerMatch, LowerFound, FindLastUpperMatch,
         UpperFound, ProbeThrows, Unmatch, Collect, Send, Return, Terminate
<1>2. CASE pc' \notin Answering
  BY <1>1, <1>2 DEF QueryOK
<1>3. CASE pc' \in Answering
  <2>1. pc \in Answering /\ message' = message /\ query' = query
    BY <1>3 DEF Answer, MatchField, MatchIndexedField, FindFirstLowerMatch, LowerFound, FindLastUpperMatch,
         UpperFound, ProbeThrows, Unmatch, Collect, Send, Return, Terminate, Answering, search
  <2>2. next \in 1 .. Len(message) + 1 /\ Len(message) \in Nat /\ Len(query) = Len(message)
    BY <2>1, QueryFacts
  <2>3. CASE MatchField \/ Unmatch
    <3>1. next <= Len(message) /\ next' = next + 1
      BY <1>3, <2>1, <2>2, <2>3 DEF MatchField, Unmatch, QueryOK, Searching, Terminate, Answering
    <3>2. pc' \notin Searching
      BY <1>3, <2>3 DEF MatchField, Unmatch, Searching, Answering, Terminate
    <3>3. next' \in 1 .. Len(message) + 1
      BY <2>2, <3>1
    <3> QED BY <1>1, <2>1, <3>2, <3>3 DEF QueryOK
  <2>4. CASE ~(MatchField \/ Unmatch)
    <3>1. next' = next /\ (pc' \in Searching => next <= Len(query) /\ is_indexed_field(FieldQuery.name))
      BY <1>3, <2>1, <2>2, <2>4 DEF Answer, MatchIndexedField, FindFirstLowerMatch, LowerFound, FindLastUpperMatch,
         UpperFound, ProbeThrows, Collect, Send, Return, Terminate, Answering, search, QueryOK, Searching
    <3>2. FieldQuery' = FieldQuery
      BY <2>1, <3>1 DEF FieldQuery
    <3> QED BY <1>1, <2>1, <2>2, <3>1, <3>2 DEF QueryOK
  <2> QED BY <2>3, <2>4
<1> QED BY <1>1, <1>2, <1>3

-----------------------------------------------------------------------------
(* The bounds *)

IndexInv == DataOK /\ QueryOK /\ SearchInv

LEMMA IndexInvInit == Init => IndexInv
BY DataInit DEF Init, IndexInv, SearchInv

LEMMA IndexInvStep ==
    ASSUME IndexInv, [Next]_vars
    PROVE  IndexInv'
<1> USE DEF IndexInv
<1>1. CASE Load
  <2>1. DataOK' /\ pc' \notin Answering
    BY <1>1, LoadStep
  <2> QED BY <2>1 DEF QueryOK, SearchInv, Answering
<1>2. CASE Search
  <2>1. QueryOK' /\ UNCHANGED data /\ pc' \in {"match", "terminated"}
    BY <1>2, SearchAsks
  <2> QED BY <2>1, DataKept DEF SearchInv
<1>3. CASE Answer
  <2>1. QueryOK' /\ DataOK'
    BY <1>3, QueryStep, DataKept
  <2>2. CASE MatchIndexedField
    BY <2>1, <2>2, SearchBegins
  <2>3. CASE FindFirstLowerMatch
    BY <2>1, <2>3, LowerStep
  <2>4. CASE LowerFound
    BY <2>1, <2>4, LowerFoundStep
  <2>5. CASE FindLastUpperMatch
    BY <2>1, <2>5, UpperStep
  <2>6. CASE UpperFound
    BY <2>1, <2>6, UpperFoundStep
  <2>7. CASE MatchField \/ ProbeThrows \/ Unmatch \/ Collect \/ Send \/ Return
    <3>1. pc' \notin {"lower", "upper", "unmatch"}
      BY <2>7 DEF MatchField, ProbeThrows, Unmatch, Collect, Send, Return, Terminate
    <3> QED BY <2>1, <3>1 DEF SearchInv
  <2> QED BY <1>3, <2>2, <2>3, <2>4, <2>5, <2>6, <2>7 DEF Answer
<1>4. CASE UNCHANGED vars
  <2>1. UNCHANGED <<data, query, next, probes, message, pc>>
    BY <1>4 DEF vars, search
  <2>2. DataOK' /\ QueryOK'
    BY <2>1, DataKept DEF QueryOK, FieldQuery
  <2>3. SearchInv'
    BY <2>1, SearchKept DEF SearchInv, LowerSearch, LowerFirst, LowerEnded, UpperSearch, UpperFirst, UpperEnded,
       Window, NoProbes, probes
  <2> QED BY <2>2, <2>3
<1> QED BY <1>1, <1>2, <1>3, <1>4 DEF Next

\* Both searches end at the same first match, or without one.
LEMMA OneFirstMatch ==
    ASSUME Size \in Nat
    PROVE  /\ NoMatch => FirstMatches = {}
           /\ \A m, n \in FirstMatches : m = n
<1>1. \A a, b \in Int : <<a, b>> \in Path <=> Leads(Matching, GoingDown, 0, Size - 1, a, b)
  BY DEF Path
<1>2. 0 \in Int /\ Size - 1 \in Int
  OBVIOUS
<1>3. ASSUME NEW a \in Int, NEW b \in Int, NEW c \in Int, NEW d \in Int,
             <<a, b>> \in Path, <<c, d>> \in Path, Done(Matching, a, b), Done(Matching, c, d)
      PROVE  a = c /\ b = d
  BY <1>1, <1>2, <1>3, OneEnd
<1>4. ASSUME NoMatch, NEW m \in FirstMatches PROVE FALSE
  <2>1. PICK a \in Int, b \in Int : <<a, b>> \in Path /\ a > b
    BY <1>4 DEF NoMatch
  <2>2. PICK c \in Int, d \in Int : <<c, d>> \in Path /\ c <= d /\ MidOf(c, d) \in Matching
    BY <1>4 DEF FirstMatches
  <2>3. a = c /\ b = d
    BY <1>3, <2>1, <2>2 DEF Done
  <2> QED BY <2>1, <2>2, <2>3
<1>5. ASSUME NEW m \in FirstMatches, NEW n \in FirstMatches PROVE m = n
  <2>1. PICK a \in Int, b \in Int : <<a, b>> \in Path /\ MidOf(a, b) \in Matching /\ m = MidOf(a, b)
    BY <1>5 DEF FirstMatches
  <2>2. PICK c \in Int, d \in Int : <<c, d>> \in Path /\ MidOf(c, d) \in Matching /\ n = MidOf(c, d)
    BY <1>5 DEF FirstMatches
  <2>3. a = c /\ b = d
    BY <1>3, <2>1, <2>2 DEF Done
  <2> QED BY <2>1, <2>2, <2>3
<1> QED BY <1>4, <1>5

LEMMA BoundsFound ==
    ASSUME IndexInv, pc = "unmatch"
    PROVE  /\ lower_bound = Null <=> upper_bound = Null
           /\ lower_bound <= upper_bound
           /\ \A i \in Positions : Within(i) => i \in Matching
           /\ Plain => \A i \in Matching : Within(i)
<1>1. /\ LowerEnded /\ UpperEnded /\ LowerFirst /\ UpperFirst /\ DataOK /\ Numeric(FieldQuery)
  BY SearchesNumbers DEF IndexInv, SearchInv, Searching, LowerEnded, UpperEnded
<1>2. Size \in Nat /\ Null \notin Matching /\ \A i \in Matching : i \in Nat
  BY <1>1, MatchesInIndex
<1>3. (NoMatch => FirstMatches = {}) /\ \A m, n \in FirstMatches : m = n /\ m \in Matching
  BY <1>2, OneFirstMatch DEF FirstMatches
<1>4. lower_bound = Null <=> upper_bound = Null
  BY <1>1, <1>3 DEF LowerEnded, UpperEnded, LowerFirst, UpperFirst
<1>5. CASE lower_bound = Null
  <2>1. upper_bound = Null /\ lower_bound <= upper_bound
    BY <1>4, <1>5 DEF Null
  <2> QED BY <1>1, <1>5, <2>1 DEF Within, LowerEnded
<1>6. CASE lower_bound # Null
  <2>1. /\ upper_bound # Null /\ lower_bound \in Matching /\ upper_bound \in Matching
        /\ lower_bound \in Nat /\ upper_bound \in Nat
    BY <1>1, <1>2, <1>4, <1>6 DEF LowerFirst, UpperFirst
  <2>2. lower_bound <= upper_bound
    <3>1. PICK m \in FirstMatches : lower_bound <= m
      BY <1>1, <1>6 DEF LowerFirst
    <3>2. PICK n \in FirstMatches : n <= upper_bound
      BY <1>1, <2>1 DEF UpperFirst
    <3>3. m = n /\ m \in Nat
      BY <1>2, <1>3
    <3> QED BY <2>1, <3>1, <3>2, <3>3
  <2>3. FieldQuery.type # "CONTAINS"
    BY <1>1, <2>1, NumberMatches DEF Matching
  <2>4. \A i \in Positions : Within(i) => i \in Matching
    BY <1>1, <2>1, <2>3, MatchesAreTogether DEF Within
  <2>5. Plain => \A i \in Matching : Within(i)
    BY <1>1, <1>6, <2>1 DEF LowerEnded, UpperEnded, Within
  <2> QED BY <1>4, <2>2, <2>4, <2>5
<1> QED BY <1>5, <1>6

\* The two binary searches agree, however the items and the probes are.
LEMMA IndexInvBounds == IndexInv => BoundsAgree
<1> SUFFICES ASSUME IndexInv PROVE BoundsAgree
  OBVIOUS
<1>1. pc \in {"lower", "upper"} /\ low <= high => {low, high} \subseteq Positions
  <2> SUFFICES ASSUME pc \in {"lower", "upper"}, low <= high PROVE {low, high} \subseteq Positions
    OBVIOUS
  <2>1. Window /\ Size \in Nat /\ Positions = 0 .. Size - 1
    BY DEF IndexInv, SearchInv, LowerSearch, UpperSearch, DataOK
  <2>2. low \in 0 .. Size - 1 /\ high \in 0 .. Size - 1
    BY <2>1 DEF Window
  <2> QED BY <2>1, <2>2
<1>2. \A i \in Matching : do_match(FieldQuery, Item(i))
  BY DEF Matching
<1> QED BY <1>1, <1>2, BoundsFound DEF BoundsAgree

-----------------------------------------------------------------------------
(* What matches *)

\* The record at position i is one that field query k has left.
Left(k, i) == do_match(query[k], collisions[i][query[k].name]) # query[k].invert_match

AllSupported == \A k \in DOMAIN message : Supported(message[k])

\* What has been left by the field queries up to n.
LeftBy(n) == [i \in Positions |-> \A k \in 1 .. n : Left(k, i)]

MatchesOK ==
    AllSupported =>
        /\ pc \in {"match"} \cup Searching => matches = LeftBy(next - 1)
        /\ pc \in {"send", "answered"} => results = RecordsAt({i \in Positions : LeftBy(Len(message))[i]})

\* Every record is at a position of the index.
LEMMA IndexIsOnto ==
    ASSUME DataOK, NEW p \in Positions
    PROVE  \E i \in Positions : sorted[i] = p
<1>1. IsFiniteSet(Positions)
  BY FS_Interval DEF DataOK
<1>2. sorted \in Injection(Positions, Positions)
  BY DEF DataOK, IndexOK, Injection, IsInjective
<1>3. sorted \in Surjection(Positions, Positions)
  BY <1>1, <1>2, FS_Injection
<1> QED BY <1>3 DEF Surjection

\* A field query more.
LEMMA LeftByNext ==
    ASSUME NEW n \in Nat \ {0}, NEW i \in Positions
    PROVE  LeftBy(n)[i] <=> LeftBy(n - 1)[i] /\ Left(n, i)
<1>1. \A k : k \in 1 .. n <=> k \in 1 .. n - 1 \/ k = n
  OBVIOUS
<1> QED BY <1>1 DEF LeftBy

\* What is between the bounds is what the field query on the index leaves, if it
\* is one that the bounds are right for.
LEMMA BoundsLeave ==
    ASSUME IndexInv, pc = "unmatch", AllSupported, NEW p \in Positions
    PROVE  Left(next, p) <=> ~\E i \in Positions : sorted[i] = p /\ ~Within(i)
<1>1. /\ message \in Messages /\ Readable(message) /\ query = QueryOf(message)
      /\ next \in DOMAIN message /\ is_indexed_field(FieldQuery.name)
  BY QueryFacts DEF IndexInv, QueryOK, Searching, Answering
<1>2. FieldQuery = QueryOf(message)[next] /\ FieldQuery = query[next]
  BY <1>1 DEF FieldQuery
<1>3. /\ FieldQuery.name = Indexed /\ FieldQuery.name = message[next].field
      /\ FieldQuery.type = message[next].type /\ FieldQuery.invert_match = message[next].not
  BY <1>1, <1>2, FieldQueryFacts
<1>4. /\ ~message[next].not
      /\ \/ message[next].type \in {"EQUALS", "LESS_THAN"}
         \/ \A i \in Positions : collisions[i][Indexed] # NoValue
  BY <1>1, <1>3 DEF AllSupported, Supported
<1>5. FieldQuery.invert_match = FALSE
  BY <1>1, <1>3, <1>4, MessageFacts
<1>6. Numeric(FieldQuery) /\ DataOK
  BY SearchesNumbers DEF IndexInv, Searching
<1>7. Plain
  <2>1. \A i \in Positions : sorted[i] \in Positions
    BY <1>6 DEF DataOK, IndexOK
  <2> QED BY <1>3, <1>4, <2>1 DEF Plain, Item
<1>8. FieldQuery.type # "CONTAINS"
  <2>1. NoProbes
    BY DEF IndexInv, SearchInv
  <2>2. Size # 0
    BY <1>6 DEF DataOK
  <2> QED BY <1>7, <2>1, <2>2 DEF NoProbes
<1>9. PICK i \in Positions : sorted[i] = p
  BY <1>6, IndexIsOnto
<1>10. \A j \in Positions : sorted[j] = p <=> j = i
  BY <1>6, <1>9 DEF DataOK, IndexOK
<1>11. Within(i) <=> i \in Matching
  BY <1>7, BoundsFound
<1>12. i \in Matching <=> do_match(FieldQuery, Item(i))
  BY <1>6, <1>8, NumberMatches DEF Matching
<1>13. do_match(FieldQuery, Item(i)) \in BOOLEAN
  BY DEF do_match
<1>14. Left(next, p) <=> do_match(FieldQuery, Item(i))
  BY <1>2, <1>3, <1>5, <1>9, <1>13 DEF Left, Item
<1> QED BY <1>10, <1>11, <1>12, <1>14

LEMMA MatchesKept ==
    ASSUME UNCHANGED <<data, message, query>>
    PROVE  /\ AllSupported' <=> AllSupported
           /\ \A n : LeftBy(n)' = LeftBy(n)
           /\ Positions' = Positions
<1>1. Positions' = Positions /\ collisions' = collisions
  BY DEF data, Positions
<1>2. AllSupported' <=> AllSupported
  BY <1>1 DEF AllSupported, Supported
<1>3. \A n : LeftBy(n)' = LeftBy(n)
  BY <1>1 DEF LeftBy, Left
<1> QED BY <1>1, <1>2, <1>3

\* A record is the same when it comes to the client.
LEMMA RecordRoundTrip ==
    ASSUME NEW r, IsRecord(r)
    PROVE  deserialize_collision(serialize_collision(r)) = r
<1>1. PICK s : s = serialize_collision(r)
  OBVIOUS
<1>2. /\ DOMAIN s = {f \in Fields : r[f] # NoValue}
      /\ \A f \in Fields : r[f] # NoValue => s[f] = r[f]
  BY <1>1 DEF serialize_collision
<1>3. \A f \in Fields : deserialize_collision(s)[f] = r[f]
  <2> SUFFICES ASSUME NEW f \in Fields PROVE deserialize_collision(s)[f] = r[f]
    OBVIOUS
  <2>1. CASE r[f] = NoValue
    BY <1>2, <2>1 DEF deserialize_collision
  <2>2. CASE r[f] # NoValue
    <3>1. deserialize_collision(s)[f] =
             CASE field_to_value_type[f] = "DATE" -> r[f]
               [] field_to_value_type[f] = "UINT8_T" -> UInt8(r[f])
               [] field_to_value_type[f] = "FIXED_STRING" -> CollisionString(r[f])
      BY <1>2, <2>2 DEF deserialize_collision
    <3>2. CASE field_to_value_type[f] = "DATE"
      BY <3>1, <3>2
    <3>3. CASE field_to_value_type[f] = "UINT8_T"
      <4>1. f = Indexed /\ r[f] \in 0 .. 2^Width - 1
        BY <2>2, <3>3, FieldTypes DEF IsRecord, Indexed
      <4> QED BY <3>1, <3>3, <4>1, NumbersFit
    <3>4. CASE field_to_value_type[f] = "FIXED_STRING"
      <4>1. Len(r[f]) \in 0 .. StringLength /\ StringLength \in Nat
        BY <2>2, <3>4, FieldsAssumption DEF IsRecord
      <4>2. CollisionString(r[f]) = r[f]
        BY <4>1 DEF CollisionString
      <4> QED BY <3>1, <3>4, <4>2
    <3> QED BY <3>2, <3>3, <3>4, FieldTypes
  <2> QED BY <2>1, <2>2
<1>4. deserialize_collision(s) = [f \in Fields |-> deserialize_collision(s)[f]]
  <2> DEFINE Value(f) == IF f \notin DOMAIN s THEN NoValue
                         ELSE CASE field_to_value_type[f] = "DATE" -> s[f]
                                [] field_to_value_type[f] = "UINT8_T" -> UInt8(s[f])
                                [] field_to_value_type[f] = "FIXED_STRING" -> CollisionString(s[f])
  <2>1. deserialize_collision(s) = [f \in Fields |-> Value(f)]
    BY DEF deserialize_collision
  <2> HIDE DEF Value
  <2> QED BY <2>1
<1>5. r = [f \in Fields |-> r[f]]
  BY DEF IsRecord
<1> QED BY <1>1, <1>3, <1>4, <1>5

\* A field query accepts what its condition says.
LEMMA LeftIfAccepted ==
    ASSUME QueryOK, pc \in Answering, AllSupported, NEW k \in DOMAIN message, NEW i \in Positions
    PROVE  Left(k, i) <=> Accepts(message[k], collisions[i])
<1>1. message \in Messages /\ Readable(message) /\ query = QueryOf(message) /\ Supported(message[k])
  BY QueryFacts DEF AllSupported
<1>2. PICK q : q = query[k]
  OBVIOUS
<1>3. PICK c : c = message[k]
  OBVIOUS
<1>4. /\ q.name = c.field /\ q.type = c.type /\ q.invert_match = c.not /\ q.case_insensitive = c.case_insensitive
      /\ q.value = from_proto_query_value(c) /\ c.field \in Fields
  BY <1>1, <1>2, <1>3, FieldQueryFacts
<1>5. PICK asked : asked = [name |-> c.field, type |-> c.type,
                            value |-> c.data[Member[field_to_value_type[c.field]]],
                            case_insensitive |-> c.case_insensitive]
  OBVIOUS
<1>6. Accepts(c, collisions[i]) <=> do_match(asked, collisions[i][c.field]) # c.not
  BY <1>5 DEF Accepts
<1>7. Left(k, i) <=> do_match(q, collisions[i][c.field]) # c.not
  BY <1>2, <1>4 DEF Left
<1>8. c.type = "HAS_VALUE" \/ q.value = asked.value
  <2> SUFFICES ASSUME c.type # "HAS_VALUE" PROVE q.value = asked.value
    OBVIOUS
  <2>1. /\ DOMAIN c.data = {Member[field_to_value_type[c.field]]}
        /\ "uint8_data" \in DOMAIN c.data => c.data["uint8_data"] < 2^Width
    BY <1>1, <1>3 DEF Supported
  <2>2. from_proto_query_value(c) # Thrown /\ Read(c, "uint8_data") \in Nat
    BY <1>1, <1>3, MessageFacts DEF Readable
  <2>3. CASE field_to_value_type[c.field] = "UINT8_T"
    <3>1. Read(c, "uint8_data") = c.data["uint8_data"] /\ asked.value = c.data["uint8_data"]
      BY <1>5, <2>1, <2>3 DEF Read, Member
    <3>2. c.data["uint8_data"] \in 0 .. 2^Width - 1
      BY <2>1, <2>2, <2>3, <3>1, FieldsAssumption DEF Member
    <3>3. q.value = UInt8(c.data["uint8_data"])
      BY <1>4, <2>3, <3>1 DEF from_proto_query_value
    <3> QED BY <3>1, <3>2, <3>3, NumbersFit
  <2>4. CASE field_to_value_type[c.field] = "FIXED_STRING"
    <3>1. Read(c, "string_data") = c.data["string_data"] /\ asked.value = c.data["string_data"]
      BY <1>5, <2>1, <2>4 DEF Read, Member
    <3>2. q.value = CollisionString(c.data["string_data"]) /\ q.value # Thrown
      BY <1>4, <2>2, <2>4, <3>1 DEF from_proto_query_value
    <3> QED BY <3>1, <3>2 DEF CollisionString
  <2>5. field_to_value_type[c.field] # "DATE"
    BY <2>2 DEF from_proto_query_value
  <2> QED BY <1>4, <2>3, <2>4, <2>5, FieldTypes
<1>9. do_match(q, collisions[i][c.field]) <=> do_match(asked, collisions[i][c.field])
  <2>1. /\ q.name = asked.name /\ q.type = asked.type /\ q.case_insensitive = asked.case_insensitive
        /\ q.type = "HAS_VALUE" \/ q.value = asked.value
    BY <1>4, <1>5, <1>8
  <2> QED BY <2>1 DEF do_match, StringsMatch, NumbersMatch
<1>10. do_match(q, collisions[i][c.field]) = do_match(asked, collisions[i][c.field])
  BY <1>9 DEF do_match
<1> QED BY <1>3, <1>6, <1>7, <1>10

LEMMA MatchFieldStep ==
    ASSUME QueryOK, MatchesOK, MatchField
    PROVE  MatchesOK'
<1>1. CASE pc' = "terminated"
  BY <1>1 DEF MatchesOK, Searching
<1>2. CASE pc' # "terminated"
  <2>1. /\ pc = "match" /\ pc' = pc /\ UNCHANGED <<data, message, query>> /\ next' = next + 1
        /\ matches' = [i \in Positions |->
              matches[i] /\ do_match(FieldQuery, collisions[i][FieldQuery.name]) # FieldQuery.invert_match]
    BY <1>2 DEF MatchField, Terminate
  <2>2. next \in Nat \ {0}
    BY <2>1, QueryFacts DEF Answering
  <2>3. \A i \in Positions : matches'[i] <=> matches[i] /\ Left(next, i)
    BY <2>1 DEF Left, FieldQuery
  <2>4. ASSUME AllSupported PROVE matches' = LeftBy(next' - 1)
    <3>1. matches = LeftBy(next - 1)
      BY <2>1, <2>4 DEF MatchesOK
    <3>2. \A i \in Positions : matches'[i] <=> LeftBy(next)[i]
      BY <2>2, <2>3, <3>1, LeftByNext
    <3>3. \A i \in Positions : matches'[i] \in BOOLEAN /\ LeftBy(next)[i] \in BOOLEAN
      BY <2>1 DEF LeftBy
    <3>4. \A i \in Positions : matches'[i] = LeftBy(next)[i]
      BY <3>2, <3>3
    <3>5. DOMAIN matches' = Positions /\ matches' = [i \in Positions |-> matches'[i]]
      BY <2>1
    <3>6. LeftBy(next) = [i \in Positions |-> LeftBy(next)[i]]
      BY DEF LeftBy
    <3>7. matches' = LeftBy(next)
      BY <3>4, <3>5, <3>6
    <3>8. next' - 1 = next
      BY <2>1, <2>2
    <3> QED BY <3>7, <3>8
  <2>5. /\ AllSupported' <=> AllSupported
        /\ \A n : LeftBy(n)' = LeftBy(n)
    BY <2>1, MatchesKept
  <2>6. LeftBy(next - 1)' = LeftBy(next' - 1)
    BY <2>1 DEF LeftBy, Left, data, Positions
  <2> QED BY <2>1, <2>4, <2>5, <2>6 DEF MatchesOK, Searching
<1> QED BY <1>1, <1>2

LEMMA UnmatchStep ==
    ASSUME IndexInv, MatchesOK, Unmatch
    PROVE  MatchesOK'
<1>1. /\ pc = "unmatch" /\ pc' = "match" /\ UNCHANGED <<data, message, query>> /\ next' = next + 1
      /\ matches' = [p \in Positions |-> matches[p] /\ ~\E i \in Positions : sorted[i] = p /\ ~Within(i)]
  BY DEF Unmatch
<1>2. next \in Nat \ {0}
  BY <1>1, QueryFacts DEF Answering, IndexInv
<1>3. ASSUME AllSupported PROVE matches' = LeftBy(next' - 1)
  <2>1. matches = LeftBy(next - 1)
    BY <1>1, <1>3 DEF MatchesOK, Searching
  <2>2. \A p \in Positions : matches'[p] <=> matches[p] /\ Left(next, p)
    BY <1>1, <1>3, BoundsLeave
  <2>3. \A p \in Positions : matches'[p] <=> LeftBy(next)[p]
    BY <1>2, <2>1, <2>2, LeftByNext
  <2>4. \A p \in Positions : matches'[p] \in BOOLEAN /\ LeftBy(next)[p] \in BOOLEAN
    BY <1>1 DEF LeftBy
  <2>5. \A p \in Positions : matches'[p] = LeftBy(next)[p]
    BY <2>3, <2>4
  <2>6. matches' = [p \in Positions |-> matches'[p]] /\ LeftBy(next) = [p \in Positions |-> LeftBy(next)[p]]
    BY <1>1 DEF LeftBy
  <2>7. matches' = LeftBy(next)
    BY <2>5, <2>6
  <2>8. next' - 1 = next
    BY <1>1, <1>2
  <2> QED BY <2>7, <2>8
<1>4. AllSupported' <=> AllSupported
  BY <1>1, MatchesKept
<1>5. LeftBy(next - 1)' = LeftBy(next' - 1)
  BY <1>1 DEF LeftBy, Left, data, Positions
<1> QED BY <1>1, <1>3, <1>4, <1>5 DEF MatchesOK, Searching

LEMMA CollectStep ==
    ASSUME QueryOK, MatchesOK, Collect
    PROVE  MatchesOK'
<1>1. /\ pc = "match" /\ pc' = "send" /\ UNCHANGED <<data, message, query, next>>
      /\ next > Len(query) /\ results' = RecordsAt({i \in Positions : matches[i]})
  BY DEF Collect
<1>2. next - 1 = Len(message)
  <2>1. next \in 1 .. Len(message) + 1 /\ Len(message) \in Nat /\ Len(query) = Len(message)
    BY <1>1, QueryFacts DEF Answering
  <2> QED BY <1>1, <2>1
<1>3. AllSupported => matches = LeftBy(Len(message))
  BY <1>1, <1>2 DEF MatchesOK
<1>4. /\ AllSupported' <=> AllSupported
      /\ RecordsAt({i \in Positions : LeftBy(Len(message))[i]})' = RecordsAt({i \in Positions : LeftBy(Len(message))[i]})
  <2>1. AllSupported' <=> AllSupported
    BY <1>1, MatchesKept
  <2>2. collisions' = collisions /\ Positions' = Positions /\ message' = message /\ query' = query
    BY <1>1 DEF data, Positions
  <2> QED BY <2>1, <2>2 DEF RecordsAt, LeftBy, Left
<1> QED BY <1>1, <1>3, <1>4 DEF MatchesOK, Searching

\* The records of a result are records.
LEMMA RecordsAreSent ==
    ASSUME DataOK, NEW S \in SUBSET Positions
    PROVE  LET records == RecordsAt(S)
           IN  [k \in DOMAIN records |-> deserialize_collision(serialize_collision(records[k]))] = records
<1>1. IsFiniteSet(S) /\ S \in SUBSET Int
  <2>1. IsFiniteSet(Positions) /\ \A i \in Positions : i \in Int
    BY FS_Interval DEF DataOK
  <2> QED BY <2>1, FS_Subset
<1>2. /\ Cardinality(S) \in Nat /\ DOMAIN InOrder(S) = 1 .. Cardinality(S)
      /\ \A k \in 1 .. Cardinality(S) : InOrder(S)[k] \in S
  BY <1>1, InOrderLists
<1>3. PICK order : order = InOrder(S)
  OBVIOUS
<1>4. PICK records : records = [k \in DOMAIN order |-> collisions[order[k]]]
  OBVIOUS
<1>5. records = RecordsAt(S)
  BY <1>3, <1>4 DEF RecordsAt
<1>6. \A k \in DOMAIN records : deserialize_collision(serialize_collision(records[k])) = records[k]
  <2> SUFFICES ASSUME NEW k \in DOMAIN records
               PROVE  deserialize_collision(serialize_collision(records[k])) = records[k]
    OBVIOUS
  <2>1. IsRecord(records[k])
    BY <1>2, <1>3, <1>4 DEF DataOK
  <2> QED BY <2>1, RecordRoundTrip
<1>7. [k \in DOMAIN records |-> deserialize_collision(serialize_collision(records[k]))] = records
  BY <1>4, <1>6
<1> QED BY <1>5, <1>7

LEMMA SendStep ==
    ASSUME DataOK, MatchesOK, Send
    PROVE  MatchesOK'
<1>1. /\ pc = "send" /\ pc' = "answered" /\ UNCHANGED <<data, message, query, next>>
      /\ results' = [k \in DOMAIN results |-> deserialize_collision(serialize_collision(results[k]))]
  BY DEF Send
<1>2. PICK S : S = {i \in Positions : LeftBy(Len(message))[i]}
  OBVIOUS
<1>3. AllSupported => results' = RecordsAt(S)
  <2>1. S \in SUBSET Positions
    BY <1>2
  <2> QED BY <1>1, <1>2, <2>1, RecordsAreSent DEF MatchesOK
<1>4. /\ AllSupported' <=> AllSupported
      /\ RecordsAt({i \in Positions : LeftBy(Len(message))[i]})' = RecordsAt(S)
  <2>1. AllSupported' <=> AllSupported
    BY <1>1, MatchesKept
  <2>2. collisions' = collisions /\ Positions' = Positions /\ message' = message /\ query' = query
    BY <1>1 DEF data, Positions
  <2> QED BY <1>2, <2>1, <2>2 DEF RecordsAt, LeftBy, Left
<1> QED BY <1>1, <1>3, <1>4 DEF MatchesOK, Searching

\* What the other steps leave as it is.
LEMMA MatchesSame ==
    ASSUME MatchesOK, UNCHANGED <<data, message, query, next, matches, results>>,
           pc' \in {"match"} \cup Searching => pc \in {"match"} \cup Searching,
           pc' \in {"send", "answered"} => pc' = pc
    PROVE  MatchesOK'
<1>1. AllSupported' <=> AllSupported
  BY MatchesKept
<1>2. collisions' = collisions /\ Positions' = Positions
  BY DEF data, Positions
<1>3. LeftBy(next - 1)' = LeftBy(next - 1)
  BY <1>2 DEF LeftBy, Left
<1>4. RecordsAt({i \in Positions : LeftBy(Len(message))[i]})' = RecordsAt({i \in Positions : LeftBy(Len(message))[i]})
  BY <1>2 DEF RecordsAt, LeftBy, Left
<1> QED BY <1>1, <1>3, <1>4 DEF MatchesOK, Searching

-----------------------------------------------------------------------------
(* What ends the process *)

LEMMA RefusedMessages ==
    ASSUME NEW m \in Messages, deserialize(m) = Thrown
    PROVE  \/ m = <<>>
           \/ \E k \in DOMAIN m :
                 \/ m[k].type \notin Types \/ field_to_value_type[m[k].field] = "DATE"
                 \/ "string_data" \in DOMAIN m[k].data /\ Len(m[k].data.string_data) > StringLength
<1> SUFFICES ASSUME m # <<>>, NEW k \in DOMAIN m, m[k].type \in Types, from_proto_query_value(m[k]) = Thrown,
                    field_to_value_type[m[k].field] # "DATE"
             PROVE  "string_data" \in DOMAIN m[k].data /\ Len(m[k].data.string_data) > StringLength
  <2>1. Thrown # [k \in DOMAIN m |-> create(m[k])]
    BY SearchAssumption
  <2> QED BY <2>1 DEF deserialize
<1>1. m[k].field \in Fields /\ Read(m[k], "uint8_data") \in Nat
  BY MessageFacts
<1>2. field_to_value_type[m[k].field] # "UINT8_T"
  <2> SUFFICES ASSUME field_to_value_type[m[k].field] = "UINT8_T" PROVE FALSE
    OBVIOUS
  <2>1. from_proto_query_value(m[k]) = UInt8(Read(m[k], "uint8_data"))
    BY DEF from_proto_query_value
  <2>2. \A x \in 0 .. 2^Width - 1 : x # Thrown
    BY FieldsAssumption
  <2> QED BY <1>1, <2>1, <2>2, NumbersFit
<1>3. from_proto_query_value(m[k]) = CollisionString(Read(m[k], "string_data"))
  BY <1>1, <1>2, FieldTypes DEF from_proto_query_value
<1>4. "string_data" \in DOMAIN m[k].data => m[k].data.string_data # Thrown
  BY SearchAssumption
<1>5. "string_data" \in DOMAIN m[k].data
  BY <1>3, FieldsAssumption DEF Read, CollisionString
<1> QED BY <1>3, <1>4, <1>5 DEF Read, CollisionString

EndOK == (pc = "load" => message = NoMessage) /\ TerminatesOnlyIfUnsupported

LEMMA LoadEnds ==
    ASSUME EndOK, Load
    PROVE  EndOK'
<1>1. PICK n, part : /\ n = EndIndex(rank) - StartIndex(rank)
                     /\ part \in [1 .. n -> Lines]
                     /\ LET parsed == [i \in DOMAIN part |-> ParsedLines[part[i]]]
                            records == Combined(parsed)
                        IN  IF Contains(parsed, Thrown)
                            THEN Terminate
                            ELSE /\ collisions' = [i \in 0 .. Len(records) - 1 |-> records[i + 1]]
                                 /\ sorted' \in SortedIndexes(collisions')
                                 /\ pc' = "ready"
                                 /\ UNCHANGED <<lines, rank, search, probes>>
  BY DEF Load
<1>2. PICK parsed : parsed = [i \in DOMAIN part |-> ParsedLines[part[i]]]
  OBVIOUS
<1>3. CASE ~Contains(parsed, Thrown)
  BY <1>1, <1>2, <1>3 DEF EndOK, TerminatesOnlyIfUnsupported
<1>4. CASE Contains(parsed, Thrown)
  <2>1. Terminate /\ pc' = "terminated" /\ message' = NoMessage
    BY <1>1, <1>2, <1>4 DEF Terminate, EndOK, Load, search
  <2>2. PICK i \in DOMAIN parsed : parsed[i] = Thrown
    BY <1>2, <1>4 DEF Contains
  <2>3. part[i] \in Lines /\ parseline(part[i]) = Thrown
    BY <1>1, <1>2, <2>2 DEF ParsedLines
  <2>4. \E k \in DOMAIN Split(part[i]) : Len(Split(part[i])[k]) > StringLength
    BY <2>3, EveryLineIsTyped, SearchAssumption
  <2> QED BY <2>1, <2>3, <2>4 DEF EndOK, TerminatesOnlyIfUnsupported
<1> QED BY <1>3, <1>4

LEMMA ProbesEnd ==
    ASSUME QueryOK, MatchField \/ ProbeThrows, pc' = "terminated"
    PROVE  TerminatesOnlyIfUnsupported'
<1>1. /\ pc \in {"match", "lower", "upper"} /\ message' = message
      /\ Unsupported(FieldQuery.name, FieldQuery.type)
      /\ pc = "match" => next <= Len(query)
  BY DEF MatchField, ProbeThrows, Throws, Terminate, search
<1>2. /\ message \in Messages /\ Readable(message) /\ query = QueryOf(message)
      /\ next \in DOMAIN message
  BY <1>1, QueryFacts DEF QueryOK, Answering, Searching
<1>3. FieldQuery.name = message[next].field /\ FieldQuery.type = message[next].type
  BY <1>2, FieldQueryFacts DEF FieldQuery
<1> QED BY <1>1, <1>2, <1>3 DEF TerminatesOnlyIfUnsupported

-----------------------------------------------------------------------------
(* The theorems *)

RankInv == IndexInv /\ MatchesOK /\ EndOK

LEMMA RankInvInit == Init => RankInv
BY IndexInvInit DEF Init, RankInv, MatchesOK, EndOK, TerminatesOnlyIfUnsupported, Searching

LEMMA RankInvStep ==
    ASSUME RankInv, [Next]_vars
    PROVE  RankInv'
<1> USE DEF RankInv
<1>1. IndexInv' /\ DataOK /\ QueryOK
  BY IndexInvStep DEF IndexInv
<1>2. CASE Load
  <2>1. pc' \in {"ready", "terminated"}
    BY <1>2 DEF Load, Terminate
  <2> QED BY <1>1, <1>2, <2>1, LoadEnds DEF MatchesOK, Searching
<1>3. CASE Search
  <2>1. /\ UNCHANGED data /\ message' \in Messages
        /\ \/ pc' = "match" /\ next' = 1 /\ matches' = [i \in Positions |-> TRUE]
           \/ pc' = "terminated" /\ deserialize(message') = Thrown
    BY <1>1, <1>3, SearchAsks
  <2>2. MatchesOK'
    <3>1. CASE pc' = "match" /\ next' = 1 /\ matches' = [i \in Positions |-> TRUE]
      <4>1. Positions' = Positions /\ 1 .. next' - 1 = {}
        BY <2>1, <3>1, DataKept
      <4>2. LeftBy(next - 1)' = [i \in Positions |-> TRUE]
        BY <4>1 DEF LeftBy
      <4> QED BY <3>1, <4>2 DEF MatchesOK
    <3>2. CASE pc' = "terminated"
      BY <3>2 DEF MatchesOK, Searching
    <3> QED BY <2>1, <3>1, <3>2
  <2>3. EndOK'
    <3>1. CASE pc' = "match"
      BY <3>1 DEF EndOK, TerminatesOnlyIfUnsupported
    <3>2. CASE pc' = "terminated" /\ deserialize(message') = Thrown
      <4>1. PICK m \in Messages : m = message' /\ deserialize(m) = Thrown
        BY <2>1, <3>2
      <4> QED BY <3>2, <4>1, RefusedMessages DEF EndOK, TerminatesOnlyIfUnsupported
    <3> QED BY <2>1, <3>1, <3>2
  <2> QED BY <1>1, <2>2, <2>3
<1>4. CASE Answer
  <2>1. EndOK'
    <3>1. pc' # "load"
      BY <1>4 DEF Answer, MatchField, MatchIndexedField, FindFirstLowerMatch, LowerFound, FindLastUpperMatch,
         UpperFound, ProbeThrows, Unmatch, Collect, Send, Return, Terminate
    <3>2. pc' = "terminated" => MatchField \/ ProbeThrows
      BY <1>4 DEF Answer, MatchIndexedField, FindFirstLowerMatch, LowerFound, FindLastUpperMatch,
         UpperFound, Unmatch, Collect, Send, Return
    <3>3. pc' = "terminated" => TerminatesOnlyIfUnsupported'
      BY <1>1, <3>2, ProbesEnd
    <3> QED BY <3>1, <3>3 DEF EndOK, TerminatesOnlyIfUnsupported
  <2>2. MatchesOK'
    <3>1. CASE MatchField
      BY <1>1, <3>1, MatchFieldStep
    <3>2. CASE Unmatch
      BY <1>1, <3>2, UnmatchStep
    <3>3. CASE Collect
      BY <1>1, <3>3, CollectStep
    <3>4. CASE Send
      BY <1>1, <3>4, SendStep
    <3>5. CASE Return \/ ProbeThrows
      BY <3>5 DEF Return, ProbeThrows, Terminate, MatchesOK, Searching
    <3>6. CASE MatchIndexedField \/ FindFirstLowerMatch \/ LowerFound \/ FindLastUpperMatch \/ UpperFound
      <4>1. /\ UNCHANGED <<data, message, query, next, matches, results>>
            /\ pc \in {"match"} \cup Searching /\ pc' \notin {"send", "answered"}
        BY <3>6 DEF MatchIndexedField, FindFirstLowerMatch, LowerFound, FindLastUpperMatch, UpperFound, search, Searching
      <4> QED BY <4>1, MatchesSame
    <3> QED BY <1>4, <3>1, <3>2, <3>3, <3>4, <3>5, <3>6 DEF Answer
  <2> QED BY <1>1, <2>1, <2>2
<1>5. CASE UNCHANGED vars
  <2>1. UNCHANGED <<data, message, query, next, matches, results, pc>>
    BY <1>5 DEF vars, search
  <2>2. MatchesOK'
    BY <2>1, MatchesSame
  <2>3. EndOK'
    BY <2>1 DEF EndOK, TerminatesOnlyIfUnsupported
  <2> QED BY <1>1, <2>2, <2>3
<1> QED BY <1>2, <1>3, <1>4, <1>5 DEF Next

LEMMA RankInvAlways == Spec => []RankInv
<1>1. RankInv /\ [Next]_vars => RankInv'
  BY RankInvStep
<1> QED BY <1>1, RankInvInit, PTL DEF Spec

\* Every line of the file is in the part of exactly one rank, however many lines
\* and processes there are (collision_manager.cpp:34).
THEOREM LinesDivided == Spec => []EveryLineInOnePart
<1>1. Init => lines \in Nat
  BY DEF Init
<1>2. lines \in Nat /\ [Next]_vars => (lines \in Nat)'
  BY DEF Next, Load, Search, Answer, MatchField, MatchIndexedField, FindFirstLowerMatch, LowerFound,
     FindLastUpperMatch, UpperFound, ProbeThrows, Unmatch, Collect, Send, Return, Terminate, vars, data
<1> QED BY <1>1, <1>2, PartsCover, PTL DEF Spec

\* Whatever is on a line, the pass of parseline (collision_parser.cpp:45) finds the
\* field that every text is for.
THEOREM LinesSplit == Spec => []LinesAreSplit
<1>1. LinesAreSplit
  BY EveryLineIsSplit, TextsAssumption DEF LinesAreSplit
<1> QED BY <1>1, PTL

\* The two binary searches over the index (collision.cpp:111) stay inside of it,
\* agree on whether there is a match, find bounds in order, and nothing that does
\* not match between them.
THEOREM SearchesAgree == Spec => []BoundsAgree
<1>1. RankInv => BoundsAgree
  BY IndexInvBounds DEF RankInv
<1> QED BY <1>1, RankInvAlways, PTL

\* "Everything outside this range is not a match" (collision.cpp:209) where no
\* record is without a value, and for EQUALS and LESS_THAN.
BoundsEnclosePlain ==
    pc = "unmatch" /\ Plain /\ FieldQuery.type # "CONTAINS" =>
        \A i \in Positions : do_match(FieldQuery, Item(i)) => Within(i)

THEOREM BoundsEnclose == Spec => []BoundsEnclosePlain
<1>1. RankInv => BoundsEnclosePlain
  <2> SUFFICES ASSUME RankInv, pc = "unmatch", Plain, FieldQuery.type # "CONTAINS",
                      NEW i \in Positions, do_match(FieldQuery, Item(i))
               PROVE  Within(i)
    BY DEF BoundsEnclosePlain
  <2>1. Numeric(FieldQuery)
    BY SearchesNumbers DEF RankInv, IndexInv, Searching
  <2>2. i \in Matching
    BY <2>1, NumberMatches DEF Matching
  <2> QED BY <2>2, BoundsFound DEF RankInv
<1> QED BY <1>1, RankInvAlways, PTL

\* The client gets from a rank exactly the records that its conditions accept, in
\* the order of the file, however many records and conditions there are.
THEOREM SearchExact == Spec => []SearchIsExact
<1>1. RankInv => SearchIsExact
  <2> SUFFICES ASSUME RankInv, pc = "answered", AllSupported
               PROVE  results = RecordsAt({i \in Positions :
                                   \A k \in DOMAIN message : Accepts(message[k], collisions[i])})
    BY DEF SearchIsExact, AllSupported
  <2>1. DOMAIN message = 1 .. Len(message) /\ QueryOK
    BY QueryFacts DEF RankInv, IndexInv, Answering
  <2>2. results = RecordsAt({i \in Positions : LeftBy(Len(message))[i]})
    BY DEF RankInv, MatchesOK
  <2>3. \A i \in Positions : LeftBy(Len(message))[i] <=> \A k \in DOMAIN message : Left(k, i)
    BY <2>1 DEF LeftBy
  <2>4. \A i \in Positions : \A k \in DOMAIN message : Left(k, i) <=> Accepts(message[k], collisions[i])
    BY <2>1, LeftIfAccepted DEF Answering
  <2>5. {i \in Positions : LeftBy(Len(message))[i]} =
        {i \in Positions : \A k \in DOMAIN message : Accepts(message[k], collisions[i])}
    BY <2>3, <2>4
  <2> QED BY <2>2, <2>5
<1> QED BY <1>1, RankInvAlways, PTL

\* What ends the process is a text that is too long, or a message that cannot be
\* answered.
THEOREM TerminationIsAsked == Spec => []TerminatesOnlyIfUnsupported
<1>1. RankInv => TerminatesOnlyIfUnsupported
  BY DEF RankInv, EndOK
<1> QED BY <1>1, RankInvAlways, PTL

\* Every probe leaves a smaller interval, of at least no items: the two searches
\* cannot go on forever, whatever the items are.
ProbeShrinks ==
    pc \in {"lower", "upper"} /\ pc' = pc =>
        /\ 0 <= high - low
        /\ -1 <= high' - low' /\ high' - low' < high - low

THEOREM ProbesShrink == Spec => [][ProbeShrinks]_vars
<1>1. RankInv /\ [Next]_vars => [ProbeShrinks]_vars
  <2> SUFFICES ASSUME RankInv, Next, pc \in {"lower", "upper"}, pc' = pc PROVE ProbeShrinks
    BY DEF ProbeShrinks
  <2>1. FindFirstLowerMatch \/ FindLastUpperMatch
    BY DEF Next, Load, Search, Answer, MatchField, MatchIndexedField, LowerFound, UpperFound, ProbeThrows, Unmatch,
       Collect, Send, Return, Terminate
  <2>2. /\ low \in Nat /\ high \in Int /\ low <= high
        /\ Down \/ Up
    BY <2>1 DEF FindFirstLowerMatch, FindLastUpperMatch, RankInv, IndexInv, SearchInv, LowerSearch, UpperSearch, Window
  <2>3. Mid \in Int /\ low <= Mid /\ Mid <= high
    BY <2>2, MidBetween DEF Mid, MidOf
  <2> QED BY <2>2, <2>3 DEF Down, Up, ProbeShrinks
<1> QED BY <1>1, RankInvAlways, PTL DEF Spec
=============================================================================
