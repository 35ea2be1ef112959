---------------------------- MODULE IndexedSearch -----------------------------
(***************************************************************************)
(* One rank's CollisionManager, and the messages it is asked with: it      *)
(* parses its part of the lines of the file, sorts an index over the field *)
(* that has one, and answers queries.  searchOpenMp (which runs with one   *)
(* thread) applies one field query after the other to "matches"; on an     *)
(* indexed field the matching items are found by two binary searches over  *)
(* the index, probe by probe.  Positions are counted from 0.               *)
(***************************************************************************)
EXTENDS Integers, CollisionParser, ProtoConverters

CONSTANTS NumProcesses,
          MaxLines,      \* bound on the lines of the file after the first
          Lines,         \* what may be on them
          Messages,      \* sequences of conditions
          NoMessage

Null == -1   \* nullptr, for a bound

Ranks == 0 .. NumProcesses - 1

\* The field with an index that is asked about.
Indexed == "number_of_persons_injured"

\* A message is a sequence of conditions.  An exception is neither a query nor a
\* text in one.
ASSUME SearchAssumption ==
    /\ NumProcesses \in Nat \ {0} /\ MaxLines \in Nat
    /\ Lines \subseteq Seq(Characters)
    /\ \A m \in Messages :
          /\ Len(m) \in Nat /\ m = [k \in 1 .. Len(m) |-> m[k]] /\ m # NoMessage
          /\ Thrown # [k \in DOMAIN m |-> create(m[k])]
          /\ \A k \in DOMAIN m :
                /\ m[k].field \in Fields /\ {m[k].not, m[k].case_insensitive} \subseteq BOOLEAN
                /\ DOMAIN m[k].data \in {{}, {"uint8_data"}, {"string_data"}}
                /\ "uint8_data" \in DOMAIN m[k].data => m[k].data.uint8_data \in Nat
                /\ "string_data" \in DOMAIN m[k].data => m[k].data.string_data # Thrown

VARIABLES lines,          \* how many lines the file has after the first
          rank,
          collisions,     \* this rank's records
          sorted,         \* the index: positions of records by their indexed field
          message,        \* what the client asks for
          query, next,    \* the query that is answered, and its field query to be applied
          matches, results,
          pc, low, high, lower_bound, upper_bound

search == <<message, query, next, matches, results>>
probes == <<low, high, lower_bound, upper_bound>>
data == <<lines, rank, collisions, sorted>>
vars == <<data, search, pc, probes>>

-----------------------------------------------------------------------------
(* The partition *)

\* getTotalRecords counts the line with the names of the fields, too.
TotalRecords == lines + 1

PartitionSize == TotalRecords \div NumProcesses

StartIndex(r) == r * PartitionSize

\* Variant: the last rank's part is no larger than the others'.
EndIndexAlike(r) == StartIndex(r) + PartitionSize

\* The last rank takes the remainder, as far as there are lines.
EndIndex(r) ==
    LET end == IF r = NumProcesses - 1 THEN TotalRecords ELSE StartIndex(r) + PartitionSize
    IN  IF end > lines THEN lines ELSE end

\* The positions of this rank's records.
Positions == DOMAIN collisions

Size == Cardinality(Positions)

\* The records at the positions in S, in the order of the file.
RecordsAt(S) == LET order == InOrder(S) IN [k \in DOMAIN order |-> collisions[order[k]]]

-----------------------------------------------------------------------------
(* The index *)

\* Records without a value come last.
ComesBefore(v, w) == v # NoValue /\ (w = NoValue \/ v < w)

\* std::sort leaves records that compare equal in any order.
SortedIndexes(records) ==
    LET positions == DOMAIN records
    IN  {s \in [positions -> positions] :
            /\ \A i, j \in positions : i # j => s[i] # s[j]
            /\ \A i, j \in positions :
                  i < j => ~ComesBefore(records[s[j]][Indexed], records[s[i]][Indexed])}

Init ==
    /\ lines \in 0 .. MaxLines /\ rank \in Ranks
    /\ collisions = [i \in {} |-> 0] /\ sorted = [i \in {} |-> 0]
    /\ message = NoMessage
    /\ query = <<>> /\ next = 1 /\ matches = [i \in {} |-> TRUE] /\ results = <<>>
    /\ pc = "load"
    /\ low = 0 /\ high = 0 /\ lower_bound = Null /\ upper_bound = Null

\* An exception is thrown that nobody catches: the process ends.
Terminate ==
    /\ pc' = "terminated"
    /\ UNCHANGED <<data, search, probes>>

\* Every thread has the records of its lines, and they are put together in the order
\* of the threads, which is that of the file.
Combined(parsed) ==
    LET kept == InOrder({i \in DOMAIN parsed : parsed[i] # Dropped})
    IN  [k \in DOMAIN kept |-> parsed[kept[k]]]

\* What every line becomes.
ParsedLines == [line \in Lines |-> parseline(line)]

\* CollisionManager::CollisionManager: whatever the lines of the partition are,
\* they are parsed by several threads, of which one that throws ends the process.
\* A process without a rank (-1) takes the whole file, which is the part of the one
\* rank there is if NumProcesses is 1.
Load ==
    /\ pc = "load"
    /\ \E part \in [1 .. EndIndex(rank) - StartIndex(rank) -> Lines] :
          LET parsed == [i \in DOMAIN part |-> ParsedLines[part[i]]]
              records == Combined(parsed)
          IN  IF Contains(parsed, Thrown)
              THEN Terminate
              ELSE /\ collisions' = [i \in 0 .. Len(records) - 1 |-> records[i + 1]]
                   /\ sorted' \in SortedIndexes(collisions')
                   /\ pc' = "ready"
                   /\ UNCHANGED <<lines, rank, search, probes>>

-----------------------------------------------------------------------------
(* The comparisons *)

\* What the comparison cannot do with values of the field's type throws.
Unsupported(name, type) ==
    IF field_to_value_type[name] = "FIXED_STRING"
    THEN type \in {"LESS_THAN", "GREATER_THAN"}
    ELSE type = "CONTAINS"

\* The comparison of a field query with a value throws.
Throws(field_query, value) == value # NoValue /\ Unsupported(field_query.name, field_query.type)

equals_is_less_than(field_query, value) == value # NoValue /\ value < field_query.value

\* ::tolower, for the letters there are.
tolower(text) == [i \in DOMAIN text |-> IF text[i] = "A" THEN "a" ELSE text[i]]

\* Two strings are compared as they are, or both in lower case.
StringsMatch(field_query, value) ==
    LET Folded(text) == IF field_query.case_insensitive THEN tolower(text) ELSE text
    IN  CASE field_query.type = "EQUALS" -> Folded(value) = Folded(field_query.value)
          [] field_query.type = "CONTAINS" -> Folded(field_query.value) \in SubSeqs(Folded(value))

NumbersMatch(field_query, value) ==
    CASE field_query.type = "EQUALS" -> value = field_query.value
      [] field_query.type = "LESS_THAN" -> value < field_query.value
      [] field_query.type = "GREATER_THAN" -> value > field_query.value

do_match(field_query, value) ==
    /\ value # NoValue
    /\ \/ field_query.type = "HAS_VALUE"
       \/ IF field_to_value_type[field_query.name] = "FIXED_STRING"
          THEN StringsMatch(field_query, value)
          ELSE NumbersMatch(field_query, value)

-----------------------------------------------------------------------------
(* searchOpenMp *)

FieldQuery == query[next]

\* A message has come, to rank 0 from the client or to another rank from the one
\* before.  Everything matches at first.
Search ==
    /\ pc = "ready"
    /\ message' \in Messages
    /\ LET asked == deserialize(message')
       IN  IF asked = Thrown
           THEN pc' = "terminated" /\ UNCHANGED <<query, next, matches>>
           ELSE /\ query' \in {asked, deserialize(serialize(asked))}
                /\ next' = 1 /\ matches' = [i \in Positions |-> TRUE]
                /\ pc' = "match"
    /\ UNCHANGED <<data, results, probes>>

\* The item at position i of the index.
Item(i) == collisions[sorted[i]][Indexed]

\* match_field, on a field without an index.
MatchField ==
    /\ pc = "match" /\ next <= Len(query) /\ ~is_indexed_field(FieldQuery.name)
    /\ LET Value(i) == collisions[i][FieldQuery.name]
       IN  IF \E i \in Positions : matches[i] /\ Throws(FieldQuery, Value(i))
           THEN Terminate
           ELSE /\ matches' = [i \in Positions |->
                        matches[i] /\ do_match(FieldQuery, Value(i)) # FieldQuery.invert_match]
                /\ next' = next + 1
                /\ UNCHANGED <<data, message, query, results, pc, probes>>

\* match_indexed_field begins with the lower bound.
MatchIndexedField ==
    /\ pc = "match" /\ next <= Len(query) /\ is_indexed_field(FieldQuery.name)
    /\ low' = 0 /\ high' = Size - 1
    /\ lower_bound' = Null /\ upper_bound' = Null
    /\ pc' = "lower"
    /\ UNCHANGED <<data, search>>

Mid == low + (high - low) \div 2

\* Whether a probe that does not match goes on below it.
GoesDown(field_query, value) ==
    \/ field_query.type = "EQUALS" /\ ~equals_is_less_than(field_query, value)
    \/ field_query.type = "LESS_THAN"

\* Variant: the middle is probed again.
UpFromMid == low' = Mid /\ UNCHANGED high

Up == low' = Mid + 1 /\ UNCHANGED high

Down == high' = Mid - 1 /\ UNCHANGED low

\* Variant: the search ends at the first item that matches.
FindAnyLowerMatch ==
    /\ pc = "lower" /\ low <= high /\ ~Throws(FieldQuery, Item(Mid))
    /\ IF do_match(FieldQuery, Item(Mid))
       THEN lower_bound' = Mid /\ high' = low - 1 /\ UNCHANGED low
       ELSE /\ UNCHANGED lower_bound
            /\ IF GoesDown(FieldQuery, Item(Mid)) THEN Down ELSE Up
    /\ UNCHANGED <<data, search, pc, upper_bound>>

\* One probe of binary_search_find_first_lower_match.
FindFirstLowerMatch ==
    /\ pc = "lower" /\ low <= high /\ ~Throws(FieldQuery, Item(Mid))
    /\ IF do_match(FieldQuery, Item(Mid))
       THEN lower_bound' = Mid /\ Down
       ELSE /\ UNCHANGED lower_bound
            /\ IF GoesDown(FieldQuery, Item(Mid)) THEN Down ELSE Up
    /\ UNCHANGED <<data, search, pc, upper_bound>>

\* Variant: the second search begins where the first one ended.
LowerFoundNoReset ==
    /\ pc = "lower" /\ low > high
    /\ low' = 0 /\ UNCHANGED high
    /\ pc' = "upper"
    /\ UNCHANGED <<data, search, lower_bound, upper_bound>>

LowerFound ==
    /\ pc = "lower" /\ low > high
    /\ low' = 0 /\ high' = Size - 1
    /\ pc' = "upper"
    /\ UNCHANGED <<data, search, lower_bound, upper_bound>>

\* One probe of binary_search_find_last_upper_match.
FindLastUpperMatch ==
    /\ pc = "upper" /\ low <= high /\ ~Throws(FieldQuery, Item(Mid))
    /\ IF do_match(FieldQuery, Item(Mid))
       THEN upper_bound' = Mid /\ Up
       ELSE /\ UNCHANGED upper_bound
            /\ IF GoesDown(FieldQuery, Item(Mid)) THEN Down ELSE Up
    /\ UNCHANGED <<data, search, pc, lower_bound>>

\* A probe of either search throws.
ProbeThrows ==
    /\ pc \in {"lower", "upper"} /\ low <= high /\ Throws(FieldQuery, Item(Mid))
    /\ Terminate

UpperFound ==
    /\ pc = "upper" /\ low > high
    /\ pc' = "unmatch"
    /\ UNCHANGED <<data, search, probes>>

\* Position i of the index is between the bounds, if there are any.
Within(i) ==
    lower_bound # Null /\ upper_bound # Null /\ lower_bound <= i /\ i <= upper_bound

\* The rest of match_indexed_field: what is outside of the bounds is no match.
Unmatch ==
    /\ pc = "unmatch"
    /\ matches' = [p \in Positions |->
           matches[p] /\ ~\E i \in Positions : sorted[i] = p /\ ~Within(i)]
    /\ next' = next + 1
    /\ pc' = "match"
    /\ UNCHANGED <<data, message, query, results, probes>>

\* All field queries have been applied: what still matches is the result, a copy
\* of every collision there is a proxy for.
Collect ==
    /\ pc = "match" /\ next > Len(query)
    /\ results' = RecordsAt({i \in Positions : matches[i]})
    /\ pc' = "send"
    /\ UNCHANGED <<data, message, query, next, matches, probes>>

\* What becomes of the results on their way to the client.
Send ==
    /\ pc = "send"
    /\ results' = [k \in DOMAIN results |-> deserialize_collision(serialize_collision(results[k]))]
    /\ pc' = "answered"
    /\ UNCHANGED <<data, message, query, next, matches, probes>>

\* The rank goes on to the next message.
Return ==
    /\ pc = "answered"
    /\ pc' = "ready"
    /\ message' = NoMessage /\ query' = <<>> /\ next' = 1
    /\ matches' = [i \in {} |-> TRUE] /\ results' = <<>>
    /\ low' = 0 /\ high' = 0 /\ lower_bound' = Null /\ upper_bound' = Null
    /\ UNCHANGED data

Answer ==
    \/ MatchField \/ MatchIndexedField \/ FindFirstLowerMatch \/ LowerFound
    \/ FindLastUpperMatch \/ UpperFound \/ ProbeThrows \/ Unmatch \/ Collect \/ Send \/ Return

Next == Load \/ Search \/ Answer

Spec == Init /\ [][Next]_vars /\ WF_vars(Answer)

-----------------------------------------------------------------------------
(* Properties *)

\* Every record of the file is searched by one rank, although the size of the
\* parts counts the line with the names (collision_manager.cpp:34).
EveryLineInOnePart ==
    \A line \in 0 .. lines - 1 :
        Cardinality({r \in Ranks : StartIndex(r) <= line /\ line < EndIndex(r)}) = 1

\* What a condition says of a record.
Accepts(condition, record) ==
    LET member == Member[field_to_value_type[condition.field]]
        asked == [name |-> condition.field, type |-> condition.type,
                  value |-> condition.data[member], case_insensitive |-> condition.case_insensitive]
    IN  do_match(asked, record[condition.field]) # condition.not

\* The conditions that are answered as they are meant.  The value is in the
\* member for the field's type, and does not lose bits.  match_indexed_field
\* does not look at NOT, and its probes take a record without a value for one
\* below any other, although the index has it last: only EQUALS and LESS_THAN
\* never go above one.
Supported(condition) ==
    LET members == DOMAIN condition.data
    IN  /\ condition.type = "HAS_VALUE" \/ members = {Member[field_to_value_type[condition.field]]}
        /\ "uint8_data" \in members => condition.data.uint8_data < 2^Width
        /\ is_indexed_field(condition.field) =>
              /\ ~condition.not
              /\ \/ condition.type \in {"EQUALS", "LESS_THAN"}
                 \/ \A i \in Positions : collisions[i][condition.field] # NoValue

\* The client gets, from the records of every rank, unchanged and in the order
\* of the file, those that all conditions of its message accept, however the
\* message came to the rank.
SearchIsExact ==
    pc = "answered" /\ (\A k \in DOMAIN message : Supported(message[k])) =>
        results = RecordsAt({i \in Positions :
                                \A k \in DOMAIN message : Accepts(message[k], collisions[i])})

\* The process is only ended by a text of the file that is too long, and by a
\* message without conditions or with one that asks what cannot be compared.
TerminatesOnlyIfUnsupported ==
    pc = "terminated" =>
        \/ message = NoMessage /\ \E line \in Lines : \E k \in DOMAIN Split(line) :
              Len(Split(line)[k]) > StringLength
        \/ message = <<>>
        \/ \E k \in DOMAIN message :
              LET c == message[k]
              IN  \/ c.type \notin Types \/ field_to_value_type[c.field] = "DATE"
                  \/ Unsupported(c.field, c.type)
                  \/ "string_data" \in DOMAIN c.data /\ Len(c.data.string_data) > StringLength

\* No probe is outside of the index, the two searches agree on whether there is a
\* match, the lower bound is not above the upper one, which are subtracted as
\* unsigned numbers (collision.cpp:227), and all that is between them matches,
\* missing values or not: no record gets into a result that a field query does
\* not accept.
BoundsAgree ==
    /\ pc \in {"lower", "upper"} /\ low <= high => {low, high} \subseteq Positions
    /\ pc = "unmatch" =>
          /\ lower_bound = Null <=> upper_bound = Null
          /\ lower_bound <= upper_bound
          /\ \A i \in Positions : Within(i) => do_match(FieldQuery, Item(i))

\* "Everything outside this range is not a match" (collision.cpp:209): between
\* the bounds are all items that match.
BoundsEncloseMatches ==
    pc = "unmatch" => \A i \in Positions : do_match(FieldQuery, Item(i)) => Within(i)

\* Every search comes to its end: the two binary searches do, and results or an
\* exception follow.
EverySearchEnds == pc = "match" ~> pc \in {"ready", "terminated"}
=============================================================================
