--------------------------- MODULE CollisionParser ---------------------------
(***************************************************************************)
(* parseline: what a line of the file becomes.  A line is a sequence of    *)
(* characters, and is read in one pass that cuts it at the commas outside  *)
(* of quotes.  The text before the first comma loses its last character,   *)
(* for which convert_year_month_day_date makes up, and what comes after    *)
(* the last comma is not stored.  Positions are counted from 0.            *)
(***************************************************************************)
EXTENDS CollisionFields, SequencesExt

Comma == ","
Quote == "quote"
Blank == "blank"
Digits == <<"0", "1", "2", "3", "4", "5", "6", "7", "8", "9">>

Dropped == <<>>   \* what becomes of a line with too few or too many fields

-----------------------------------------------------------------------------
(* The converters *)

contains_non_whitespace(field) == \E i \in DOMAIN field : field[i] # Blank

\* std::from_chars reads the digits the text begins with.
from_chars(text) ==
    LET Digit(i) == SelectInSeq(Digits, LAMBDA d : d = text[i]) - 1
        size == SelectInSeq(Append(text, Blank), LAMBDA c : ~Contains(Digits, c)) - 1
        number[i \in 0 .. size] == IF i = 0 THEN 0 ELSE 10 * number[i - 1] + Digit(i)
    IN  IF size = 0
        THEN NoValue
        ELSE number[size]

\* Of a date only the year, which is the last thing it says: it is read one
\* character further than the field goes.
convert_year_month_day_date(field, after) == from_chars(Append(field, after))

\* It is a std::size_t that is read, and what fits of it that is assigned.
convert_number(field) ==
    LET number == from_chars(field)
    IN  IF number = NoValue THEN NoValue ELSE UInt8(number)

Convert(name, field, after) ==
    CASE field_to_value_type[name] = "DATE" -> convert_year_month_day_date(field, after)
      [] field_to_value_type[name] = "UINT8_T" -> convert_number(field)
      [] field_to_value_type[name] = "FIXED_STRING" -> CollisionString(field)

-----------------------------------------------------------------------------
(* The loop of parseline *)

\* The text between the comma before and next_comma goes to the next field.
Store(line, at, next_comma) ==
    LET first == at.last_comma + (IF at.field_index > 0 THEN 1 ELSE 0)
        end == first + next_comma - at.last_comma - 1
        field == SubSeq(line, first + 1, end)
        name == Columns[at.field_index + 1]
    IN  IF /\ next_comma - at.last_comma > 1
           /\ contains_non_whitespace(field)
           /\ at.field_index < Len(Columns)
        THEN [at.collision EXCEPT ![name] = Convert(name, field, line[end + 1])]
        ELSE at.collision

NoCollision == [f \in Fields |-> NoValue]

Begun == [is_inside_quote |-> FALSE, last_comma |-> 0, field_index |-> 0,
          collision |-> NoCollision]

Cut(line, at, count) ==
    [at EXCEPT !.collision = Store(line, at, count - 1),
               !.last_comma = count - 1, !.field_index = @ + 1]

\* Variant: a comma inside of quotes is one like any other.
ReadAtEveryComma(line, at, count) ==
    IF line[count] = Comma THEN Cut(line, at, count) ELSE at

\* One character is read.
ReadCharacter(line, at, count) ==
    IF line[count] = Quote THEN [at EXCEPT !.is_inside_quote = ~@]
    ELSE IF line[count] = Comma /\ ~at.is_inside_quote THEN Cut(line, at, count)
    ELSE at

\* How far parseline has come at the end of the line.
Parsed(line) ==
    LET at[count \in 0 .. Len(line)] ==
            IF count = 0 THEN Begun ELSE ReadCharacter(line, at[count - 1], count)
    IN  at[Len(line)]

\* A string that is too long ends the process, though the line might be dropped.
parseline(line) ==
    LET at == Parsed(line)
    IN  IF \E f \in Fields : at.collision[f] = Thrown THEN Thrown
        ELSE IF at.field_index # Len(Columns) - 1 THEN Dropped
        ELSE at.collision

-----------------------------------------------------------------------------
(* The same without a loop *)

\* The numbers in S from the least to the greatest.
InOrder(S) == [k \in 1 .. Cardinality(S) |-> CHOOSE i \in S : Cardinality({j \in S : j <= i}) = k]

\* The texts between the commas that an even number of quotes comes before.
Split(line) ==
    LET Even(S) == Cardinality(S) % 2 = 0
        commas == {i \in DOMAIN line : line[i] = Comma /\ Even({j \in 1 .. i : line[j] = Quote})}
        cuts == <<0>> \o InOrder(commas) \o <<Len(line) + 1>>
    IN  [k \in 1 .. Len(cuts) - 1 |-> SubSeq(line, cuts[k] + 1, cuts[k + 1] - 1)]

\* What a text says, by itself, in the field it is for.
Says(name, text) ==
    IF ~contains_non_whitespace(text) \/ name = Columns[Len(Columns)] THEN NoValue
    ELSE CASE field_to_value_type[name] = "DATE" -> IF Len(text) = 1 THEN NoValue ELSE from_chars(text)
           [] field_to_value_type[name] = "UINT8_T" -> convert_number(text)
           [] field_to_value_type[name] = "FIXED_STRING" -> CollisionString(text)

\* A line with a text for every field becomes one record, in which each field has
\* all of its text, the date included (but for one of one character), the last
\* field excepted.  If the process ends, a text was too long.
ParsedAsSplit(line) ==
    LET texts == Split(line)
        Text(f) == texts[SelectInSeq(Columns, LAMBDA c : c = f)]
        said == [f \in Fields |-> Says(f, Text(f))]
    IN  IF Len(texts) = Len(Columns)
        THEN parseline(line) = IF \E f \in Fields : said[f] = Thrown THEN Thrown ELSE said
        ELSE parseline(line) \in {Dropped, Thrown}
=============================================================================
