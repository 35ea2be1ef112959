--------------------------- MODULE CollisionFields ---------------------------
(***************************************************************************)
(* The fields of a collision and the values they hold.  Four of the 29     *)
(* fields stand for all: the first one of a line, one that is a number     *)
(* with an index, one that is a string, and the last one.                  *)
(***************************************************************************)
EXTENDS Naturals, Sequences

CONSTANTS Width,         \* of std::uint8_t, in bits
          StringLength,  \* the longest CollisionString
          Characters,    \* of the texts of a line
          NoValue,       \* std::nullopt
          Thrown         \* an exception instead of a value

Columns == <<"crash_date", "number_of_persons_injured", "borough", "vehicle_type_code_5">>

Fields == {Columns[k] : k \in 1 .. Len(Columns)}

field_to_value_type ==
    [crash_date |-> "DATE", number_of_persons_injured |-> "UINT8_T",
     borough |-> "FIXED_STRING", vehicle_type_code_5 |-> "FIXED_STRING"]

\* What a field may be given.
Values == Nat \cup {NoValue, Thrown} \cup Seq(Characters)

\* An exception is neither a number, nor a text, nor a record.
ASSUME FieldsAssumption ==
    /\ Width \in Nat /\ 2^Width \in Nat \ {0} /\ StringLength \in Nat
    /\ NoValue \notin Nat
    /\ Thrown \notin Nat \cup {NoValue} \cup Seq(Characters) \cup [Fields -> Values]

is_indexed_field(field) == field_to_value_type[field] # "FIXED_STRING"

UInt8(number) == number % 2^Width

\* Variant: there is no room for the last character.
CollisionStringShort(text) == IF Len(text) >= StringLength THEN Thrown ELSE text

\* The constructor of FixedString.
CollisionString(text) == IF Len(text) > StringLength THEN Thrown ELSE text
=============================================================================
