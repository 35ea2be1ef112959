--------------------------- MODULE MCIndexedSearch ---------------------------
(* Lines and messages for IndexedSearch: numbers below, equal to and above   *)
(* what is asked for, strings in either case, and every kind of message.     *)
EXTENDS IndexedSearch

MCCharacters == {Comma, Quote, Blank, "a", "A"} \cup ToSet(Digits)

\* The texts, with commas between them.
Joined(texts) == Tail(FlattenSeq([k \in DOMAIN texts |-> <<Comma>> \o texts[k]]))

\* Lines with and without a number (of which 9 is stored as 1) and a string, one
\* that has too few fields, and one with a text that is too long.
MCLines ==
    {Joined(<<<<"2", "1">>, number, string, <<"a">>>>) :
        number \in {<<>>, <<"0">>, <<"9">>, <<"2">>}, string \in {<<>>, <<"A">>}}
    \cup {Joined(<<<<"2", "1">>, <<"1">>, <<"a">>>>),
          Joined(<<<<"2", "1">>, <<"1">>, <<"a", "a", "a", "a">>, <<>>>>)}

\* Two to five texts, empty, blank, with digits or quotes.
MCTexts ==
    LET texts == {<<>>, <<"1">>, <<"9", "2">>, <<Blank>>, <<Blank, "a">>, <<Quote>>,
                  <<"1", Quote, Comma, Quote>>, <<"a", "a", "a", "a">>}
    IN  {Joined(fields) : fields \in UNION {[1 .. n -> texts] : n \in 2 .. 4}}
        \cup {Joined(fields \o <<last>>) : fields \in [1 .. 4 -> {<<"1", "1">>, <<Quote>>}], last \in texts}

ASSUME TextsAssumption == MCTexts \subseteq Seq(Characters)

\* What is loaded are the lines as they are split, whatever their texts: the pass of
\* parseline (collision_parser.cpp:45) finds the field every text is for.
LinesAreSplit == pc = "load" => \A line \in MCTexts : ParsedAsSplit(line)

Asked(field, type, value) ==
    [field |-> field, type |-> type,
     data |-> [member \in {Member[field_to_value_type[field]]} |-> value],
     not |-> FALSE, case_insensitive |-> FALSE]

Not(condition) == [condition EXCEPT !.not = TRUE]

AnyCase(condition) == [condition EXCEPT !.case_insensitive = TRUE]

\* One condition, a range, and fields of both kinds in either order; those that
\* are not supported, or ask for something else than they mean to.
MCMessages ==
    LET Injured(type, value) == Asked(Indexed, type, value)
        HasDate == [Injured("HAS_VALUE", 0) EXCEPT !.field = "crash_date", !.data = <<>>]
        string == Asked("borough", "HAS_VALUE", <<>>)
        Borough(type, text) == Asked("borough", type, text)
    IN  {<<string>>, <<Not(string)>>, <<Borough("EQUALS", <<"a">>)>>, <<Borough("EQUALS", <<"a", "a", "a">>)>>,
         <<Not(AnyCase(Borough("EQUALS", <<"a">>)))>>, <<AnyCase(Borough("CONTAINS", <<"a">>))>>,
         <<Not(Injured("EQUALS", 1))>>,
         <<Injured("GREATER_THAN", 0), Injured("LESS_THAN", 2)>>,
         <<Injured("EQUALS", 1), Not(string)>>, <<string, Injured("LESS_THAN", 1)>>}
        \cup {<<Injured(type, 1)>> : type \in Types}
        \cup {<<>>, <<Borough("LESS_THAN", <<"a">>)>>, <<Injured("EQUALS", 9)>>,
              <<Borough("EQUALS", <<"a", "a", "a", "a">>)>>,
              <<[Injured("EQUALS", 1) EXCEPT !.type = "unknown"]>>,
              <<[Injured("LESS_THAN", 1) EXCEPT !.data = [string_data |-> <<"a">>]]>>,
              <<HasDate>>}
=============================================================================
