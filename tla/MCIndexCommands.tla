-------------------------- MODULE MCIndexCommands --------------------------
EXTENDS IndexCommands

Digits(n) == [form |-> "digits", v |-> n]
Word(form) == [form |-> form, v |-> 0]

(* -9 does not fit the short integer, 40 not the long one; 7 quarters are  *)
(* more digits than a float has.                                           *)
MCTexts == {Digits(1), Digits(-9), Digits(40), [form |-> "decimal", v |-> 7], Word("abc"), Word("ABC"), Word("true")}
Few == {Digits(1), Digits(-9)}

(* One value of any text, two of a few, three of one.                      *)
MCTuples ==
    {<<t>> : t \in MCTexts} \cup {<<t, u>> : t, u \in Few} \cup {<<t, t, t>> : t \in {Digits(1)}}

Schemas ==
    {<<"SCHEMA", type>> : type \in TypeNames}
        \cup {<<"SCHEMA", "INT32", "INT64">>, <<"SCHEMA">>, <<"SCHEMA", "email">>, <<"INT32", "INT64">>,
              <<"TYPE", "HASH", "SCHEMA", "email", "INT32">>, <<"TYPE", "HASH", "SCHEMA", "UNIQUE", "INT32">>,
              <<"TYPE", "HASH", "SCHEMA", "SCHEMA", "INT32">>, <<"TYPE", "HASH", "SCHEMA", "email">>,
              <<"TYPE", "HASH", "UNIQUE", "SCHEMA", "UNIQUE", "INT32">>,
              <<"TYPE", "HASH", "SCHEMA", "TYPE", "STRING">>, <<"UNIQUE", "TYPE", "HASH", "SCHEMA", "SCHEMA", "BOOL">>}

MCCreates == Schemas \cup {<<"UNIQUE">> \o words : words \in {<<"SCHEMA", "INT32">>, <<"SCHEMA", "STRING">>}}
=============================================================================
