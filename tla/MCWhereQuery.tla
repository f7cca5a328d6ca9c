---------------------------- MODULE MCWhereQuery ----------------------------
EXTENDS WhereQuery

(* Nesting and both names of a property; precedence among three conditions; *)
(* every operator and literal of one condition; times that are shifted.    *)
MCTexts ==
    {[words |-> {"IDENT", "EQ", "INTEGER", "AND", "OR", "LP", "RP"}, size |-> 9],
     [words |-> {"ENUMERATOR", "GE", "TRUE", "AND", "OR"}, size |-> 11],
     [words |-> {"ENUMERATOR", "NE", "LT", "LIKE", "IN", "IS", "TK_NULL", "STRING", "FLOAT", "COMMA", "LP", "RP"},
      size |-> 9],
     [words |-> {"ENUMERATOR", "GT", "TIME_ADD", "TIME_SUB", "LP", "RP", "NOW", "TODAY", "UNIXTIME", "INTEGER",
                 "COMMA", "DAYS", "HOURS"}, size |-> 12]}

MCSpecs == {<<"T_STRING", "T_INT32">>, <<"T_TIME">>}
=============================================================================
