----------------------------- MODULE WhereTables ----------------------------
(***************************************************************************)
(* The generated part of src/parser/parser.c: the symbols of the WHERE     *)
(* grammar, the tables of its parser and the two functions that look an    *)
(* action up in them.  The tables are those of the source; entry n of a C  *)
(* array is entry n + 1 of the sequence.                                   *)
(***************************************************************************)
EXTENDS Integers, Sequences

(* Terminals, numbered as in parser.h.                                     *)
Terminals ==
    <<"AND", "OR", "EQ", "NE", "GT", "GE", "LT", "LE", "IN", "IS", "NOW", "LIKE", "STRING", "TK_NULL",
      "LP", "RP", "INTEGER", "FLOAT", "TRUE", "FALSE", "COMMA", "ENUMERATOR", "IDENT", "TODAY", "TIME",
      "UNIXTIME", "TIME_ADD", "TIME_SUB", "DAYS", "HOURS", "MINUTES", "SECONDS">>
Code(word) == CHOOSE n \in DOMAIN Terminals : Terminals[n] = word

EndOfText == 0
YYNOCODE == 44          \* no symbol: the token has been used up
cond == 35
prop == 37
vallist == 39
multivals == 41

YYNSTATE == 78
YYNRULE == 35
Accept == YYNSTATE + YYNRULE + 1
-----------------------------------------------------------------------------
yy_action ==
  <<64, 43, 69, 78, 7, 5, 70, 68, 67, 66, 42, 7, 5, 63, 44, 41, 38, 23, 77, 72, 76, 73, 75, 74, 13, 19, 48,
    20, 64, 35, 32, 29, 26, 18, 62, 65, 16, 39, 33, 6, 54, 63, 44, 41, 38, 23, 46, 45, 114, 15, 51, 8, 40,
    10, 17, 3, 8, 14, 47, 8, 8, 61, 60, 71, 50, 65, 65, 49, 12, 65, 34, 30, 59, 31, 27, 58, 28, 24, 57, 25,
    53, 56, 9, 5, 11, 55, 1, 52, 4, 2, 115, 36, 21, 37, 115, 115, 115, 115, 115, 115, 115, 115, 115, 115,
    115, 115, 115, 115, 115, 115, 22>>

yy_lookahead ==
  <<11, 15, 13, 0, 1, 2, 17, 18, 19, 20, 17, 1, 2, 24, 25, 26, 27, 28, 3, 4, 5, 6, 7, 8, 9, 10, 16, 12, 11,
    29, 30, 31, 32, 38, 16, 40, 41, 17, 17, 15, 13, 24, 25, 26, 27, 28, 22, 23, 34, 35, 16, 37, 15, 15, 35,
    21, 37, 35, 35, 37, 37, 16, 16, 38, 38, 40, 40, 38, 21, 40, 15, 17, 16, 15, 17, 16, 15, 17, 16, 15, 14,
    16, 15, 2, 21, 16, 15, 39, 36, 21, 43, 42, 42, 40, 43, 43, 43, 43, 43, 43, 43, 43, 43, 43, 43, 43, 43,
    43, 43, 43, 40>>

YY_SHIFT_USE_DFLT == -15
YY_SHIFT_COUNT == 44
yy_shift_ofst ==
  <<24, -11, -11, -11, -11, 24, 24, 24, 15, 17, 17, 0, 0, 71, 10, 3, 34, 81, 68, 66, 27, 69, 63, 67, 65,
    60, 64, 62, 57, 61, 59, 54, 58, 56, 21, 55, 46, 47, 38, 45, 20, 37, 18, -7, -14>>

YY_REDUCE_COUNT == 13
yy_reduce_ofst ==
  <<14, -5, 29, 26, 25, 23, 22, 19, 52, 70, 53, 50, 49, 48>>

yy_default ==
  <<113, 113, 113, 113, 113, 113, 113, 113, 113, 113, 113, 113, 113, 113, 113, 113, 113, 90, 113, 113, 113,
    113, 113, 113, 113, 113, 113, 113, 113, 113, 113, 113, 113, 113, 113, 113, 113, 113, 113, 113, 113,
    113, 113, 113, 113, 102, 101, 91, 89, 99, 100, 98, 88, 87, 86, 108, 112, 111, 110, 109, 107, 106, 105,
    104, 103, 97, 96, 95, 94, 93, 92, 85, 84, 83, 82, 81, 80, 79>>

(* yyRuleInfo: left-hand side and number of right-hand symbols of each rule. *)
lhs ==
  <<34, 36, 36, 36, 36, 36, 36, 35, 35, 35, 35, 35, 35, 35, 38, 38, 38, 38, 38, 38, 39, 41, 41, 37, 37, 40,
    40, 40, 40, 40, 40, 42, 42, 42, 42>>

nrhs ==
  <<1, 1, 1, 1, 1, 1, 1, 3, 3, 3, 3, 3, 3, 3, 1, 1, 1, 1, 1, 1, 3, 3, 3, 1, 1, 1, 1, 4, 4, 6, 6, 4, 4, 4,
    4>>
-----------------------------------------------------------------------------
(* The entry of the action table for a symbol at an offset, if it is there. *)
Listed(ofst, symbol) ==
    /\ ofst + symbol + 1 \in DOMAIN yy_action
    /\ yy_lookahead[ofst + symbol + 1] = symbol

(* yy_find_shift_action: states with no row of their own, and symbols that *)
(* are not in the row, have the default action of the state.               *)
FindShiftAction(stateno, symbol) ==
    IF /\ stateno <= YY_SHIFT_COUNT
       /\ yy_shift_ofst[stateno + 1] # YY_SHIFT_USE_DFLT
       /\ Listed(yy_shift_ofst[stateno + 1], symbol)
    THEN yy_action[yy_shift_ofst[stateno + 1] + symbol + 1]
    ELSE yy_default[stateno + 1]

(* yy_find_reduce_action; its assertions say that the entry is there.      *)
FindReduceAction(stateno, symbol) == yy_action[yy_reduce_ofst[stateno + 1] + symbol + 1]

=============================================================================
