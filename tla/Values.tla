------------------------------- MODULE Values -------------------------------
(***************************************************************************)
(* The values of src/value.c: what SI_ParseValue makes of a text, what     *)
(* SIValue_ToString prints, and when the comparators of key.h take two     *)
(* values for the same key.                                                *)
(*                                                                         *)
(* A text is [form, v]: "digits" is an integer, "decimal" a number of      *)
(* quarters, any other form a word (v is 0 then).  A floating point value  *)
(* is counted in quarters too; the last quarter stands for the digits that *)
(* a float, or the format %f, has no room for.  NaN is left out.           *)
(***************************************************************************)
EXTENDS Integers, Sequences

CONSTANTS
    Int32Half,  \* half the numbers of an int32_t: 2^31 in the code
    Int64Half   \* half those of int64_t, time_t and u_int64_t: 2^63

ASSUME ValuesAssumption == Int32Half \in Nat \ {0} /\ Int64Half \in Nat /\ Int32Half < Int64Half

Text == [form : STRING, v : Int]

(* typeEnums, in the order of the names; the values are powers of two.     *)
Types == <<"STRING", "INT32", "INT64", "UINT", "BOOL", "FLOAT", "DOUBLE", "TIME">>
TypeMask(type) == 2 ^ ((CHOOSE i \in DOMAIN Types : Types[i] = type) - 1)

Null == [type |-> "NULL", v |-> 0]
Value(type, v) == [type |-> type, v |-> v]

(* The low bits of n as a signed number, and whether n is one.             *)
Signed(n, half) == ((n + half) % (2 * half)) - half
Fits(n, half) == n \in (-half)..(half - 1)
-----------------------------------------------------------------------------
(* strtoll: the digits a text begins with; none is an error, and so is a   *)
(* number that does not fit.                                               *)
Whole(text) ==
    IF text.form = "digits" THEN text.v
    ELSE IF text.v < 0 THEN -((-text.v) \div 4) ELSE text.v \div 4

IntReadable(text) == text.form \in {"digits", "decimal"} /\ Fits(Whole(text), Int64Half)

(* strtod *)
Quarters(text) == IF text.form = "digits" THEN 4 * text.v ELSE text.v
Coarse(quarters) == 2 * (quarters \div 2)

BoolTexts == [true |-> 1, false |-> 0]
BoolReadable(text) ==
    text.form \in DOMAIN BoolTexts \/ text \in {[form |-> "digits", v |-> 0], [form |-> "digits", v |-> 1]}

(* SI_ParseValue: whether a text is read as a type, and what it gives.     *)
Readable(type, text) ==
    CASE type = "STRING" -> TRUE
      [] type \in {"INT32", "INT64", "UINT", "TIME"} -> IntReadable(text)
      [] type = "BOOL" -> BoolReadable(text)
      [] type \in {"FLOAT", "DOUBLE"} -> text.form \in {"digits", "decimal"}

(* Mutant of Parsed: the number of an INT32 is not narrowed.               *)
MutantWide(type, text) ==
    CASE type = "STRING" -> Value(type, text)
      [] type \in {"INT32", "INT64", "TIME"} -> Value(type, Whole(text))
      [] type = "UINT" -> Value(type, Whole(text) % (2 * Int64Half))
      [] type = "BOOL" -> Value(type, IF text.form = "digits" THEN text.v ELSE BoolTexts[text.form])
      [] type = "FLOAT" -> Value(type, Coarse(Quarters(text)))
      [] type = "DOUBLE" -> Value(type, Quarters(text))

Parsed(type, text) ==
    CASE type = "STRING" -> Value(type, text)
      [] type = "INT32" -> Value(type, Signed(Whole(text), Int32Half))
      [] type \in {"INT64", "TIME"} -> Value(type, Whole(text))
      [] type = "UINT" -> Value(type, Whole(text) % (2 * Int64Half))
      [] type = "BOOL" -> Value(type, IF text.form = "digits" THEN text.v ELSE BoolTexts[text.form])
      [] type = "FLOAT" -> Value(type, Coarse(Quarters(text)))
      [] type = "DOUBLE" -> Value(type, Quarters(text))

(* siValueToRMString: a string as it is, all else as SIValue_ToString      *)
(* prints it, an unsigned number as if it were signed.                     *)
Printed(value) ==
    CASE value.type = "STRING" -> value.v
      [] value.type \in {"INT32", "INT64", "TIME"} -> [form |-> "digits", v |-> value.v]
      [] value.type = "UINT" -> [form |-> "digits", v |-> Signed(value.v, Int64Half)]
      [] value.type = "BOOL" -> [form |-> IF value.v = 1 THEN "true" ELSE "false", v |-> 0]
      [] value.type \in {"FLOAT", "DOUBLE"} -> [form |-> "decimal", v |-> Coarse(value.v)]
      [] value.type = "NULL" -> [form |-> "NULL", v |-> 0]

(* si_cmp_string ignores the case of letters.                              *)
SameValue(v, w) ==
    \/ v = w
    \/ /\ v.type = "STRING" /\ w.type = "STRING"
       /\ {v.v.form, w.v.form} = {"abc", "ABC"}
=============================================================================
