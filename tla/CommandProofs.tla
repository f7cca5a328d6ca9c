---------------------------- MODULE CommandProofs ---------------------------
(***************************************************************************)
(* The commands on one index, for values of any width, any ids and any     *)
(* words: every record fits its schema, what a server loads from its dump  *)
(* is what was saved, and what it replays of a rewrite has its numbers.    *)
(***************************************************************************)
EXTENDS IndexCommands, Listings

(* A list, whatever it holds. *)
IsList(s) == \E S : s \in Seq(S)

IsText(t) == t.v \in Int

(* What a property of each type can hold. *)
Holdable(type, v) ==
    CASE type = "STRING" -> IsText(v)
      [] type = "INT32" -> v \in (-Int32Half)..(Int32Half - 1)
      [] type \in {"INT64", "TIME"} -> v \in (-Int64Half)..(Int64Half - 1)
      [] type = "UINT" -> v \in 0..(2 * Int64Half - 1)
      [] type = "BOOL" -> v \in {0, 1}
      [] type = "FLOAT" -> v \in Int /\ Coarse(v) = v
      [] type = "DOUBLE" -> v \in Int

Held(v, type) == Holdable(type, v.v) /\ v = Value(type, v.v)

Row(tuple, props) ==
    /\ IsList(tuple)
    /\ Len(tuple) = Len(props) /\ \A i \in 1..Len(props) : Held(tuple[i], props[i].type)

Property(prop, named) ==
    /\ prop = [name |-> prop.name, type |-> prop.type] /\ prop.type \in TypeNames
    /\ ~named => prop.name = ""

Schema(ix) ==
    /\ ix = [kind |-> ix.kind, unique |-> ix.unique, named |-> ix.named,
             props |-> ix.props, records |-> ix.records]
    /\ ix.named \in BOOLEAN /\ ix.unique \in BOOLEAN
    /\ ix.kind = IF ix.named THEN "SI_HashIndex" ELSE "SI_AbstractIndex"
    /\ IsList(ix.props) /\ ix.props # << >>
    /\ \A p \in 1..Len(ix.props) : Property(ix.props[p], ix.named)

(* The records of an index are a map of finitely many ids. *)
Recorded(ix) ==
    /\ ix.records = [id \in DOMAIN ix.records |-> ix.records[id]]
    /\ IsFiniteSet(DOMAIN ix.records)
    /\ \A id \in DOMAIN ix.records : Row(ix.records[id], ix.props)

Alone(ix) == \A id \in DOMAIN ix.records : Holders(ix, ix.records[id]) = {id}

Sound(ix) == Schema(ix) /\ Recorded(ix) /\ (ix.unique => Alone(ix))

(* Commands the server can run again. *)
Runnable(commands) ==
    /\ IsList(commands)
    /\ \A c \in 1..Len(commands) :
          IF commands[c].command = "IDX.CREATE"
          THEN IsList(commands[c].args)
          ELSE IsList(commands[c].texts)
               /\ \A i \in 1..Len(commands[c].texts) : IsText(commands[c].texts[i])

(* What the server holds and what it would restart from. *)
CommandsInv ==
    /\ mode \in {"rdb", "aof"}
    /\ key # NoIndex => Sound(key)
    /\ saved # NoIndex => Sound(saved)
    /\ mode = "rdb" => /\ aof = <<>> /\ replay = <<>>
                       /\ IF saved = NoIndex THEN dump = <<>>
                          ELSE dump = Saved(saved)
    /\ mode = "aof" => dump = <<>>
    /\ Runnable(aof) /\ Runnable(replay)
    /\ DumpRestores

-----------------------------------------------------------------------------
(* The eight types, and their masks. *)
LEMMA TypesAre ==
    /\ TypeNames = {"STRING", "INT32", "INT64", "UINT", "BOOL", "FLOAT", "DOUBLE", "TIME"}
    /\ TypeMask("STRING") = 1 /\ TypeMask("INT32") = 2 /\ TypeMask("INT64") = 4
    /\ TypeMask("UINT") = 8 /\ TypeMask("BOOL") = 16 /\ TypeMask("FLOAT") = 32
    /\ TypeMask("DOUBLE") = 64 /\ TypeMask("TIME") = 128
<1>1. DOMAIN Types = 1..8
  BY DEF Types
<1>2. TypeNames = {"STRING", "INT32", "INT64", "UINT", "BOOL", "FLOAT", "DOUBLE", "TIME"}
  <2>1. TypeNames = {Types[i] : i \in 1..8}
    BY <1>1 DEF TypeNames, ToSet
  <2>2. 1..8 = {1, 2, 3, 4, 5, 6, 7, 8}
    OBVIOUS
  <2> QED BY <2>1, <2>2 DEF Types
<1>3. \A i \in 1..8 : (CHOOSE j \in DOMAIN Types : Types[j] = Types[i]) = i
  BY DEF Types
<1>4. \A i \in 1..8 : TypeMask(Types[i]) = 2 ^ (i - 1)
  BY <1>3 DEF TypeMask
<1>5. /\ TypeMask(Types[1]) = 2 ^ 0 /\ TypeMask(Types[2]) = 2 ^ 1 /\ TypeMask(Types[3]) = 2 ^ 2
      /\ TypeMask(Types[4]) = 2 ^ 3 /\ TypeMask(Types[5]) = 2 ^ 4 /\ TypeMask(Types[6]) = 2 ^ 5
      /\ TypeMask(Types[7]) = 2 ^ 6 /\ TypeMask(Types[8]) = 2 ^ 7
  <2>1. /\ 1 \in 1..8 /\ 2 \in 1..8 /\ 3 \in 1..8 /\ 4 \in 1..8 /\ 5 \in 1..8 /\ 6 \in 1..8
        /\ 7 \in 1..8 /\ 8 \in 1..8
        /\ 1 - 1 = 0 /\ 2 - 1 = 1 /\ 3 - 1 = 2 /\ 4 - 1 = 3 /\ 5 - 1 = 4 /\ 6 - 1 = 5
        /\ 7 - 1 = 6 /\ 8 - 1 = 7
    OBVIOUS
  <2> QED BY <1>4, <2>1
<1>6. /\ 2 ^ 0 = 1 /\ 2 ^ 1 = 2 /\ 2 ^ 2 = 4 /\ 2 ^ 3 = 8 /\ 2 ^ 4 = 16 /\ 2 ^ 5 = 32
      /\ 2 ^ 6 = 64 /\ 2 ^ 7 = 128
  OBVIOUS
<1>7. /\ Types[1] = "STRING" /\ Types[2] = "INT32" /\ Types[3] = "INT64" /\ Types[4] = "UINT"
      /\ Types[5] = "BOOL" /\ Types[6] = "FLOAT" /\ Types[7] = "DOUBLE" /\ Types[8] = "TIME"
  BY DEF Types
<1> QED BY <1>2, <1>5, <1>6, <1>7

(* A mask names one type. *)
LEMMA MaskNames ==
    ASSUME NEW type \in TypeNames
    PROVE  TypeMask(type) \in Nat /\ TypeOf(TypeMask(type)) = type
<1>1. TypeMask(type) \in Nat
  BY TypesAre
<1>2. \A t \in TypeNames : TypeMask(t) = TypeMask(type) => t = type
  BY TypesAre
<1>3. TypeOf(TypeMask(type)) \in TypeNames /\ TypeMask(TypeOf(TypeMask(type))) = TypeMask(type)
  BY DEF TypeOf
<1> QED BY <1>1, <1>2, <1>3

(* A remainder of a number that is small already, and of any.              *)
LEMMA ModSmall ==
    ASSUME NEW m \in Nat \ {0}, NEW x \in 0..(m - 1)
    PROVE  x % m = x
OBVIOUS

LEMMA ModRange ==
    ASSUME NEW m \in Nat \ {0}, NEW x \in Int
    PROVE  x % m \in 0..(m - 1)
OBVIOUS

(* Narrowing gives a number of the width, and the number itself if it fits. *)
LEMMA SignedFits ==
    ASSUME NEW h \in Nat \ {0}, NEW n \in Int
    PROVE  Signed(n, h) \in (-h)..(h - 1) /\ (Fits(n, h) => Signed(n, h) = n)
<1>1. 2 * h \in Nat \ {0} /\ n + h \in Int
  OBVIOUS
<1>2. (n + h) % (2 * h) \in 0..(2 * h - 1)
  BY <1>1, ModRange
<1>3. ASSUME n \in (-h)..(h - 1) PROVE (n + h) % (2 * h) = n + h
  <2>1. n + h \in 0..(2 * h - 1)
    BY <1>3
  <2> QED BY <1>1, <2>1, ModSmall
<1> QED BY <1>2, <1>3 DEF Signed, Fits

(* What SI_ParseValue makes of a text its type can read is of the type.    *)
LEMMA ParsedHeld ==
    ASSUME NEW type \in TypeNames, NEW text, IsText(text), Readable(type, text)
    PROVE  Held(Parsed(type, text), type)
<1>1. text.v \in Int
  BY DEF IsText
<1>2. Whole(text) \in Int /\ Quarters(text) \in Int
  BY <1>1 DEF Whole, Quarters
<1>3. /\ Coarse(Quarters(text)) \in Int
      /\ Coarse(Coarse(Quarters(text))) = Coarse(Quarters(text))
  BY <1>2 DEF Coarse
<1>4. Signed(Whole(text), Int32Half) \in (-Int32Half)..(Int32Half - 1)
  BY <1>2, ValuesAssumption, SignedFits
<1>5. Whole(text) % (2 * Int64Half) \in 0..(2 * Int64Half - 1)
  <2>1. 2 * Int64Half \in Nat \ {0}
    BY ValuesAssumption
  <2> QED BY <1>2, <2>1, ModRange
<1>6. CASE type = "STRING"
  BY <1>6 DEF Held, Holdable, Parsed, Value
<1>7. CASE type = "INT32"
  BY <1>4, <1>7 DEF Held, Holdable, Parsed, Value
<1>8. CASE type \in {"INT64", "TIME"}
  <2>1. Whole(text) \in (-Int64Half)..(Int64Half - 1)
    BY <1>8 DEF Readable, IntReadable, Fits
  <2> QED BY <1>8, <2>1 DEF Held, Holdable, Parsed, Value
<1>9. CASE type = "UINT"
  BY <1>5, <1>9 DEF Held, Holdable, Parsed, Value
<1>10. CASE type = "BOOL"
  <2>1. (IF text.form = "digits" THEN text.v ELSE BoolTexts[text.form]) \in {0, 1}
    <3>1. BoolReadable(text)
      BY <1>10 DEF Readable
    <3>2. DOMAIN BoolTexts = {"true", "false"} /\ BoolTexts["true"] = 1 /\ BoolTexts["false"] = 0
      BY DEF BoolTexts
    <3>3. text.form = "digits" => text.v \in {0, 1}
      BY <3>1, <3>2 DEF BoolReadable
    <3>4. text.form # "digits" => text.form \in {"true", "false"}
      BY <3>1, <3>2 DEF BoolReadable
    <3> QED BY <3>2, <3>3, <3>4
  <2> QED BY <1>10, <2>1 DEF Held, Holdable, Parsed, Value
<1>11. CASE type = "FLOAT"
  BY <1>3, <1>11 DEF Held, Holdable, Parsed, Value
<1>12. CASE type = "DOUBLE"
  BY <1>2, <1>12 DEF Held, Holdable, Parsed, Value
<1> QED BY <1>6, <1>7, <1>8, <1>9, <1>10, <1>11, <1>12, TypesAre

(* What __writeValue writes, __readValue reads. *)
LEMMA ReadWritten ==
    ASSUME NEW type \in TypeNames, NEW v, Held(v, type)
    PROVE  /\ IsList(WriteValue(v)) /\ Len(WriteValue(v)) = 2
           /\ ReadValue(WriteValue(v)[1], WriteValue(v)[2]) = v
<1> DEFINE f == CASE v.type = "STRING" -> [string |-> v.v]
                  [] v.type \in {"INT32", "INT64", "TIME"} -> [signed |-> v.v]
                  [] v.type \in {"UINT", "BOOL"} -> [unsigned |-> v.v]
                  [] v.type \in {"FLOAT", "DOUBLE"} -> [double |-> v.v]
           m == [unsigned |-> TypeMask(type)]
<1>1. Holdable(type, v.v) /\ v = Value(type, v.v) /\ v.type = type
  BY DEF Held, Value
<1>2. WriteValue(v) = <<m, f>>
  BY <1>1 DEF WriteValue
<1>3. m.unsigned = TypeMask(type) /\ TypeOf(m.unsigned) = type
  BY MaskNames
<1>4. IsList(WriteValue(v)) /\ Len(WriteValue(v)) = 2 /\ WriteValue(v)[1] = m /\ WriteValue(v)[2] = f
  <2> HIDE DEF m, f
  <2>1. <<m, f>> \in Seq({m, f})
    OBVIOUS
  <2>2. Len(<<m, f>>) = 2 /\ <<m, f>>[1] = m /\ <<m, f>>[2] = f
    OBVIOUS
  <2> QED BY <1>2, <2>1, <2>2 DEF IsList
<1> HIDE DEF m
<1>5. CASE type = "STRING"
  <2>1. f = [string |-> v.v]
    BY <1>1, <1>5
  <2> HIDE DEF f
  <2>2. f.string = v.v
    BY <2>1
  <2>3. ReadValue(m, f) = Value(type, f.string)
    BY <1>3, <1>5 DEF ReadValue
  <2> QED BY <1>4, <1>1, <2>2, <2>3
<1>6. CASE type \in {"INT32", "INT64", "TIME"}
  <2>1. f = [signed |-> v.v]
    BY <1>1, <1>6
  <2> HIDE DEF f
  <2>2. f.signed = v.v
    BY <2>1
  <2>3. ASSUME type = "INT32" PROVE Signed(v.v, Int32Half) = v.v
    <3>1. v.v \in (-Int32Half)..(Int32Half - 1) /\ Int32Half \in Nat \ {0}
      BY <1>1, <2>3, ValuesAssumption DEF Holdable
    <3>2. v.v \in Int /\ Fits(v.v, Int32Half)
      BY <3>1 DEF Fits
    <3> QED BY <3>1, <3>2, SignedFits
  <2>4. ReadValue(m, f) = Value(type, IF type = "INT32" THEN Signed(f.signed, Int32Half) ELSE f.signed)
    BY <1>3, <1>6 DEF ReadValue
  <2>5. ReadValue(m, f) = v
    BY <1>1, <2>2, <2>3, <2>4
  <2> QED BY <1>4, <2>5
<1>7. CASE type \in {"UINT", "BOOL"}
  <2>1. f = [unsigned |-> v.v]
    BY <1>1, <1>7
  <2> HIDE DEF f
  <2>2. f.unsigned = v.v
    BY <2>1
  <2>3. ReadValue(m, f) = Value(type, f.unsigned)
    BY <1>3, <1>7 DEF ReadValue
  <2>4. ReadValue(m, f) = v
    BY <1>1, <2>2, <2>3
  <2> QED BY <1>4, <2>4
<1>8. CASE type \in {"FLOAT", "DOUBLE"}
  <2>1. f = [double |-> v.v] /\ v.v \in Int /\ (type = "FLOAT" => Coarse(v.v) = v.v)
    BY <1>1, <1>8 DEF Holdable
  <2> HIDE DEF f
  <2>2. f.double = v.v
    BY <2>1
  <2>3. ReadValue(m, f) = Value(type, IF type = "FLOAT" THEN Coarse(f.double) ELSE f.double)
    BY <1>3, <1>8 DEF ReadValue
  <2>4. ReadValue(m, f) = v
    BY <1>1, <2>1, <2>2, <2>3
  <2> QED BY <1>4, <2>4
<1> QED BY <1>5, <1>6, <1>7, <1>8, TypesAre

-----------------------------------------------------------------------------
(* RMUtil_ArgExists finds the first place the word is at, or none.         *)
LEMMA ArgExistsIs ==
    ASSUME NEW args, IsList(args), NEW word, NEW from \in Nat \ {0}
    PROVE  /\ ArgExists(word, args, from) \in 0..Len(args)
           /\ LET a == ArgExists(word, args, from)
              IN  IF a = 0 THEN \A i \in from..Len(args) : args[i] # word
                  ELSE a >= from /\ args[a] = word /\ \A i \in from..(a - 1) : args[i] # word
<1> DEFINE found == {i \in from..Len(args) : args[i] = word}
<1>0. PICK S : args \in Seq(S)
  BY DEF IsList
<1>1. Len(args) \in Nat /\ found \in SUBSET Nat
  BY <1>0
<1>2. CASE found = {}
  BY <1>1, <1>2 DEF ArgExists
<1>3. CASE found # {}
  <2>1. PICK m \in found : \A i \in found : m <= i
    <3> HIDE DEF found
    <3> QED BY <1>1, <1>3, LeastOf
  <2>2. Min(found) = m
    <3>1. Min(found) \in found /\ \A i \in found : Min(found) <= i
      <4> HIDE DEF found
      <4> QED BY <2>1 DEF Min
    <3>2. Min(found) <= m /\ m <= Min(found)
      BY <2>1, <3>1
    <3> QED BY <1>1, <2>1, <3>1, <3>2
  <2>3. ArgExists(word, args, from) = m
    BY <1>3, <2>2 DEF ArgExists
  <2>4. \A i \in from..(m - 1) : args[i] # word
    <3> SUFFICES ASSUME NEW i \in from..(m - 1), args[i] = word PROVE FALSE
      OBVIOUS
    <3>1. i \in found
      BY <1>1, <2>1
    <3> QED BY <1>1, <2>1, <3>1
  <2> QED BY <1>1, <2>1, <2>3, <2>4
<1> QED BY <1>2, <1>3

(* SI_ParseSpec makes an index without records that follows its schema.    *)
LEMMA ParseSound ==
    ASSUME NEW args, IsList(args), ParseSpec(args) # NoIndex
    PROVE  Sound(ParseSpec(args))
<1> DEFINE unique == ArgExists("UNIQUE", args, 1)
           type == ArgExists("TYPE", args, 1)
           named == type \in 1..(Len(args) - 1) /\ args[type + 1] = "HASH"
           schema == FindSchema(args, unique)
           words == SubSeq(args, schema + 1, Len(args))
           props == IF named THEN [p \in 1..(Len(words) \div 2) |-> [name |-> words[2 * p - 1], type |-> words[2 * p]]]
                             ELSE [p \in DOMAIN words |-> [name |-> "", type |-> words[p]]]
           ix == [kind |-> IF named THEN "SI_HashIndex" ELSE "SI_AbstractIndex",
                  unique |-> unique # 0, named |-> named, props |-> props, records |-> <<>>]
<1>0. PICK S : args \in Seq(S)
  BY DEF IsList
<1>1. unique \in 0..Len(args) /\ Len(args) \in Nat
  BY <1>0, ArgExistsIs
<1>2. schema \in 0..Len(args)
  <2>1. unique + 1 \in Nat \ {0}
    BY <1>1
  <2> HIDE DEF unique
  <2> QED BY <2>1, ArgExistsIs DEF FindSchema
<1>3. named \in BOOLEAN
  OBVIOUS
<1>4. words \in Seq(S)
  BY <1>0, <1>1, <1>2
<1>5. /\ ParseSpec(args) = ix /\ \A p \in DOMAIN props : props[p].type \in TypeNames
      /\ schema \notin {0, Len(args)} /\ (named => Len(words) % 2 = 0)
  BY DEF ParseSpec
<1>6. PICK n \in Nat : n = (IF named THEN Len(words) \div 2 ELSE Len(words)) /\ n # 0
  <2>1. PICK c : c = schema
    OBVIOUS
  <2>2. c \in 1..(Len(args) - 1)
    <3> HIDE DEF schema, named, words, props
    <3> QED BY <1>1, <1>2, <1>5, <2>1
  <2>3. Len(SubSeq(args, c + 1, Len(args))) = Len(args) - c
    BY <1>0, <2>2
  <2>4. PICK l \in Nat \ {0} : l = Len(words)
    <3>1. Len(words) = Len(args) - c
      <4> HIDE DEF schema
      <4> QED BY <2>1, <2>3
    <3> HIDE DEF words
    <3> QED BY <1>1, <2>2, <3>1
  <2>5. l % 2 = 0 => l \div 2 \in Nat \ {0}
    OBVIOUS
  <2> HIDE DEF named, words, schema, props
  <2> QED BY <1>5, <2>4, <2>5
<1>7. /\ DOMAIN props = 1..n
      /\ \A p \in 1..n : /\ props[p] = [name |-> props[p].name, type |-> props[p].type]
                         /\ ~named => props[p].name = ""
      /\ props = [p \in 1..n |-> props[p]]
  <2> HIDE DEF named, words
  <2>1. CASE named
    <3>1. props = [p \in 1..n |-> [name |-> words[2 * p - 1], type |-> words[2 * p]]]
      BY <1>6, <2>1
    <3> HIDE DEF props
    <3> QED BY <2>1, <3>1
  <2>2. CASE ~named
    <3>1. DOMAIN words = 1..n
      BY <1>4, <1>6, <2>2
    <3>2. props = [p \in 1..n |-> [name |-> "", type |-> words[p]]]
      BY <2>2, <3>1
    <3> HIDE DEF props
    <3> QED BY <3>2
  <2> QED BY <2>1, <2>2
<1> HIDE DEF named, words, unique, props
<1>8. props \in Seq({props[p] : p \in 1..n}) /\ Len(props) = n /\ props # << >>
  <2>1. props \in [1..n -> {props[p] : p \in 1..n}]
    BY <1>7
  <2>2. props \in Seq({props[p] : p \in 1..n}) /\ Len(props) = n
    BY <2>1, AsSequence
  <2> QED BY <1>6, <2>2
<1>9. \A p \in 1..Len(props) : Property(props[p], named)
  BY <1>5, <1>7, <1>8 DEF Property
<1>10. IsList(props)
  BY <1>8 DEF IsList
<1>11. Schema(ix)
  BY <1>3, <1>8, <1>9, <1>10 DEF Schema
<1>12. ix.records = << >> /\ DOMAIN << >> = {} /\ IsFiniteSet({})
  <2>1. ix.records = << >>
    OBVIOUS
  <2>2. DOMAIN << >> = {}
    OBVIOUS
  <2> QED BY <2>1, <2>2, FS_EmptySet
<1>13. ix.records = [id \in DOMAIN ix.records |-> ix.records[id]]
  <2> HIDE DEF ix
  <2> QED BY <1>12
<1> HIDE DEF ix
<1>14. Sound(ix)
  BY <1>11, <1>12, <1>13 DEF Sound, Recorded, Alone
<1> QED BY <1>5, <1>14

-----------------------------------------------------------------------------
(* Equality of tuples as the comparators see it.                           *)
LEMMA SameTupleIs ==
    ASSUME NEW t, NEW u, DOMAIN t = DOMAIN u
    PROVE  SameTuple(t, t) /\ (SameTuple(t, u) <=> SameTuple(u, t))
BY DEF SameTuple, SameValue

(* An addition that is not refused puts the record in the place of the     *)
(* one its id had.                                                         *)
LEMMA AppliedSound ==
    ASSUME NEW ix, Sound(ix), NEW id, NEW tuple, Row(tuple, ix.props)
    PROVE  Sound(Applied(ix, id, tuple))
<1> DEFINE new == With(ix.records, id, tuple)
           jx == [ix EXCEPT !.records = new]
<1>1. CASE Refuses(ix, id, tuple) \/ (ix.unique /\ id \in Holders(ix, tuple))
  BY <1>1 DEF Applied
<1>2. CASE ~Refuses(ix, id, tuple) /\ ~(ix.unique /\ id \in Holders(ix, tuple))
  <2>1. Applied(ix, id, tuple) = jx
    BY <1>2 DEF Applied
  <2>2. Schema(ix) /\ Recorded(ix)
    BY DEF Sound
  <2>3. ix = [kind |-> ix.kind, unique |-> ix.unique, named |-> ix.named,
              props |-> ix.props, records |-> ix.records]
    BY <2>2 DEF Schema
  <2>4. jx = [kind |-> ix.kind, unique |-> ix.unique, named |-> ix.named,
              props |-> ix.props, records |-> new]
    BY <2>3
  <2>5. /\ DOMAIN new = DOMAIN ix.records \cup {id} /\ new[id] = tuple
        /\ \A i \in DOMAIN ix.records : i # id => new[i] = ix.records[i]
        /\ new = [i \in DOMAIN new |-> new[i]]
    BY DEF With
  <2> HIDE DEF new, jx
  <2>6. Schema(jx)
    BY <2>2, <2>4 DEF Schema
  <2>7. Recorded(jx)
    <3>1. IsFiniteSet(DOMAIN new)
      BY <2>2, <2>5, FS_AddElement DEF Recorded
    <3>2. \A i \in DOMAIN new : Row(new[i], ix.props)
      BY <2>2, <2>5 DEF Recorded
    <3> QED BY <2>4, <2>5, <3>1, <3>2 DEF Recorded
  <2>8. ASSUME jx.unique PROVE Alone(jx)
    <3>1. ix.unique /\ Alone(ix)
      BY <2>4, <2>8 DEF Sound
    <3>2. Holders(ix, tuple) \ {id} = {}
      BY <1>2, <3>1 DEF Refuses
    <3>3. \A i \in DOMAIN new : DOMAIN new[i] = 1..Len(ix.props)
      <4> SUFFICES ASSUME NEW i \in DOMAIN new PROVE DOMAIN new[i] = 1..Len(ix.props)
        OBVIOUS
      <4>1. Row(new[i], ix.props)
        BY <2>4, <2>7 DEF Recorded
      <4> QED BY <4>1 DEF Row, IsList
    <3>4. \A i, k \in DOMAIN new :
              SameTuple(new[i], new[i]) /\ (SameTuple(new[i], new[k]) <=> SameTuple(new[k], new[i]))
      BY <3>3, SameTupleIs
    <3>5. ASSUME NEW i \in DOMAIN new, NEW k \in DOMAIN new, SameTuple(new[k], new[i]), i # k PROVE FALSE
      <4>1. CASE i = id
        <5>1. k \in Holders(ix, tuple)
          BY <2>5, <3>5, <4>1 DEF Holders
        <5> QED BY <3>2, <3>5, <4>1, <5>1
      <4>2. CASE k = id
        <5>1. i \in Holders(ix, tuple)
          BY <2>5, <3>4, <3>5, <4>2 DEF Holders
        <5> QED BY <3>2, <3>5, <4>2, <5>1
      <4>3. CASE i # id /\ k # id
        <5>1. i \in DOMAIN ix.records /\ k \in DOMAIN ix.records
          BY <2>5, <4>3
        <5>2. k \in Holders(ix, ix.records[i])
          BY <2>5, <3>5, <4>3, <5>1 DEF Holders
        <5> QED BY <3>1, <3>5, <5>1, <5>2 DEF Alone
      <4> QED BY <4>1, <4>2, <4>3
    <3>6. ASSUME NEW i \in DOMAIN new PROVE Holders(jx, new[i]) = {i}
      <4>1. Holders(jx, new[i]) = {k \in DOMAIN new : SameTuple(new[k], new[i])}
        BY <2>4 DEF Holders
      <4> QED BY <3>4, <3>5, <4>1
    <3> QED BY <2>4, <3>6 DEF Alone
  <2> QED BY <2>1, <2>6, <2>7, <2>8 DEF Sound
<1> QED BY <1>1, <1>2

(* Records taken away leave a sound index.                                 *)
LEMMA DeletedSound ==
    ASSUME NEW ix, Sound(ix), NEW ids
    PROVE  Sound([ix EXCEPT !.records = [i \in DOMAIN @ \ ids |-> @[i]]])
<1> DEFINE new == [i \in DOMAIN ix.records \ ids |-> ix.records[i]]
           jx == [ix EXCEPT !.records = new]
<1>1. Schema(ix) /\ Recorded(ix)
  BY DEF Sound
<1>2. jx = [kind |-> ix.kind, unique |-> ix.unique, named |-> ix.named,
            props |-> ix.props, records |-> new]
  <2>1. ix = [kind |-> ix.kind, unique |-> ix.unique, named |-> ix.named,
              props |-> ix.props, records |-> ix.records]
    BY <1>1 DEF Schema
  <2> QED BY <2>1
<1>3. /\ DOMAIN new = DOMAIN ix.records \ ids
      /\ \A i \in DOMAIN new : new[i] = ix.records[i]
      /\ new = [i \in DOMAIN new |-> new[i]]
  OBVIOUS
<1> HIDE DEF new, jx
<1>4. Schema(jx)
  BY <1>1, <1>2 DEF Schema
<1>5. Recorded(jx)
  <2>1. IsFiniteSet(DOMAIN new)
    BY <1>1, <1>3, FS_Subset DEF Recorded
  <2>2. \A i \in DOMAIN new : Row(new[i], ix.props)
    BY <1>1, <1>3 DEF Recorded
  <2> QED BY <1>2, <1>3, <2>1, <2>2 DEF Recorded
<1>6. ASSUME jx.unique PROVE Alone(jx)
  <2>1. Alone(ix)
    BY <1>2, <1>6 DEF Sound
  <2>2. ASSUME NEW i \in DOMAIN new PROVE Holders(jx, new[i]) = {i}
    <3>1. Holders(jx, new[i]) = {k \in DOMAIN new : SameTuple(new[k], new[i])}
      BY <1>2 DEF Holders
    <3>2. Holders(ix, ix.records[i]) = {i}
      BY <1>3, <2>1 DEF Alone
    <3>3. {k \in DOMAIN new : SameTuple(new[k], new[i])} = Holders(ix, ix.records[i]) \ ids
      BY <1>3 DEF Holders
    <3> QED BY <1>3, <3>1, <3>2, <3>3
  <2> QED BY <1>2, <2>2 DEF Alone
<1>7. Sound(jx)
  BY <1>4, <1>5, <1>6 DEF Sound
<1> QED BY <1>7 DEF jx, new

(* What IDX.INSERT does with the texts it can read. *)
LEMMA InsertedSound ==
    ASSUME NEW ix, Sound(ix), NEW id, NEW texts, IsList(texts),
           \A i \in 1..Len(texts) : IsText(texts[i]),
           Len(texts) <= Len(ix.props),
           \A i \in DOMAIN texts : Readable(ix.props[i].type, texts[i]),
           NEW tuple, tuple = [i \in DOMAIN texts |-> Parsed(ix.props[i].type, texts[i])]
    PROVE  Sound(Applied(ix, id, tuple))
<1>1. IsList(ix.props) /\ \A p \in 1..Len(ix.props) : Property(ix.props[p], ix.named)
  BY DEF Sound, Schema
<1>2. DOMAIN texts = 1..Len(texts) /\ Len(texts) \in Nat /\ Len(ix.props) \in Nat
  BY <1>1 DEF IsList
<1>3. \A i \in 1..Len(texts) : Held(tuple[i], ix.props[i].type)
  <2> SUFFICES ASSUME NEW i \in 1..Len(texts) PROVE Held(tuple[i], ix.props[i].type)
    OBVIOUS
  <2>1. i \in DOMAIN texts /\ i \in 1..Len(ix.props)
    BY <1>2
  <2>2. tuple[i] = Parsed(ix.props[i].type, texts[i])
    BY <2>1
  <2>3. ix.props[i].type \in TypeNames
    BY <1>1, <2>1 DEF Property
  <2>4. IsText(texts[i]) /\ Readable(ix.props[i].type, texts[i])
    BY <2>1
  <2> QED BY <2>2, <2>3, <2>4, ParsedHeld
<1>4. tuple \in Seq({tuple[i] : i \in DOMAIN texts}) /\ Len(tuple) = Len(texts)
  <2>1. tuple \in [1..Len(texts) -> {tuple[i] : i \in DOMAIN texts}]
    BY <1>2
  <2> QED BY <1>2, <2>1, AsSequence
<1>5. IsList(tuple)
  BY <1>4 DEF IsList
<1>6. CASE Len(texts) # Len(ix.props)
  BY <1>4, <1>6 DEF Applied, Refuses
<1>7. CASE Len(texts) = Len(ix.props)
  <2>1. Row(tuple, ix.props)
    BY <1>3, <1>4, <1>5, <1>7 DEF Row
  <2> QED BY <2>1, AppliedSound
<1> QED BY <1>6, <1>7

-----------------------------------------------------------------------------
(* A list holds what a larger set holds.                                   *)
LEMMA Widened ==
    ASSUME NEW S, NEW T, S \subseteq T, NEW s \in Seq(S)
    PROVE  s \in Seq(T)
<1>1. s \in [1..Len(s) -> S] /\ Len(s) \in Nat
  OBVIOUS
<1>2. s \in [1..Len(s) -> T]
  BY <1>1
<1> QED BY <1>1, <1>2, AsSequence

(* c is b laid behind a. *)
Laid(a, b, c) ==
    /\ IsList(c) /\ Len(a) \in Nat /\ Len(b) \in Nat /\ Len(c) = Len(a) + Len(b)
    /\ \A i \in 1..Len(a) : c[i] = a[i]
    /\ \A i \in 1..Len(b) : c[Len(a) + i] = b[i]

LEMMA JoinedLaid ==
    ASSUME NEW a, IsList(a), NEW b, IsList(b), NEW c, c = a \o b
    PROVE  Laid(a, b, c)
<1>1. PICK S : a \in Seq(S)
  BY DEF IsList
<1>2. PICK T : b \in Seq(T)
  BY DEF IsList
<1>3. PICK U : U = S \cup T
  OBVIOUS
<1>4. a \in Seq(U) /\ b \in Seq(U)
  BY <1>1, <1>2, <1>3, Widened
<1>5. c \in Seq(U)
  BY <1>4
<1>6. /\ Len(a) \in Nat /\ Len(b) \in Nat /\ Len(c) = Len(a) + Len(b)
      /\ \A i \in 1..Len(a) : c[i] = a[i]
      /\ \A i \in 1..Len(b) : c[Len(a) + i] = b[i]
  BY <1>4
<1> QED BY <1>5, <1>6 DEF IsList, Laid

(* Lists of one length, joined. *)
LEMMA EvenList ==
    ASSUME NEW n \in Nat, NEW w \in Nat, NEW seqs, DOMAIN seqs = 1..n,
           seqs = [i \in 1..n |-> seqs[i]],
           \A i \in 1..n : IsList(seqs[i]) /\ Len(seqs[i]) = w
    PROVE  IsList(FlattenSeq(seqs)) /\ Even(FlattenSeq(seqs), seqs, w, n)
<1> DEFINE S == UNION {{seqs[i][j] : j \in 1..w} : i \in 1..n}
<1>1. ASSUME NEW i \in 1..n PROVE seqs[i] \in Seq(S)
  <2>1. PICK T : seqs[i] \in Seq(T)
    BY DEF IsList
  <2>2. Len(seqs[i]) = w
    OBVIOUS
  <2>3. seqs[i] = [j \in 1..w |-> seqs[i][j]]
    BY <2>1, <2>2
  <2>4. \A j \in 1..w : seqs[i][j] \in S
    OBVIOUS
  <2>5. seqs[i] \in [1..w -> S]
    <3> HIDE DEF S
    <3> QED BY <2>3, <2>4
  <2> HIDE DEF S
  <2> QED BY <2>5, AsSequence
<1> HIDE DEF S
<1>2. seqs \in [1..n -> Seq(S)]
  BY <1>1
<1>3. seqs \in Seq(Seq(S)) /\ Len(seqs) = n
  BY <1>2, AsSequence
<1>4. \A i \in 1..Len(seqs) : Len(seqs[i]) = w
  BY <1>3
<1>5. FlattenSeq(seqs) \in Seq(S) /\ Even(FlattenSeq(seqs), seqs, w, Len(seqs))
  BY <1>3, <1>4, FlattenEven
<1> QED BY <1>3, <1>5 DEF IsList

(* Every id of an index is visited once. *)
LEMMA IdsAre ==
    ASSUME NEW ix, IsFiniteSet(DOMAIN ix.records), NEW n, n = Cardinality(DOMAIN ix.records)
    PROVE  /\ n \in Nat /\ Ids(ix) \in [1..n -> DOMAIN ix.records]
           /\ \A i, j \in 1..n : Ids(ix)[i] = Ids(ix)[j] => i = j
           /\ \A id \in DOMAIN ix.records : \E i \in 1..n : Ids(ix)[i] = id
<1> DEFINE D == DOMAIN ix.records
           Enumerates(f) == f \in [1..n -> D] /\ IsInjective(f)
<1>1. n \in Nat
  BY FS_CardinalityType
<1>2. ExistsBijection(1..n, D)
  BY FS_CardinalityType
<1>3. PICK b : b \in Bijection(1..n, D)
  BY <1>2 DEF ExistsBijection
<1>4. Enumerates(b)
  BY <1>3 DEF Bijection, Injection
<1>5. Ids(ix) = CHOOSE f \in [1..n -> D] : IsInjective(f)
  BY DEF Ids, SetToSeq
<1>6. Enumerates(Ids(ix))
  BY <1>4, <1>5
<1>7. Ids(ix) \in Injection(1..n, D)
  BY <1>6 DEF Injection
<1>8. Cardinality(1..n) = n
  BY <1>1, FS_Interval
<1>9. Ids(ix) \in Surjection(1..n, D)
  BY <1>7, <1>8, FS_Injection
<1>10. \A id \in D : \E i \in 1..n : Ids(ix)[i] = id
  BY <1>9 DEF Surjection
<1>11. \A i, j \in 1..n : Ids(ix)[i] = Ids(ix)[j] => i = j
  BY <1>6 DEF IsInjective
<1> QED BY <1>1, <1>6, <1>10, <1>11

-----------------------------------------------------------------------------
(* The two or three fields of a property.                                  *)
LEMMA PropertySaved ==
    ASSUME NEW ix, Schema(ix), NEW p \in 1..Len(ix.props), NEW s, s = SaveProperty(ix, p)
    PROVE  /\ IsList(s) /\ Len(s) = PropertyFields(ix.named)
           /\ ix.named => s[1] = [string |-> ix.props[p].name]
                          /\ s[2] = [signed |-> TypeMask(ix.props[p].type)]
           /\ ~ix.named => s[1] = [signed |-> TypeMask(ix.props[p].type)]
<1> DEFINE a == [string |-> ix.props[p].name]
           b == [signed |-> TypeMask(ix.props[p].type)]
           c == [signed |-> 0]
<1>1. ix.named \in BOOLEAN
  BY DEF Schema
<1>2. s = (IF ix.named THEN <<a>> ELSE <<>>) \o <<b, c>>
  BY DEF SaveProperty
<1> HIDE DEF a, b, c
<1>3. PICK S : S = {a, b, c}
  OBVIOUS
<1>4. <<a>> \in Seq(S) /\ <<b, c>> \in Seq(S) /\ << >> \in Seq(S)
  BY <1>3
<1>5. CASE ix.named
  <2>1. s = <<a>> \o <<b, c>>
    BY <1>2, <1>5
  <2>2. s \in Seq(S) /\ Len(s) = 3 /\ s[1] = a /\ s[2] = b
    BY <1>4, <2>1
  <2>3. IsList(s) /\ Len(s) = PropertyFields(ix.named)
    BY <1>5, <2>2 DEF IsList, PropertyFields
  <2> QED BY <1>5, <2>2, <2>3 DEF a, b
<1>6. CASE ~ix.named
  <2>1. s = <<b, c>>
    BY <1>2, <1>4, <1>6
  <2>2. s \in Seq(S) /\ Len(s) = 2 /\ s[1] = b
    BY <1>4, <2>1
  <2>3. IsList(s) /\ Len(s) = PropertyFields(ix.named)
    BY <1>6, <2>2 DEF IsList, PropertyFields
  <2> QED BY <1>6, <2>2, <2>3 DEF b
<1> QED BY <1>5, <1>6

(* The fields of one record, of n values. *)
RecordOf(s, id, tuple, n) ==
    /\ IsList(s) /\ Len(s) = 1 + 2 * n /\ s[1] = [string |-> id]
    /\ \A i \in 1..n : s[2 * i] = WriteValue(tuple[i])[1] /\ s[2 * i + 1] = WriteValue(tuple[i])[2]

LEMMA RecordSaved ==
    ASSUME NEW id, NEW tuple, NEW props, Row(tuple, props),
           NEW n \in Nat, n = Len(props), \A i \in 1..n : props[i].type \in TypeNames,
           NEW s, s = SaveRecord(id, tuple)
    PROVE  RecordOf(s, id, tuple, n)
<1> DEFINE rows == [i \in DOMAIN tuple |-> WriteValue(tuple[i])]
           head == [string |-> id]
<1>1. DOMAIN tuple = 1..n
  BY DEF Row, IsList
<1>2. \A i \in 1..n : IsList(WriteValue(tuple[i])) /\ Len(WriteValue(tuple[i])) = 2
  BY ReadWritten DEF Row
<1>3. s = <<head>> \o FlattenSeq(rows)
  BY DEF SaveRecord
<1>4. DOMAIN rows = 1..n /\ rows = [i \in 1..n |-> rows[i]] /\ \A i \in 1..n : rows[i] = WriteValue(tuple[i])
  BY <1>1
<1> HIDE DEF rows, head
<1>5. \A i \in 1..n : IsList(rows[i]) /\ Len(rows[i]) = 2
  BY <1>2, <1>4
<1>6. PICK c : c = FlattenSeq(rows)
  OBVIOUS
<1>7. IsList(c) /\ Even(c, rows, 2, n)
  BY <1>4, <1>5, <1>6, EvenList
<1>8. IsList(<<head>>) /\ Len(<<head>>) = 1 /\ <<head>>[1] = head
  <2>1. <<head>> \in Seq({head})
    OBVIOUS
  <2> QED BY <2>1 DEF IsList
<1>9. PICK h : h = <<head>>
  OBVIOUS
<1>10. s = h \o c /\ IsList(h) /\ Len(h) = 1 /\ h[1] = head
  BY <1>3, <1>6, <1>8, <1>9
<1>11. Laid(h, c, s)
  BY <1>7, <1>10, JoinedLaid
<1>12. /\ IsList(s) /\ Len(s) = 1 + Len(c) /\ s[1] = h[1]
       /\ \A i \in 1..Len(c) : s[1 + i] = c[i]
  BY <1>10, <1>11 DEF Laid
<1>13. Len(c) = n * 2 /\ \A i \in 1..n : \A j \in 1..2 : c[(i - 1) * 2 + j] = rows[i][j]
  BY <1>7 DEF Even
<1>14. ASSUME NEW i \in 1..n PROVE s[2 * i] = rows[i][1] /\ s[2 * i + 1] = rows[i][2]
  <2>1. c[(i - 1) * 2 + 1] = rows[i][1] /\ c[(i - 1) * 2 + 2] = rows[i][2]
    BY <1>13
  <2>2. (i - 1) * 2 + 1 = 2 * i - 1 /\ (i - 1) * 2 + 2 = 2 * i
    OBVIOUS
  <2>3. 2 * i - 1 \in 1..Len(c) /\ 2 * i \in 1..Len(c) /\ 1 + (2 * i - 1) = 2 * i /\ 1 + 2 * i = 2 * i + 1
    BY <1>13
  <2>4. s[1 + (2 * i - 1)] = c[2 * i - 1] /\ s[1 + 2 * i] = c[2 * i]
    BY <1>12, <2>3
  <2> QED BY <2>1, <2>2, <2>3, <2>4
<1>15. s[1] = head
  BY <1>10, <1>12
<1> QED BY <1>4, <1>13, <1>14, <1>15, <1>12 DEF head, RecordOf

(* s is four lists of 4, q, 1 and any number of elements. *)
Fields(a, b, c, d, q, s) ==
    /\ \A i \in 1..4 : s[i] = a[i]
    /\ \A i \in 1..q : s[4 + i] = b[i]
    /\ s[5 + q] = c[1]
    /\ \A i \in 1..Len(d) : s[5 + q + i] = d[i]
    /\ Len(s) = 5 + q + Len(d) /\ Len(d) \in Nat

(* The parts of a dump: its head, the properties, a count, the records.    *)
LEMMA FourLaid ==
    ASSUME NEW a, IsList(a), NEW b, IsList(b), NEW c, IsList(c), NEW d, IsList(d),
           Len(a) = 4, Len(c) = 1, NEW q \in Nat, Len(b) = q,
           NEW s, s = a \o b \o c \o d
    PROVE  Fields(a, b, c, d, q, s)
<1>1. PICK ab : ab = a \o b
  OBVIOUS
<1>2. PICK abc : abc = ab \o c
  OBVIOUS
<1>3. s = abc \o d
  BY <1>1, <1>2
<1>4. Laid(a, b, ab)
  BY <1>1, JoinedLaid
<1>5. /\ IsList(ab) /\ Len(ab) = 4 + q
      /\ \A i \in 1..4 : ab[i] = a[i]
      /\ \A i \in 1..q : ab[4 + i] = b[i]
  BY <1>4 DEF Laid
<1>6. Laid(ab, c, abc)
  BY <1>2, <1>5, JoinedLaid
<1>7. /\ IsList(abc) /\ Len(abc) = 5 + q
      /\ \A i \in 1..(4 + q) : abc[i] = ab[i]
      /\ abc[5 + q] = c[1]
  <2>1. /\ IsList(abc) /\ Len(abc) = (4 + q) + 1
        /\ \A i \in 1..(4 + q) : abc[i] = ab[i]
        /\ \A i \in 1..1 : abc[(4 + q) + i] = c[i]
    BY <1>5, <1>6 DEF Laid
  <2>2. (4 + q) + 1 = 5 + q /\ 1 \in 1..1
    OBVIOUS
  <2> QED BY <2>1, <2>2
<1>8. Laid(abc, d, s)
  BY <1>3, <1>7, JoinedLaid
<1>9. /\ Len(s) = 5 + q + Len(d) /\ Len(d) \in Nat
      /\ \A i \in 1..(5 + q) : s[i] = abc[i]
      /\ \A i \in 1..Len(d) : s[5 + q + i] = d[i]
  BY <1>7, <1>8 DEF Laid
<1>10. \A i \in 1..4 : i \in 1..(5 + q) /\ i \in 1..(4 + q)
  OBVIOUS
<1>11. \A i \in 1..q : 4 + i \in 1..(5 + q) /\ 4 + i \in 1..(4 + q)
  OBVIOUS
<1>12. 5 + q \in 1..(5 + q)
  OBVIOUS
<1>13. \A i \in 1..4 : s[i] = a[i]
  BY <1>5, <1>7, <1>9, <1>10
<1>14. \A i \in 1..q : s[4 + i] = b[i]
  BY <1>5, <1>7, <1>9, <1>11
<1>15. s[5 + q] = c[1]
  BY <1>7, <1>9, <1>12
<1> QED BY <1>9, <1>13, <1>14, <1>15 DEF Fields

(* A place in one of n rows of w. *)
LEMMA InRows ==
    ASSUME NEW n \in Nat, NEW w \in Nat, NEW i \in 1..n, NEW j \in 1..w
    PROVE  (i - 1) * w \in Nat /\ (i - 1) * w + j \in 1..(n * w)
<1>1. PICK x : x = (i - 1) * w
  OBVIOUS
<1>2. x \in Nat /\ x + w <= n * w /\ n * w \in Nat
  BY <1>1
<1>3. PICK y : y = n * w
  OBVIOUS
<1>4. x \in Nat /\ x + w <= y /\ y \in Nat
  BY <1>2, <1>3
<1>5. x + j \in 1..y
  BY <1>4
<1> QED BY <1>1, <1>3, <1>4, <1>5

(* Where the fields of a dump are, of an index of n properties of w fields *)
(* each and of m records.                                                  *)
DumpOf(fields, ix, n, w, m) ==
    /\ fields # << >>
    /\ fields[1] = [unsigned |-> IF ix.kind = "SI_HashIndex" THEN 1 ELSE 0]
    /\ fields[3] = [unsigned |-> Flags(ix)] /\ fields[4] = [unsigned |-> n]
    /\ \A p \in 1..n : \A j \in 1..w : fields[4 + (p - 1) * w + j] = SaveProperty(ix, p)[j]
    /\ fields[5 + n * w] = [unsigned |-> m]
    /\ \A r \in 1..m : \A j \in 1..(1 + 2 * n) :
          fields[5 + n * w + (r - 1) * (1 + 2 * n) + j] = SaveRecord(Ids(ix)[r], ix.records[Ids(ix)[r]])[j]

LEMMA SavedAs ==
    ASSUME NEW ix, Schema(ix), Recorded(ix), NEW n, n = Len(ix.props),
           NEW w, w = PropertyFields(ix.named), NEW m, m = Cardinality(DOMAIN ix.records)
    PROVE  DumpOf(Saved(ix), ix, n, w, m)
<1> DEFINE h1 == [unsigned |-> IF ix.kind = "SI_HashIndex" THEN 1 ELSE 0]
           h2 == [unsigned |-> 0]
           h3 == [unsigned |-> Flags(ix)]
           h4 == [unsigned |-> n]
           k == [unsigned |-> m]
           props == [p \in DOMAIN ix.props |-> SaveProperty(ix, p)]
           recs == [r \in DOMAIN Ids(ix) |-> SaveRecord(Ids(ix)[r], ix.records[Ids(ix)[r]])]
<1>1. n \in Nat /\ DOMAIN ix.props = 1..n
  BY DEF Schema, IsList
<1>2. w \in Nat
  BY DEF PropertyFields
<1>3. /\ m \in Nat /\ Ids(ix) \in [1..m -> DOMAIN ix.records]
  BY IdsAre DEF Recorded
<1>4. Saved(ix) = <<h1, h2, h3, h4>> \o FlattenSeq(props) \o <<k>> \o FlattenSeq(recs)
  BY DEF Saved
<1>5. /\ DOMAIN props = 1..n /\ props = [p \in 1..n |-> props[p]]
      /\ \A p \in 1..n : props[p] = SaveProperty(ix, p)
  BY <1>1
<1>6. /\ DOMAIN recs = 1..m /\ recs = [r \in 1..m |-> recs[r]]
      /\ \A r \in 1..m : recs[r] = SaveRecord(Ids(ix)[r], ix.records[Ids(ix)[r]])
  BY <1>3
<1> HIDE DEF h1, h2, h3, h4, k, props, recs
<1>7. PICK a, b, c, d : a = <<h1, h2, h3, h4>> /\ b = FlattenSeq(props) /\ c = <<k>> /\ d = FlattenSeq(recs)
  OBVIOUS
<1>8. IsList(a) /\ Len(a) = 4 /\ a[1] = h1 /\ a[3] = h3 /\ a[4] = h4
  <2>1. a \in Seq({h1, h2, h3, h4}) /\ Len(a) = 4 /\ a[1] = h1 /\ a[3] = h3 /\ a[4] = h4
    BY <1>7
  <2> QED BY <2>1 DEF IsList
<1>9. IsList(b) /\ Even(b, props, w, n)
  <2>1. \A p \in 1..n : IsList(props[p]) /\ Len(props[p]) = w
    BY <1>1, <1>5, PropertySaved, ZenonT(30)
  <2> QED BY <1>1, <1>2, <1>5, <1>7, <2>1, EvenList
<1>10. IsList(c) /\ Len(c) = 1 /\ c[1] = k
  <2>1. c \in Seq({k}) /\ Len(c) = 1 /\ c[1] = k
    BY <1>7
  <2> QED BY <2>1 DEF IsList
<1>11. IsList(d) /\ Even(d, recs, 1 + 2 * n, m)
  <2>1. \A p \in 1..n : ix.props[p].type \in TypeNames
    BY DEF Schema, Property
  <2>2. ASSUME NEW r \in 1..m PROVE IsList(recs[r]) /\ Len(recs[r]) = 1 + 2 * n
    <3>1. Ids(ix)[r] \in DOMAIN ix.records
      BY <1>3
    <3>2. Row(ix.records[Ids(ix)[r]], ix.props)
      BY <3>1 DEF Recorded
    <3>3. recs[r] = SaveRecord(Ids(ix)[r], ix.records[Ids(ix)[r]])
      BY <1>6
    <3>4. RecordOf(recs[r], Ids(ix)[r], ix.records[Ids(ix)[r]], n)
      BY <1>1, <2>1, <3>2, <3>3, RecordSaved
    <3> QED BY <3>4 DEF RecordOf
  <2>3. 1 + 2 * n \in Nat
    BY <1>1
  <2> QED BY <1>3, <1>6, <1>7, <2>2, <2>3, EvenList
<1>12. PICK q : q = n * w
  OBVIOUS
<1>13. q \in Nat /\ Len(b) = q
  BY <1>1, <1>2, <1>9, <1>12 DEF Even
<1>14. PICK s : s = a \o b \o c \o d
  OBVIOUS
<1>15. Saved(ix) = s
  BY <1>4, <1>7, <1>14
<1>16. Fields(a, b, c, d, q, s)
  BY <1>8, <1>9, <1>10, <1>11, <1>13, <1>14, FourLaid
<1>17. /\ \A i \in 1..4 : s[i] = a[i]
       /\ \A i \in 1..q : s[4 + i] = b[i]
       /\ s[5 + q] = c[1]
       /\ \A i \in 1..Len(d) : s[5 + q + i] = d[i]
       /\ Len(s) = 5 + q + Len(d) /\ Len(d) \in Nat
  BY <1>16 DEF Fields
<1>18. s[1] = h1 /\ s[3] = h3 /\ s[4] = h4
  BY <1>8, <1>17
<1>19. ASSUME NEW p \in 1..n, NEW j \in 1..w PROVE s[4 + (p - 1) * w + j] = props[p][j]
  <2>1. b[(p - 1) * w + j] = props[p][j]
    BY <1>9 DEF Even
  <2>2. PICK x : x = (p - 1) * w
    OBVIOUS
  <2>3. x \in Nat /\ x + j \in 1..q
    BY <1>1, <1>2, <1>12, <2>2, InRows
  <2>4. 4 + (x + j) = 4 + x + j
    BY <2>3
  <2> QED BY <1>17, <2>1, <2>2, <2>3, <2>4
<1>20. ASSUME NEW r \in 1..m, NEW j \in 1..(1 + 2 * n)
       PROVE  s[5 + n * w + (r - 1) * (1 + 2 * n) + j] = recs[r][j]
  <2>1. PICK v \in Nat : v = 1 + 2 * n
    BY <1>1
  <2>2. Len(d) = m * v /\ d[(r - 1) * v + j] = recs[r][j]
    BY <1>11, <2>1 DEF Even
  <2>3. PICK x : x = (r - 1) * v
    OBVIOUS
  <2>4. x \in Nat /\ x + j \in 1..Len(d)
    BY <1>3, <2>1, <2>2, <2>3, InRows
  <2>5. 5 + q + (x + j) = 5 + q + x + j
    BY <1>13, <2>1, <2>4
  <2>6. s[5 + q + (x + j)] = recs[r][j]
    BY <1>17, <2>2, <2>3, <2>4
  <2> QED BY <1>12, <2>1, <2>3, <2>5, <2>6
<1>21. s # << >>
  <2>1. Len(s) # 0
    BY <1>13, <1>17
  <2> QED BY <2>1
<1>22. s[5 + n * w] = k
  BY <1>10, <1>12, <1>17
<1>23. DumpOf(s, ix, n, w, m)
  <2>1. ASSUME NEW p \in 1..n, NEW j \in 1..w
        PROVE  s[4 + (p - 1) * w + j] = SaveProperty(ix, p)[j]
    <3>1. s[4 + (p - 1) * w + j] = props[p][j]
      BY <1>19
    <3> QED BY <1>5, <3>1
  <2>2. ASSUME NEW r \in 1..m, NEW j \in 1..(1 + 2 * n)
        PROVE  s[5 + n * w + (r - 1) * (1 + 2 * n) + j] = SaveRecord(Ids(ix)[r], ix.records[Ids(ix)[r]])[j]
    <3>1. s[5 + n * w + (r - 1) * (1 + 2 * n) + j] = recs[r][j]
      BY <1>20
    <3> QED BY <1>6, <3>1
  <2> QED BY <1>18, <1>21, <1>22, <2>1, <2>2 DEF DumpOf, h1, h3, h4, k
<1> QED BY <1>15, <1>23

(* __redisIndex_LoadSpec reads the spec that was saved. *)
SpecRead(fields, ix, n) ==
    /\ LoadSpec(fields) = [kind |-> ix.kind, unique |-> ix.unique, named |-> ix.named,
                           props |-> ix.props, records |-> << >>]
    /\ NamedIn(fields) = ix.named /\ fields[4].unsigned = n

LEMMA SpecLoaded ==
    ASSUME NEW ix, Schema(ix), NEW n, n = Len(ix.props),
           NEW w, w = PropertyFields(ix.named), NEW m, NEW fields, DumpOf(fields, ix, n, w, m)
    PROVE  SpecRead(fields, ix, n)
<1>1. /\ ix.named \in BOOLEAN /\ ix.unique \in BOOLEAN
      /\ ix.kind = IF ix.named THEN "SI_HashIndex" ELSE "SI_AbstractIndex"
      /\ IsList(ix.props)
      /\ \A p \in 1..Len(ix.props) : Property(ix.props[p], ix.named)
  BY DEF Schema
<1>2. /\ fields[1] = [unsigned |-> IF ix.kind = "SI_HashIndex" THEN 1 ELSE 0]
      /\ fields[3] = [unsigned |-> Flags(ix)] /\ fields[4] = [unsigned |-> n]
      /\ \A p \in 1..n : \A j \in 1..w : fields[4 + (p - 1) * w + j] = SaveProperty(ix, p)[j]
  BY DEF DumpOf
<1>3. fields[1].unsigned = (IF ix.named THEN 1 ELSE 0) /\ fields[3].unsigned = Flags(ix) /\ fields[4].unsigned = n
  BY <1>1, <1>2
<1>4. (Flags(ix) % 2 = 1) = ix.named /\ (Flags(ix) >= 2) = ix.unique
  BY <1>1 DEF Flags
<1>5. NamedIn(fields) = ix.named /\ (fields[3].unsigned >= 2) = ix.unique
  BY <1>3, <1>4 DEF NamedIn
<1>6. (IF fields[1].unsigned = 1 THEN "SI_HashIndex" ELSE "SI_AbstractIndex") = ix.kind
  BY <1>1, <1>3
<1>7. ASSUME NEW p \in 1..n PROVE LoadProperty(fields, ix.named, p) = ix.props[p]
  <2>1. PICK at : at = 4 + (p - 1) * w
    OBVIOUS
  <2>2. \A j \in 1..w : fields[at + j] = SaveProperty(ix, p)[j]
    BY <1>2, <2>1
  <2>3. ix.props[p] = [name |-> ix.props[p].name, type |-> ix.props[p].type]
        /\ ix.props[p].type \in TypeNames /\ (~ix.named => ix.props[p].name = "")
    BY <1>1 DEF Property
  <2>4. TypeOf(TypeMask(ix.props[p].type)) = ix.props[p].type
    BY <2>3, MaskNames
  <2>5. PICK s : s = SaveProperty(ix, p)
    OBVIOUS
  <2>6. CASE ix.named
    <3>1. s[1] = [string |-> ix.props[p].name] /\ s[2] = [signed |-> TypeMask(ix.props[p].type)]
      BY <2>5, <2>6, PropertySaved
    <3>2. w = 3
      BY <2>6 DEF PropertyFields
    <3>3. fields[at + 1] = s[1] /\ fields[at + 2] = s[2]
      BY <2>2, <2>5, <3>2
    <3>4. LoadProperty(fields, ix.named, p) =
              [name |-> fields[at + 1].string, type |-> TypeOf(fields[at + 2].signed)]
      BY <2>1, <2>6 DEF LoadProperty
    <3>5. fields[at + 1].string = ix.props[p].name /\ fields[at + 2].signed = TypeMask(ix.props[p].type)
      BY <3>1, <3>3
    <3> QED BY <2>3, <2>4, <3>4, <3>5
  <2>7. CASE ~ix.named
    <3>1. s[1] = [signed |-> TypeMask(ix.props[p].type)]
      BY <2>5, <2>7, PropertySaved
    <3>2. w = 2
      BY <2>7 DEF PropertyFields
    <3>3. fields[at + 1] = s[1]
      BY <2>2, <2>5, <3>2
    <3>4. LoadProperty(fields, ix.named, p) = [name |-> "", type |-> TypeOf(fields[at + 1].signed)]
      BY <2>1, <2>7 DEF LoadProperty
    <3>5. fields[at + 1].signed = TypeMask(ix.props[p].type)
      BY <3>1, <3>3
    <3> QED BY <2>3, <2>4, <2>7, <3>4, <3>5
  <2> QED BY <2>6, <2>7
<1>8. ix.props = [p \in 1..n |-> ix.props[p]]
  BY <1>1 DEF IsList
<1>9. [p \in 1..n |-> LoadProperty(fields, ix.named, p)] = ix.props
  BY <1>7, <1>8
<1>10. LoadSpec(fields) =
          [kind |-> IF fields[1].unsigned = 1 THEN "SI_HashIndex" ELSE "SI_AbstractIndex",
           unique |-> fields[3].unsigned >= 2, named |-> NamedIn(fields),
           props |-> [p \in 1..n |-> LoadProperty(fields, NamedIn(fields), p)], records |-> << >>]
  BY <1>3 DEF LoadSpec
<1> QED BY <1>3, <1>5, <1>6, <1>9, <1>10 DEF SpecRead

(* Record by record, __redisIndex_LoadIndex reads what the visitor saved. *)
RecordRead(fields, r, id, tuple) == fields[RecordAt(fields, r)].string = id /\ LoadTuple(fields, r) = tuple

LEMMA RecordLoaded ==
    ASSUME NEW ix, Schema(ix), NEW n, n = Len(ix.props),
           NEW w, w = PropertyFields(ix.named), NEW m \in Nat, NEW fields, DumpOf(fields, ix, n, w, m),
           NEW r \in 1..m, NEW id, id = Ids(ix)[r], NEW tuple, tuple = ix.records[id], Row(tuple, ix.props)
    PROVE  RecordRead(fields, r, id, tuple)
<1>1. n \in Nat
  BY DEF Schema, IsList
<1>2. NamedIn(fields) = ix.named /\ fields[4].unsigned = n
  <2>1. SpecRead(fields, ix, n)
    BY SpecLoaded
  <2> QED BY <2>1 DEF SpecRead
<1>3. PICK base : base = 5 + n * w + (r - 1) * (1 + 2 * n)
  OBVIOUS
<1>4. base \in Int
  <2>1. w \in Nat
    BY DEF PropertyFields
  <2>2. PICK x, y : x = n * w /\ y = (r - 1) * (1 + 2 * n)
    OBVIOUS
  <2>3. x \in Int
    BY <1>1, <2>1, <2>2
  <2>4. y \in Nat
    <3>1. PICK v \in Nat : v = 1 + 2 * n
      BY <1>1
    <3>2. 1 \in 1..v
      BY <1>1, <3>1
    <3>3. (r - 1) * v \in Nat
      BY <3>2, InRows
    <3> QED BY <2>2, <3>1, <3>3, Zenon
  <2>5. base = 5 + x + y
    BY <1>3, <2>2, Zenon
  <2> QED BY <2>3, <2>4, <2>5
<1>5. RecordAt(fields, r) = base + 1
  BY <1>2, <1>3 DEF RecordAt, CountAt
<1>6. PICK s : s = SaveRecord(id, tuple)
  OBVIOUS
<1>7. \A j \in 1..(1 + 2 * n) : fields[base + j] = s[j]
  <2>1. \A j \in 1..(1 + 2 * n) :
          fields[5 + n * w + (r - 1) * (1 + 2 * n) + j] = SaveRecord(Ids(ix)[r], ix.records[Ids(ix)[r]])[j]
    BY DEF DumpOf
  <2> QED BY <1>3, <1>6, <2>1
<1>8. \A i \in 1..n : ix.props[i].type \in TypeNames
  BY DEF Schema, Property
<1>9. RecordOf(s, id, tuple, n)
  BY <1>1, <1>6, <1>8, RecordSaved
<1>10. fields[RecordAt(fields, r)].string = id
  <2>1. 1 \in 1..(1 + 2 * n)
    BY <1>1
  <2>2. fields[base + 1] = [string |-> id]
    BY <1>7, <1>9, <2>1 DEF RecordOf
  <2> QED BY <1>5, <2>2
<1>11. ASSUME NEW i \in 1..n
       PROVE  ReadValue(fields[RecordAt(fields, r) + 2 * i - 1], fields[RecordAt(fields, r) + 2 * i]) = tuple[i]
  <2>1. 2 * i \in 1..(1 + 2 * n) /\ 2 * i + 1 \in 1..(1 + 2 * n)
    BY <1>1
  <2>2. RecordAt(fields, r) + 2 * i - 1 = base + 2 * i /\ RecordAt(fields, r) + 2 * i = base + (2 * i + 1)
    BY <1>4, <1>5
  <2>3. /\ fields[base + 2 * i] = WriteValue(tuple[i])[1]
        /\ fields[base + (2 * i + 1)] = WriteValue(tuple[i])[2]
    BY <1>7, <1>9, <2>1 DEF RecordOf
  <2>4. ix.props[i].type \in TypeNames /\ Held(tuple[i], ix.props[i].type)
    BY <1>8 DEF Row
  <2>5. ReadValue(WriteValue(tuple[i])[1], WriteValue(tuple[i])[2]) = tuple[i]
    BY <2>4, ReadWritten
  <2> QED BY <2>2, <2>3, <2>5
<1>12. tuple = [i \in 1..n |-> tuple[i]]
  BY DEF Row, IsList
<1>13. LoadTuple(fields, r) =
          [i \in 1..n |-> ReadValue(fields[RecordAt(fields, r) + 2 * i - 1], fields[RecordAt(fields, r) + 2 * i])]
  BY <1>2 DEF LoadTuple
<1>14. LoadTuple(fields, r) = tuple
  BY <1>11, <1>12, <1>13
<1> QED BY <1>10, <1>14 DEF RecordRead

(* The index with the records of the first r ids only.                     *)
FirstOf(ix, ids, r) ==
    [kind |-> ix.kind, unique |-> ix.unique, named |-> ix.named, props |-> ix.props,
     records |-> [id \in {ids[k] : k \in 1..r} |-> ix.records[id]]]

(* Adding the record of the next id to it: nothing is in its way.          *)
LEMMA NextAdded ==
    ASSUME NEW ix, Sound(ix),
           NEW m \in Nat, NEW ids \in [1..m -> DOMAIN ix.records],
           \A i, j \in 1..m : ids[i] = ids[j] => i = j,
           NEW r \in 1..m, NEW jx, jx = FirstOf(ix, ids, r - 1)
    PROVE  Applied(jx, ids[r], ix.records[ids[r]]) = FirstOf(ix, ids, r)
<1> DEFINE D == {ids[k] : k \in 1..(r - 1)}
           E == {ids[k] : k \in 1..r}
           tuple == ix.records[ids[r]]
           jrecs == [id \in D |-> ix.records[id]]
<1>0. Recorded(ix) /\ (ix.unique => Alone(ix))
  BY DEF Sound
<1>1. E = D \cup {ids[r]} /\ ids[r] \notin D
  <2>1. \A k \in 1..r : k = r \/ k \in 1..(r - 1)
    OBVIOUS
  <2>2. \A k \in 1..(r - 1) : k \in 1..r /\ k \in 1..m /\ k # r
    OBVIOUS
  <2> QED BY <2>1, <2>2
<1>2. D \subseteq DOMAIN ix.records /\ ids[r] \in DOMAIN ix.records
  <2>1. \A k \in 1..(r - 1) : k \in 1..m
    OBVIOUS
  <2> QED BY <2>1
<1>3. jx = [kind |-> ix.kind, unique |-> ix.unique, named |-> ix.named, props |-> ix.props,
            records |-> jrecs]
  BY DEF FirstOf
<1>4. FirstOf(ix, ids, r) =
          [kind |-> ix.kind, unique |-> ix.unique, named |-> ix.named, props |-> ix.props,
           records |-> [id \in E |-> ix.records[id]]]
  BY DEF FirstOf
<1> HIDE DEF D, E
<1>5. /\ DOMAIN jrecs = D
      /\ \A id \in D : jrecs[id] = ix.records[id]
  OBVIOUS
<1>6. [id \in E |-> ix.records[id]] = With(jrecs, ids[r], tuple)
  BY <1>1, <1>5 DEF With
<1> HIDE DEF jrecs
<1>7. jx.props = ix.props /\ jx.unique = ix.unique /\ jx.records = jrecs
  BY <1>3
<1>8. Len(tuple) = Len(jx.props)
  BY <1>0, <1>2, <1>7 DEF Recorded, Row
<1>9. Holders(jx, tuple) \subseteq D
  BY <1>5, <1>7 DEF Holders
<1>10. ASSUME ix.unique PROVE Holders(jx, tuple) = {}
  <2>1. SUFFICES ASSUME NEW id \in Holders(jx, tuple) PROVE FALSE
    OBVIOUS
  <2>2. id \in D /\ SameTuple(ix.records[id], tuple)
    BY <1>5, <1>7, <1>9 DEF Holders
  <2>3. id \in Holders(ix, tuple)
    BY <1>2, <2>2 DEF Holders
  <2>4. Holders(ix, tuple) = {ids[r]}
    BY <1>0, <1>2, <1>10 DEF Alone
  <2> QED BY <1>1, <2>2, <2>3, <2>4
<1>11. ~Refuses(jx, ids[r], tuple) /\ ~(jx.unique /\ ids[r] \in Holders(jx, tuple))
  BY <1>7, <1>8, <1>10 DEF Refuses
<1>12. Applied(jx, ids[r], tuple) = [jx EXCEPT !.records = With(jrecs, ids[r], tuple)]
  BY <1>7, <1>11 DEF Applied
<1>13. [jx EXCEPT !.records = With(jrecs, ids[r], tuple)] =
          [kind |-> ix.kind, unique |-> ix.unique, named |-> ix.named, props |-> ix.props,
           records |-> With(jrecs, ids[r], tuple)]
  BY <1>3
<1> QED BY <1>4, <1>6, <1>12, <1>13

(* The records of all ids are the index. *)
LEMMA AllOf ==
    ASSUME NEW ix, Schema(ix), Recorded(ix), NEW m, NEW ids,
           {ids[k] : k \in 1..m} = DOMAIN ix.records
    PROVE  FirstOf(ix, ids, m) = ix
<1>1. ix.records = [id \in DOMAIN ix.records |-> ix.records[id]]
  BY DEF Recorded
<1>2. ix = [kind |-> ix.kind, unique |-> ix.unique, named |-> ix.named,
            props |-> ix.props, records |-> ix.records]
  BY DEF Schema
<1> QED BY <1>1, <1>2 DEF FirstOf

(* A server that loads what was saved has the index again.                 *)
LEMMA LoadedSaved ==
    ASSUME NEW ix, Sound(ix)
    PROVE  Saved(ix) # << >> /\ Loaded(Saved(ix)) = ix
<1>0. Schema(ix) /\ Recorded(ix)
  BY DEF Sound
<1>1. PICK n, w, m, fields, ids :
          /\ n = Len(ix.props) /\ w = PropertyFields(ix.named) /\ m = Cardinality(DOMAIN ix.records)
          /\ fields = Saved(ix) /\ ids = Ids(ix)
  OBVIOUS
<1>2. DumpOf(fields, ix, n, w, m)
  BY <1>0, <1>1, SavedAs
<1>3. /\ m \in Nat /\ ids \in [1..m -> DOMAIN ix.records]
      /\ \A i, j \in 1..m : ids[i] = ids[j] => i = j
      /\ \A id \in DOMAIN ix.records : \E i \in 1..m : ids[i] = id
  BY <1>0, <1>1, IdsAre DEF Recorded
<1>4. SpecRead(fields, ix, n)
  BY <1>0, <1>1, <1>2, SpecLoaded
<1>5. fields[CountAt(fields)].unsigned = m
  <2>1. CountAt(fields) = 5 + n * w
    BY <1>1, <1>4 DEF SpecRead, CountAt
  <2>2. fields[5 + n * w] = [unsigned |-> m]
    BY <1>2 DEF DumpOf
  <2> QED BY <2>1, <2>2
<1> DEFINE F(f) == [r \in 0..m |-> IF r = 0 THEN LoadSpec(fields)
                                  ELSE Applied(f[r - 1], fields[RecordAt(fields, r)].string, LoadTuple(fields, r))]
           W == CHOOSE f : f = F(f)
           g == [r \in 0..m |-> FirstOf(ix, ids, r)]
<1>6. Loaded(fields) = W[m]
  BY <1>5, Zenon DEF Loaded
<1>7. FirstOf(ix, ids, 0) = LoadSpec(fields)
  <2>1. {ids[k] : k \in 1..0} = {}
    OBVIOUS
  <2>2. [id \in {} |-> ix.records[id]] = << >>
    OBVIOUS
  <2> QED BY <1>4, <2>1, <2>2 DEF FirstOf, SpecRead
<1>8. ASSUME NEW r \in 1..m
      PROVE  Applied(FirstOf(ix, ids, r - 1), fields[RecordAt(fields, r)].string, LoadTuple(fields, r)) =
                 FirstOf(ix, ids, r)
  <2>1. PICK id, tuple : id = ids[r] /\ tuple = ix.records[id]
    OBVIOUS
  <2>2. id \in DOMAIN ix.records
    BY <1>3, <2>1
  <2>3. Row(tuple, ix.props)
    BY <1>0, <2>1, <2>2 DEF Recorded
  <2>4. id = Ids(ix)[r] /\ tuple = ix.records[id] /\ m \in Nat
        /\ n = Len(ix.props) /\ w = PropertyFields(ix.named)
    BY <1>1, <1>3, <2>1
  <2>5. RecordRead(fields, r, id, tuple)
    BY <1>0, <1>2, <2>3, <2>4, RecordLoaded
  <2>6. Applied(FirstOf(ix, ids, r - 1), ids[r], ix.records[ids[r]]) = FirstOf(ix, ids, r)
    BY <1>3, NextAdded
  <2> QED BY <2>1, <2>5, <2>6 DEF RecordRead
<1>9. g = F(g)
  <2>1. DOMAIN g = 0..m /\ DOMAIN F(g) = 0..m
    OBVIOUS
  <2>2. ASSUME NEW r \in 0..m PROVE g[r] = F(g)[r]
    <3>1. CASE r = 0
      BY <1>7, <3>1
    <3>2. CASE r # 0
      <4>1. r \in 1..m /\ r - 1 \in 0..m
        BY <1>3, <3>2
      <4>2. g[r - 1] = FirstOf(ix, ids, r - 1) /\ g[r] = FirstOf(ix, ids, r)
        BY <4>1
      <4> QED BY <1>8, <3>2, <4>1, <4>2
    <3> QED BY <3>1, <3>2
  <2> QED BY <2>1, <2>2
<1>10. W = F(W)
  <2> HIDE DEF g, F
  <2> QED BY <1>9
<1> HIDE DEF W
<1>11. /\ W[0] = LoadSpec(fields)
       /\ \A r \in 1..m : W[r] = Applied(W[r - 1], fields[RecordAt(fields, r)].string, LoadTuple(fields, r))
  <2>1. \A r \in 0..m : W[r] = IF r = 0 THEN LoadSpec(fields)
                               ELSE Applied(W[r - 1], fields[RecordAt(fields, r)].string, LoadTuple(fields, r))
    BY <1>10
  <2> HIDE DEF F
  <2> QED BY <1>3, <2>1
<1> HIDE DEF F, g
<1>12. \A r \in 0..m : r \in {k \in 0..m : W[k] = FirstOf(ix, ids, k)}
  <2>1. PICK S : S = {k \in 0..m : W[k] = FirstOf(ix, ids, k)}
    OBVIOUS
  <2>2. 0 \in S
    BY <1>3, <1>7, <1>11, <2>1
  <2>3. ASSUME NEW k \in 0..m, k # m /\ k \in S PROVE k + 1 \in S
    <3>1. k + 1 \in 1..m /\ k + 1 \in 0..m /\ (k + 1) - 1 = k
      BY <1>3, <2>3
    <3>2. PICK r : r = k + 1
      OBVIOUS
    <3>3. r \in 1..m /\ r \in 0..m /\ r - 1 = k
      BY <3>1, <3>2
    <3>4. W[r - 1] = FirstOf(ix, ids, r - 1)
      BY <2>1, <2>3, <3>3
    <3>5. W[r] = FirstOf(ix, ids, r)
      BY <1>8, <1>11, <3>3, <3>4
    <3> QED BY <2>1, <3>2, <3>3, <3>5
  <2>4. \A k \in 0..m : k \in S
    BY <1>3, <2>2, <2>3, Upwards
  <2> QED BY <2>1, <2>4
<1>13. W[m] = FirstOf(ix, ids, m)
  BY <1>3, <1>12
<1>14. FirstOf(ix, ids, m) = ix
  <2>1. {ids[k] : k \in 1..m} = DOMAIN ix.records
    BY <1>3
  <2> QED BY <1>0, <2>1, AllOf
<1>15. fields # << >>
  BY <1>2 DEF DumpOf
<1> QED BY <1>1, <1>6, <1>13, <1>14, <1>15

-----------------------------------------------------------------------------
(* What the rewrite prints of a value is a text again. *)
LEMMA PrintedText ==
    ASSUME NEW type \in TypeNames, NEW v, Held(v, type)
    PROVE  IsText(Printed(v))
<1>1. Holdable(type, v.v) /\ v.type = type
  BY DEF Held, Value
<1>2. CASE type = "STRING"
  BY <1>1, <1>2 DEF Holdable, Printed
<1>3. CASE type \in {"INT32", "INT64", "TIME"}
  <2>1. v.v \in Int
    <3>1. type = "INT32" => v.v \in (-Int32Half)..(Int32Half - 1)
      BY <1>1 DEF Holdable
    <3>2. type \in {"INT64", "TIME"} => v.v \in (-Int64Half)..(Int64Half - 1)
      BY <1>1 DEF Holdable
    <3>3. -Int32Half \in Int /\ -Int64Half \in Int
      BY ValuesAssumption
    <3> QED BY <1>3, <3>1, <3>2, <3>3
  <2>2. Printed(v) = [form |-> "digits", v |-> v.v]
    BY <1>1, <1>3 DEF Printed
  <2> QED BY <2>1, <2>2 DEF IsText
<1>4. CASE type = "UINT"
  <2>1. v.v \in Int /\ Int64Half \in Nat \ {0}
    BY <1>1, <1>4, ValuesAssumption DEF Holdable
  <2>2. Printed(v) = [form |-> "digits", v |-> Signed(v.v, Int64Half)]
    BY <1>1, <1>4 DEF Printed
  <2>3. Signed(v.v, Int64Half) \in Int
    BY <2>1, SignedFits
  <2> QED BY <2>2, <2>3 DEF IsText
<1>5. CASE type = "BOOL"
  <2>1. Printed(v) = [form |-> IF v.v = 1 THEN "true" ELSE "false", v |-> 0]
    BY <1>1, <1>5 DEF Printed
  <2> QED BY <2>1 DEF IsText
<1>6. CASE type \in {"FLOAT", "DOUBLE"}
  <2>1. v.v \in Int
    BY <1>1, <1>6 DEF Holdable
  <2>2. Printed(v) = [form |-> "decimal", v |-> Coarse(v.v)]
    BY <1>1, <1>6 DEF Printed
  <2>3. Coarse(v.v) \in Int
    BY <2>1 DEF Coarse
  <2> QED BY <2>2, <2>3 DEF IsText
<1> QED BY <1>2, <1>3, <1>4, <1>5, <1>6, TypesAre

(* The words of an IDX.CREATE of the rewrite: how they begin, and those of *)
(* each property.                                                          *)
Written(args, ix, names) ==
    /\ IsList(args)
    /\ ix.named => /\ Len(args) = 3 + 2 * Len(ix.props)
                   /\ args[1] = "TYPE" /\ args[2] = "HASH" /\ args[3] = "SCHEMA"
                   /\ \A p \in 1..Len(ix.props) :
                         args[2 + 2 * p] = ix.props[p].name /\ args[3 + 2 * p] = names[p]
    /\ ~ix.named => /\ Len(args) = 1 + Len(ix.props) /\ args[1] = "SCHEMA"
                    /\ \A p \in 1..Len(ix.props) : args[1 + p] = names[p]

LEMMA CreateWritten ==
    ASSUME NEW ix, Schema(ix), NEW names
    PROVE  /\ AofCreate(ix, names).command = "IDX.CREATE"
           /\ Written(AofCreate(ix, names).args, ix, names)
<1> DEFINE rows == [p \in DOMAIN ix.props |-> (IF ix.named THEN <<ix.props[p].name>> ELSE <<>>) \o <<names[p]>>]
           kind == IF ix.kind = "SI_HashIndex" THEN <<"TYPE", "HASH">> ELSE <<>>
           schema == <<"SCHEMA">>
<1>1. PICK n \in Nat : n = Len(ix.props) /\ DOMAIN ix.props = 1..n
  BY DEF Schema, IsList
<1>2. ix.named \in BOOLEAN /\ ix.kind = IF ix.named THEN "SI_HashIndex" ELSE "SI_AbstractIndex"
  BY DEF Schema
<1>3. PICK w \in Nat : w = IF ix.named THEN 2 ELSE 1
  OBVIOUS
<1>4. DOMAIN rows = 1..n /\ rows = [p \in 1..n |-> rows[p]]
      /\ \A p \in 1..n : rows[p] = (IF ix.named THEN <<ix.props[p].name>> ELSE <<>>) \o <<names[p]>>
  BY <1>1
<1>5. AofCreate(ix, names).command = "IDX.CREATE" /\ AofCreate(ix, names).args = kind \o schema \o FlattenSeq(rows)
  BY DEF AofCreate
<1> HIDE DEF rows
<1>6. ASSUME NEW p \in 1..n
      PROVE  /\ IsList(rows[p]) /\ Len(rows[p]) = w
             /\ ix.named => rows[p][1] = ix.props[p].name /\ rows[p][2] = names[p]
             /\ ~ix.named => rows[p][1] = names[p]
  <2>1. PICK a, b : a = ix.props[p].name /\ b = names[p]
    OBVIOUS
  <2>2. rows[p] = (IF ix.named THEN <<a>> ELSE <<>>) \o <<b>>
    BY <1>4, <2>1
  <2>3. CASE ix.named
    <3>1. rows[p] = <<a>> \o <<b>> /\ w = 2
      BY <1>3, <2>2, <2>3
    <3>2. <<a>> \in Seq({a, b}) /\ <<b>> \in Seq({a, b})
      OBVIOUS
    <3>3. rows[p] \in Seq({a, b}) /\ Len(rows[p]) = 2 /\ rows[p][1] = a /\ rows[p][2] = b
      BY <3>1, <3>2
    <3> QED BY <2>1, <2>3, <3>1, <3>3 DEF IsList
  <2>4. CASE ~ix.named
    <3>1. rows[p] = << >> \o <<b>> /\ w = 1
      BY <1>3, <2>2, <2>4
    <3>2. << >> \in Seq({b}) /\ <<b>> \in Seq({b})
      OBVIOUS
    <3>3. rows[p] \in Seq({b}) /\ Len(rows[p]) = 1 /\ rows[p][1] = b
      BY <3>1, <3>2
    <3> QED BY <2>1, <2>4, <3>1, <3>3 DEF IsList
  <2> QED BY <1>2, <2>3, <2>4
<1>7. PICK c : c = FlattenSeq(rows) /\ IsList(c) /\ Even(c, rows, w, n)
  BY <1>1, <1>3, <1>4, <1>6, EvenList
<1>8. /\ IsList(kind) /\ IsList(schema) /\ Len(schema) = 1 /\ schema[1] = "SCHEMA"
      /\ ix.named => Len(kind) = 2 /\ kind[1] = "TYPE" /\ kind[2] = "HASH"
      /\ ~ix.named => Len(kind) = 0
  <2>1. << >> \in Seq({1}) /\ <<"TYPE", "HASH">> \in Seq({"TYPE", "HASH"}) /\ schema \in Seq({"SCHEMA"})
    OBVIOUS
  <2> QED BY <1>2, <2>1 DEF IsList
<1> HIDE DEF kind, schema
<1>9. PICK a, args : a = kind \o schema /\ args = a \o c
  OBVIOUS
<1>10. a = kind \o schema
  BY <1>9
<1>11. Laid(kind, schema, a)
  BY <1>8, <1>10, JoinedLaid
<1>12. IsList(a)
  BY <1>11 DEF Laid
<1>13. args = a \o c
  BY <1>9
<1>14. Laid(a, c, args)
  BY <1>7, <1>12, <1>13, JoinedLaid
<1>15. Len(c) = n * w /\ \A i \in 1..n : \A j \in 1..w : c[(i - 1) * w + j] = rows[i][j]
  BY <1>7 DEF Even
<1>16. AofCreate(ix, names).command = "IDX.CREATE" /\ AofCreate(ix, names).args = args /\ IsList(args)
  BY <1>5, <1>7, <1>9, <1>14 DEF Laid
<1>17. CASE ix.named
  <2>1. w = 2 /\ Len(a) = 3 /\ a[1] = "TYPE" /\ a[2] = "HASH" /\ a[3] = "SCHEMA"
    <3>1. Len(kind) = 2 /\ Len(schema) = 1 /\ 1 \in 1..1 /\ 1 \in 1..2 /\ 2 \in 1..2
      BY <1>8, <1>17
    <3>2. Len(a) = 2 + 1 /\ a[1] = kind[1] /\ a[2] = kind[2] /\ a[2 + 1] = schema[1]
      BY <1>11, <3>1 DEF Laid
    <3>3. 2 + 1 = 3
      OBVIOUS
    <3> QED BY <1>3, <1>8, <1>17, <3>2, <3>3
  <2>2. Len(args) = 3 + 2 * n /\ args[1] = "TYPE" /\ args[2] = "HASH" /\ args[3] = "SCHEMA"
    BY <1>1, <1>14, <1>15, <2>1 DEF Laid
  <2>3. ASSUME NEW p \in 1..n PROVE args[2 + 2 * p] = ix.props[p].name /\ args[3 + 2 * p] = names[p]
    <3>1. c[(p - 1) * 2 + 1] = rows[p][1] /\ c[(p - 1) * 2 + 2] = rows[p][2]
      BY <1>15, <2>1
    <3>2. PICK x, y : x = (p - 1) * 2 + 1 /\ y = (p - 1) * 2 + 2
      OBVIOUS
    <3>3. x \in 1..Len(c) /\ y \in 1..Len(c) /\ 3 + x = 2 + 2 * p /\ 3 + y = 3 + 2 * p
      BY <1>15, <2>1, <3>2
    <3>4. args[3 + x] = c[x] /\ args[3 + y] = c[y]
      BY <1>14, <2>1, <3>3 DEF Laid
    <3>5. c[x] = rows[p][1] /\ c[y] = rows[p][2]
      BY <3>1, <3>2
    <3>6. args[2 + 2 * p] = rows[p][1] /\ args[3 + 2 * p] = rows[p][2]
      BY <3>3, <3>4, <3>5
    <3>7. rows[p][1] = ix.props[p].name /\ rows[p][2] = names[p]
      BY <1>6, <1>17
    <3> QED BY <3>6, <3>7, Zenon
  <2>4. Written(args, ix, names)
    BY <1>1, <1>16, <1>17, <2>2, <2>3 DEF Written
  <2> QED BY <1>16, <2>4
<1>18. CASE ~ix.named
  <2>1. w = 1 /\ Len(a) = 1 /\ a[1] = "SCHEMA"
    <3>1. a[0 + 1] = "SCHEMA"
      BY <1>8, <1>11, <1>18 DEF Laid
    <3> QED BY <1>3, <1>8, <1>11, <1>18, <3>1 DEF Laid
  <2>2. Len(args) = 1 + n /\ args[1] = "SCHEMA"
    BY <1>1, <1>14, <1>15, <2>1 DEF Laid
  <2>3. ASSUME NEW p \in 1..n PROVE args[1 + p] = names[p]
    <3>1. (p - 1) * 1 + 1 = p /\ p \in 1..Len(c)
      BY <1>15, <2>1
    <3>2. c[p] = rows[p][1]
      BY <1>15, <2>1, <3>1
    <3>3. args[1 + p] = c[p]
      BY <1>14, <2>1, <3>1 DEF Laid
    <3> QED BY <1>6, <1>18, <3>2, <3>3
  <2>4. Written(args, ix, names)
    BY <1>1, <1>16, <1>18, <2>2, <2>3 DEF Written
  <2> QED BY <1>16, <2>4
<1> QED BY <1>2, <1>17, <1>18

RunnableInsert(c) ==
    /\ c.command = "IDX.INSERT" /\ IsList(c.texts)
    /\ \A i \in 1..Len(c.texts) : IsText(c.texts[i])

(* An IDX.INSERT of the rewrite has texts the server can read.             *)
LEMMA InsertRunnable ==
    ASSUME NEW ix, Schema(ix), Recorded(ix), NEW id \in DOMAIN ix.records
    PROVE  RunnableInsert(AofInsert(ix, id))
<1>1. PICK n \in Nat : n = Len(ix.props) /\ DOMAIN ix.props = 1..n
  BY DEF Schema, IsList
<1>2. PICK texts : texts = [i \in 1..n |-> Printed(ix.records[id][i])]
  OBVIOUS
<1>3. AofInsert(ix, id).command = "IDX.INSERT" /\ AofInsert(ix, id).texts = texts
  BY <1>1, <1>2 DEF AofInsert
<1>4. ASSUME NEW i \in 1..n PROVE IsText(texts[i])
  <2>1. Held(ix.records[id][i], ix.props[i].type) /\ ix.props[i].type \in TypeNames
    BY <1>1 DEF Schema, Property, Recorded, Row
  <2>2. IsText(Printed(ix.records[id][i]))
    BY <2>1, PrintedText
  <2> QED BY <1>2, <2>2
<1>5. texts \in Seq({texts[i] : i \in 1..n}) /\ Len(texts) = n
  <2>1. texts \in [1..n -> {texts[i] : i \in 1..n}]
    BY <1>2
  <2> QED BY <2>1, AsSequence
<1>6. IsList(texts)
  BY <1>5 DEF IsList
<1> QED BY <1>3, <1>4, <1>5, <1>6 DEF RunnableInsert

(* The commands of a rewrite, one by one. *)
RewriteOf(ix, names) == <<AofCreate(ix, names)>> \o AofInserts(ix)

OneByOne(s, ix, names, m) ==
    /\ IsList(s) /\ Len(s) = 1 + m /\ m \in Nat
    /\ s[1] = AofCreate(ix, names) /\ \A r \in 1..m : s[1 + r] = AofInsert(ix, Ids(ix)[r])

LEMMA RewriteIs ==
    ASSUME NEW ix, Schema(ix), Recorded(ix), NEW names, NEW m, m = Cardinality(DOMAIN ix.records),
           NEW s, s = RewriteOf(ix, names)
    PROVE  OneByOne(s, ix, names, m)
<1>1. m \in Nat /\ Ids(ix) \in [1..m -> DOMAIN ix.records]
  BY IdsAre DEF Recorded
<1>2. PICK c, a, b : c = AofCreate(ix, names) /\ a = <<c>> /\ b = AofInserts(ix)
  OBVIOUS
<1>3. DOMAIN b = 1..m /\ b = [r \in 1..m |-> b[r]]
      /\ \A r \in 1..m : b[r] = AofInsert(ix, Ids(ix)[r])
  BY <1>1, <1>2 DEF AofInserts
<1>4. b \in Seq({b[r] : r \in 1..m}) /\ Len(b) = m
  <2>1. b \in [1..m -> {b[r] : r \in 1..m}]
    BY <1>3
  <2> QED BY <1>1, <2>1, AsSequence
<1>5. IsList(a) /\ Len(a) = 1 /\ a[1] = c
  <2>1. a \in Seq({c}) /\ Len(a) = 1 /\ a[1] = c
    BY <1>2
  <2> QED BY <2>1 DEF IsList
<1>6. IsList(b) /\ s = a \o b
  BY <1>2, <1>4 DEF IsList, RewriteOf
<1>7. Laid(a, b, s)
  BY <1>5, <1>6, JoinedLaid
<1>8. /\ IsList(s) /\ Len(s) = 1 + m
      /\ s[1] = c /\ \A r \in 1..m : s[1 + r] = b[r]
  BY <1>4, <1>5, <1>7 DEF Laid
<1> QED BY <1>1, <1>2, <1>3, <1>8 DEF OneByOne

(* All commands of a rewrite can be run. *)
LEMMA RewriteRunnable ==
    ASSUME NEW ix, Schema(ix), Recorded(ix), NEW names
    PROVE  Runnable(RewriteOf(ix, names))
<1>1. PICK c, m, s : c = AofCreate(ix, names) /\ m = Cardinality(DOMAIN ix.records) /\ s = RewriteOf(ix, names)
  OBVIOUS
<1>2. /\ IsList(s) /\ Len(s) = 1 + m /\ m \in Nat /\ s[1] = c
      /\ \A r \in 1..m : s[1 + r] = AofInsert(ix, Ids(ix)[r])
  <2>1. OneByOne(s, ix, names, m)
    BY <1>1, RewriteIs
  <2> QED BY <1>1, <2>1 DEF OneByOne
<1>3. \A r \in 1..m : RunnableInsert(s[1 + r])
  <2>1. Ids(ix) \in [1..m -> DOMAIN ix.records]
    BY <1>1, IdsAre DEF Recorded
  <2> QED BY <1>2, <2>1, InsertRunnable
<1>4. c.command = "IDX.CREATE" /\ IsList(c.args)
  BY <1>1, CreateWritten DEF Written
<1>5. ASSUME NEW i \in 1..Len(s), i # 1 PROVE RunnableInsert(s[i])
  <2>1. PICK r \in 1..m : i = 1 + r
    <3>1. i - 1 \in 1..m /\ i = 1 + (i - 1)
      BY <1>2, <1>5
    <3> QED BY <3>1
  <2> QED BY <1>3, <2>1
<1>6. \A i \in 1..Len(s) : IF s[i].command = "IDX.CREATE" THEN IsList(s[i].args)
                            ELSE IsList(s[i].texts) /\ \A j \in 1..Len(s[i].texts) : IsText(s[i].texts[j])
  <2> SUFFICES ASSUME NEW i \in 1..Len(s)
               PROVE  IF s[i].command = "IDX.CREATE" THEN IsList(s[i].args)
                      ELSE IsList(s[i].texts) /\ \A j \in 1..Len(s[i].texts) : IsText(s[i].texts[j])
    OBVIOUS
  <2>1. CASE i = 1
    BY <1>2, <1>4, <2>1
  <2>2. CASE i # 1
    <3>1. RunnableInsert(s[i])
      BY <1>5, <2>2
    <3>2. s[i].command # "IDX.CREATE"
      BY <3>1 DEF RunnableInsert
    <3> QED BY <3>1, <3>2 DEF RunnableInsert
  <2> QED BY <2>1, <2>2
<1>7. Runnable(s)
  BY <1>2, <1>6 DEF Runnable
<1> QED BY <1>1, <1>7

-----------------------------------------------------------------------------
(* What the replay makes of an index of INT32: its properties and numbers  *)
(* as INT64, and nothing UNIQUE.                                           *)
Short(ix) == \A p \in DOMAIN ix.props : ix.props[p].type = "INT32" /\ ix.props[p].name # "UNIQUE"

Longs(ix) == [p \in DOMAIN ix.props |-> [name |-> ix.props[p].name, type |-> "INT64"]]

Long(ix) ==
    [kind |-> ix.kind, unique |-> FALSE, named |-> ix.named, props |-> Longs(ix),
     records |-> [id \in DOMAIN ix.records |-> [i \in DOMAIN ix.props |-> Value("INT64", ix.records[id][i].v)]]]

(* Where the words of the rewrite are found again.                         *)
WordsFound(args, ix) ==
    /\ ArgExists("UNIQUE", args, 1) = 0
    /\ ArgExists("TYPE", args, 1) = IF ix.named THEN 1 ELSE 0
    /\ ArgExists("SCHEMA", args, 1) = IF ix.named THEN 3 ELSE 1

LEMMA RewriteFound ==
    ASSUME NEW ix, Schema(ix), Short(ix), NEW names, \A p \in 1..Len(ix.props) : names[p] = "INT64",
           NEW args, Written(args, ix, names)
    PROVE  WordsFound(args, ix)
<1>1. PICK n \in Nat : n = Len(ix.props) /\ DOMAIN ix.props = 1..n
  BY DEF Schema, IsList
<1>2. IsList(args) /\ ix.named \in BOOLEAN
  BY DEF Written, Schema
<1>3. CASE ix.named
  <2>1. /\ Len(args) = 3 + 2 * n /\ args[1] = "TYPE" /\ args[2] = "HASH" /\ args[3] = "SCHEMA"
        /\ \A p \in 1..n : args[2 + 2 * p] = ix.props[p].name /\ args[3 + 2 * p] = "INT64"
    BY <1>1, <1>3 DEF Written
  <2>2. ASSUME NEW i \in 1..Len(args) PROVE args[i] # "UNIQUE"
    <3>1. i \in {1, 2, 3} \/ \E p \in 1..n : i = 2 + 2 * p \/ i = 3 + 2 * p
      <4>1. SUFFICES ASSUME i > 3 PROVE \E p \in 1..n : i = 2 + 2 * p \/ i = 3 + 2 * p
        BY <2>1
      <4>2. PICK p \in Int : i = 2 + 2 * p \/ i = 3 + 2 * p
        <5>1. i = 2 + 2 * ((i - 2) \div 2) \/ i = 3 + 2 * ((i - 2) \div 2)
          OBVIOUS
        <5> QED BY <5>1
      <4>3. p \in 1..n
        BY <2>1, <4>1, <4>2
      <4> QED BY <4>2, <4>3
    <3>2. \A p \in 1..n : ix.props[p].name # "UNIQUE"
      BY <1>1 DEF Short
    <3>3. CASE i \in {1, 2, 3}
      BY <2>1, <3>3
    <3>4. ASSUME NEW p \in 1..n, i = 2 + 2 * p \/ i = 3 + 2 * p PROVE args[i] # "UNIQUE"
      BY <2>1, <3>2, <3>4
    <3> QED BY <3>1, <3>3, <3>4
  <2>3. /\ ArgExists("UNIQUE", args, 1) \in 0..Len(args)
        /\ ArgExists("UNIQUE", args, 1) # 0 => args[ArgExists("UNIQUE", args, 1)] = "UNIQUE"
    BY <1>2, ArgExistsIs
  <2>4. ArgExists("UNIQUE", args, 1) = 0
    BY <2>2, <2>3
  <2>5. PICK t : t = ArgExists("TYPE", args, 1)
    OBVIOUS
  <2>6. /\ t \in 0..Len(args)
        /\ t = 0 => \A i \in 1..Len(args) : args[i] # "TYPE"
        /\ t # 0 => \A i \in 1..(t - 1) : args[i] # "TYPE"
    BY <1>2, <2>5, ArgExistsIs
  <2>7. t = 1
    <3>1. 1 \in 1..Len(args) /\ (t > 1 => 1 \in 1..(t - 1))
      BY <2>1, <2>6
    <3> QED BY <2>1, <2>6, <3>1
  <2>8. PICK s : s = ArgExists("SCHEMA", args, 1)
    OBVIOUS
  <2>9. /\ s \in 0..Len(args)
        /\ s = 0 => \A i \in 1..Len(args) : args[i] # "SCHEMA"
        /\ s # 0 => args[s] = "SCHEMA" /\ \A i \in 1..(s - 1) : args[i] # "SCHEMA"
    BY <1>2, <2>8, ArgExistsIs
  <2>10. s = 3
    <3>1. 3 \in 1..Len(args) /\ (s > 3 => 3 \in 1..(s - 1)) /\ s \notin {1, 2}
      BY <2>1, <2>9
    <3> QED BY <2>1, <2>9, <3>1
  <2> QED BY <1>3, <2>4, <2>5, <2>7, <2>8, <2>10 DEF WordsFound
<1>4. CASE ~ix.named
  <2>1. Len(args) = 1 + n /\ args[1] = "SCHEMA" /\ \A p \in 1..n : args[1 + p] = "INT64"
    BY <1>1, <1>4 DEF Written
  <2>2. ASSUME NEW i \in 1..Len(args) PROVE args[i] \in {"SCHEMA", "INT64"}
    <3>1. i = 1 \/ (i - 1 \in 1..n /\ 1 + (i - 1) = i)
      BY <2>1
    <3>2. CASE i # 1
      <4>1. args[1 + (i - 1)] = "INT64"
        BY <2>1, <3>1, <3>2
      <4> QED BY <3>1, <3>2, <4>1
    <3> QED BY <2>1, <3>2
  <2>3. ASSUME NEW word, word \notin {"SCHEMA", "INT64"} PROVE ArgExists(word, args, 1) = 0
    <3>1. /\ ArgExists(word, args, 1) \in 0..Len(args)
          /\ ArgExists(word, args, 1) # 0 => args[ArgExists(word, args, 1)] = word
      BY <1>2, ArgExistsIs
    <3> QED BY <2>2, <2>3, <3>1
  <2>4. ArgExists("UNIQUE", args, 1) = 0 /\ ArgExists("TYPE", args, 1) = 0
    BY <2>3
  <2>5. PICK s : s = ArgExists("SCHEMA", args, 1)
    OBVIOUS
  <2>6. /\ s \in 0..Len(args)
        /\ s = 0 => \A i \in 1..Len(args) : args[i] # "SCHEMA"
        /\ s # 0 => \A i \in 1..(s - 1) : args[i] # "SCHEMA"
    BY <1>2, <2>5, ArgExistsIs
  <2>7. s = 1
    <3>1. 1 \in 1..Len(args) /\ (s > 1 => 1 \in 1..(s - 1))
      BY <2>1, <2>6
    <3> QED BY <2>1, <2>6, <3>1
  <2> QED BY <1>4, <2>4, <2>5, <2>7 DEF WordsFound
<1> QED BY <1>2, <1>3, <1>4

(* Replayed on an empty key, the IDX.CREATE of the rewrite makes the index *)
(* without its records.                                                    *)
LEMMA RewriteParsed ==
    ASSUME NEW ix, Schema(ix), Short(ix), NEW names, \A p \in 1..Len(ix.props) : names[p] = "INT64",
           NEW args, Written(args, ix, names)
    PROVE  /\ Len(args) >= 2
           /\ ParseSpec(args) = [kind |-> ix.kind, unique |-> FALSE, named |-> ix.named,
                                 props |-> Longs(ix), records |-> <<>>]
<1>1. PICK n \in Nat \ {0} : n = Len(ix.props) /\ DOMAIN ix.props = 1..n
  BY DEF Schema, IsList
<1>2. /\ ix.named \in BOOLEAN /\ ix.kind = (IF ix.named THEN "SI_HashIndex" ELSE "SI_AbstractIndex")
      /\ \A p \in 1..n : ~ix.named => ix.props[p].name = ""
  BY <1>1 DEF Schema, Property
<1>3. PICK S : args \in Seq(S)
  BY DEF Written, IsList
<1>4. PICK q \in Nat \ {0} : q = IF ix.named THEN 3 ELSE 1
  OBVIOUS
<1>5. PICK l \in Nat \ {0} : l = IF ix.named THEN 2 * n ELSE n
  OBVIOUS
<1>6. Len(args) = q + l
  BY <1>1, <1>2, <1>4, <1>5 DEF Written
<1>18. WordsFound(args, ix)
  BY RewriteFound
<1>19. \A k \in Nat : (2 * k) \div 2 = k /\ (2 * k) % 2 = 0
  OBVIOUS
<1> DEFINE unique == ArgExists("UNIQUE", args, 1)
           type == ArgExists("TYPE", args, 1)
           named == type \in 1..(Len(args) - 1) /\ args[type + 1] = "HASH"
           schema == FindSchema(args, unique)
           words == SubSeq(args, schema + 1, Len(args))
           props == IF named THEN [p \in 1..(Len(words) \div 2) |-> [name |-> words[2 * p - 1], type |-> words[2 * p]]]
                             ELSE [p \in DOMAIN words |-> [name |-> "", type |-> words[p]]]
           jx == [kind |-> IF named THEN "SI_HashIndex" ELSE "SI_AbstractIndex",
                  unique |-> unique # 0, named |-> named, props |-> props, records |-> <<>>]
<1>7. unique = 0 /\ schema = q
  <2>1. unique = 0
    BY <1>18 DEF WordsFound
  <2>2. ArgExists("SCHEMA", args, 1) = q
    BY <1>4, <1>18 DEF WordsFound
  <2> HIDE DEF unique
  <2> QED BY <2>1, <2>2 DEF FindSchema
<1>8. named = ix.named
  <2>1. CASE ix.named
    <3>1. type = 1
      BY <1>18, <2>1 DEF WordsFound
    <3>2. args[2] = "HASH" /\ 1 \in 1..(Len(args) - 1) /\ 1 + 1 = 2
      BY <1>4, <1>5, <1>6, <2>1 DEF Written
    <3> HIDE DEF type
    <3> QED BY <2>1, <3>1, <3>2
  <2>2. CASE ~ix.named
    <3>1. ArgExists("TYPE", args, 1) = 0
      BY <1>18, <2>2 DEF WordsFound
    <3>2. type = 0 /\ ~(0 \in 1..(Len(args) - 1))
      <4>1. ~(0 \in 1..(Len(args) - 1))
        BY <1>6
      <4> QED BY <3>1, <4>1
    <3>3. ~named /\ named \in BOOLEAN
      <4> HIDE DEF type
      <4> QED BY <3>2
    <3> HIDE DEF named
    <3> QED BY <1>2, <2>2, <3>3
  <2> QED BY <1>2, <2>1, <2>2
<1>9. Len(words) = l /\ \A i \in 1..l : words[i] = args[q + i]
  <2>1. words = SubSeq(args, q + 1, q + l)
    <3> HIDE DEF schema
    <3> QED BY <1>6, <1>7
  <2>2. /\ Len(SubSeq(args, q + 1, q + l)) = l
        /\ \A i \in 1..l : SubSeq(args, q + 1, q + l)[i] = args[q + i]
    BY <1>3, <1>4, <1>5, <1>6
  <2> HIDE DEF words
  <2> QED BY <2>1, <2>2
<1>10. ParseSpec(args) =
          IF \/ schema \in {0, Len(args)} \/ (named /\ Len(words) % 2 # 0)
             \/ \E p \in DOMAIN props : props[p].type \notin TypeNames
          THEN NoIndex ELSE jx
  BY DEF ParseSpec
<1>11. DOMAIN words = 1..l
  <2>1. words \in Seq(S)
    <3>1. schema + 1 \in 1..(Len(args) + 1)
      <4> HIDE DEF schema
      <4> QED BY <1>4, <1>5, <1>6, <1>7
    <3> HIDE DEF schema
    <3> QED BY <1>3, <3>1
  <2> HIDE DEF words
  <2> QED BY <1>9, <2>1
<1> HIDE DEF unique, type, schema, named, words
<1>12. props = Longs(ix)
  <2>1. CASE ix.named
    <3>1. l = 2 * n /\ q = 3 /\ (2 * n) \div 2 = n
      BY <1>1, <1>4, <1>5, <1>19, <2>1
    <3>2. props = [p \in 1..n |-> [name |-> words[2 * p - 1], type |-> words[2 * p]]]
      BY <1>8, <1>9, <2>1, <3>1
    <3>3. ASSUME NEW p \in 1..n PROVE words[2 * p - 1] = ix.props[p].name /\ words[2 * p] = "INT64"
      <4>1. args[2 + 2 * p] = ix.props[p].name /\ args[3 + 2 * p] = "INT64"
        BY <1>1, <2>1 DEF Written
      <4>2. PICK x, y : x = 2 * p - 1 /\ y = 2 * p
        OBVIOUS
      <4>3. x \in 1..l /\ y \in 1..l /\ 2 + 2 * p = q + x /\ 3 + 2 * p = q + y
        BY <3>1, <4>2
      <4>4. words[x] = args[q + x] /\ words[y] = args[q + y]
        BY <1>9, <4>3
      <4> QED BY <4>1, <4>2, <4>3, <4>4
    <3>4. Longs(ix) = [p \in 1..n |-> [name |-> ix.props[p].name, type |-> "INT64"]]
      BY <1>1 DEF Longs
    <3> HIDE DEF props
    <3> QED BY <3>2, <3>3, <3>4
  <2>2. CASE ~ix.named
    <3>1. l = n /\ q = 1
      BY <1>4, <1>5, <2>2
    <3>2. props = [p \in 1..n |-> [name |-> "", type |-> words[p]]]
      BY <1>8, <1>11, <2>2, <3>1
    <3>3. ASSUME NEW p \in 1..n PROVE words[p] = "INT64" /\ ix.props[p].name = ""
      <4>1. args[1 + p] = "INT64"
        BY <1>1, <2>2 DEF Written
      <4>2. words[p] = args[q + p]
        BY <1>9, <3>1
      <4> QED BY <1>2, <2>2, <3>1, <4>1, <4>2
    <3>4. Longs(ix) = [p \in 1..n |-> [name |-> ix.props[p].name, type |-> "INT64"]]
      BY <1>1 DEF Longs
    <3> HIDE DEF props
    <3> QED BY <3>2, <3>3, <3>4
  <2> QED BY <1>2, <2>1, <2>2
<1> HIDE DEF props
<1>13. \A p \in DOMAIN props : props[p].type \in TypeNames
  BY <1>12, TypesAre DEF Longs
<1>14. schema \notin {0, Len(args)} /\ (named => Len(words) % 2 = 0)
  <2>1. schema \notin {0, Len(args)}
    BY <1>4, <1>5, <1>6, <1>7
  <2>2. (2 * n) % 2 = 0
    BY <1>1, <1>19
  <2> QED BY <1>5, <1>8, <1>9, <2>1, <2>2
<1>15. ParseSpec(args) = jx
  BY <1>10, <1>13, <1>14
<1>16. jx = [kind |-> ix.kind, unique |-> FALSE, named |-> ix.named, props |-> Longs(ix), records |-> <<>>]
  BY <1>2, <1>7, <1>8, <1>12
<1>17. Len(args) >= 2
  BY <1>4, <1>5, <1>6
<1> QED BY <1>15, <1>16, <1>17

(* A number printed from an INT32 is read as the same INT64.               *)
LEMMA NumberAgain ==
    ASSUME NEW v, Held(v, "INT32")
    PROVE  /\ Readable("INT64", Printed(v)) /\ Parsed("INT64", Printed(v)) = Value("INT64", v.v)
           /\ Held(Value("INT64", v.v), "INT64")
<1>1. v.v \in (-Int32Half)..(Int32Half - 1) /\ v.type = "INT32"
  BY DEF Held, Holdable, Value
<1>2. v.v \in (-Int64Half)..(Int64Half - 1)
  BY <1>1, ValuesAssumption
<1>3. Printed(v) = [form |-> "digits", v |-> v.v]
  BY <1>1 DEF Printed
<1>4. PICK text : text = Printed(v)
  OBVIOUS
<1>5. text.form = "digits" /\ text.v = v.v
  BY <1>3, <1>4
<1>6. Whole(text) = v.v
  BY <1>5 DEF Whole
<1>7. Readable("INT64", text)
  BY <1>2, <1>5, <1>6 DEF Readable, IntReadable, Fits
<1>8. Parsed("INT64", text) = Value("INT64", v.v)
  BY <1>6 DEF Parsed
<1>9. Held(Value("INT64", v.v), "INT64")
  BY <1>2 DEF Held, Holdable, Value
<1> QED BY <1>4, <1>7, <1>8, <1>9

LEMMA LongSound ==
    ASSUME NEW ix, Schema(ix), Recorded(ix), Short(ix)
    PROVE  Sound(Long(ix))
<1> DEFINE long(id) == [i \in DOMAIN ix.props |-> Value("INT64", ix.records[id][i].v)]
<1>1. PICK n \in Nat \ {0} : n = Len(ix.props) /\ DOMAIN ix.props = 1..n
  BY DEF Schema, IsList
<1>2. PICK jx, props, recs : /\ jx = Long(ix) /\ props = Longs(ix)
                             /\ recs = [id \in DOMAIN ix.records |-> long(id)]
  OBVIOUS
<1>3. jx = [kind |-> ix.kind, unique |-> FALSE, named |-> ix.named, props |-> props, records |-> recs]
  BY <1>2 DEF Long
<1>4. /\ DOMAIN props = 1..n /\ props = [p \in 1..n |-> props[p]]
      /\ \A p \in 1..n : props[p] = [name |-> ix.props[p].name, type |-> "INT64"]
  BY <1>1, <1>2 DEF Longs
<1>5. props \in Seq({props[p] : p \in 1..n}) /\ Len(props) = n /\ props # << >>
  <2>1. props \in [1..n -> {props[p] : p \in 1..n}]
    BY <1>4
  <2>2. props \in Seq({props[p] : p \in 1..n}) /\ Len(props) = n
    BY <2>1, AsSequence
  <2> QED BY <2>2
<1>6. ASSUME NEW p \in 1..n PROVE Property(props[p], ix.named)
  <2>1. ~ix.named => ix.props[p].name = ""
    BY <1>1 DEF Schema, Property
  <2>2. props[p] = [name |-> ix.props[p].name, type |-> "INT64"]
    BY <1>4
  <2>3. "INT64" \in TypeNames
    BY TypesAre
  <2>4. props[p].name = ix.props[p].name /\ props[p].type = "INT64"
    BY <2>2
  <2> QED BY <2>1, <2>2, <2>3, <2>4 DEF Property
<1>7. IsList(props)
  BY <1>5 DEF IsList
<1>8. Schema(jx)
  BY <1>3, <1>5, <1>6, <1>7 DEF Schema
<1>9. ASSUME NEW id \in DOMAIN ix.records PROVE Row(long(id), props)
  <2>1. PICK t : t = long(id)
    OBVIOUS
  <2>2. DOMAIN t = 1..n /\ t = [i \in 1..n |-> t[i]]
        /\ \A i \in 1..n : t[i] = Value("INT64", ix.records[id][i].v)
    BY <1>1, <2>1
  <2>3. t \in Seq({t[i] : i \in 1..n}) /\ Len(t) = n
    <3>1. t \in [1..n -> {t[i] : i \in 1..n}]
      BY <2>2
    <3> QED BY <3>1, AsSequence
  <2>4. ASSUME NEW i \in 1..n PROVE Held(t[i], props[i].type)
    <3>1. Held(ix.records[id][i], "INT32")
      BY <1>1 DEF Recorded, Row, Short
    <3>2. Held(Value("INT64", ix.records[id][i].v), "INT64")
      BY <3>1, NumberAgain
    <3>3. props[i].type = "INT64"
      BY <1>4
    <3> QED BY <2>2, <3>2, <3>3
  <2>5. IsList(t)
    BY <2>3 DEF IsList
  <2>6. Row(t, props)
    BY <1>5, <2>3, <2>4, <2>5 DEF Row
  <2> QED BY <2>1, <2>6
<1>10. DOMAIN recs = DOMAIN ix.records /\ recs = [id \in DOMAIN recs |-> recs[id]]
       /\ \A id \in DOMAIN recs : Row(recs[id], props)
  BY <1>2, <1>9
<1>11. Recorded(jx)
  BY <1>3, <1>10 DEF Recorded
<1>12. Sound(jx)
  BY <1>3, <1>8, <1>11 DEF Sound
<1> QED BY <1>2, <1>12

(* The first k commands of the rewrite, run on an empty key. *)
Partly(ix, k) == IF k = 0 THEN NoIndex ELSE FirstOf(Long(ix), Ids(ix), k - 1)

(* What a server that restarts from its AOF has still to run.              *)
Rewritten(commands, ix) ==
    \E names \in [DOMAIN ix.props -> TypeNames \cup {"garbage"}] :
        /\ \A p \in DOMAIN names : names[p] \in AofNames(ix.props[p].type)
        /\ commands = RewriteOf(ix, names)

Replayed(ix, commands, rest, now) ==
    \E k \in 0..Len(commands) :
        /\ Len(rest) = Len(commands) - k /\ \A i \in 1..Len(rest) : rest[i] = commands[k + i]
        /\ now = Partly(ix, k)

ReplayInv ==
    mode = "aof" =>
        /\ phase \in {"serving", "replaying", "restored"}
        /\ phase # "replaying" => replay = <<>>
        /\ IF saved = NoIndex THEN aof = <<>> ELSE Rewritten(aof, saved)
        /\ phase # "serving" /\ saved # NoIndex /\ Short(saved) => Replayed(saved, aof, replay, key)

(* The IDX.INSERT of the next id, run on what those before it made.        *)
LEMMA InsertAgain ==
    ASSUME NEW ix, Schema(ix), Recorded(ix), Short(ix),
           NEW m, m = Cardinality(DOMAIN ix.records), NEW r \in 1..m,
           NEW c, c = AofInsert(ix, Ids(ix)[r]), key = Partly(ix, r), Insert(c.id, c.texts)
    PROVE  key' = Partly(ix, r + 1)
<1>1. PICK n \in Nat : n = Len(ix.props) /\ DOMAIN ix.props = 1..n
  BY DEF Schema, IsList
<1>2. PICK ids, jx, id : ids = Ids(ix) /\ jx = Long(ix) /\ id = ids[r]
  OBVIOUS
<1>3. /\ m \in Nat /\ ids \in [1..m -> DOMAIN ix.records]
      /\ \A i, j \in 1..m : ids[i] = ids[j] => i = j
  BY <1>2, IdsAre DEF Recorded
<1>4. /\ Sound(jx) /\ DOMAIN jx.records = DOMAIN ix.records /\ jx.props = Longs(ix)
      /\ \A k \in DOMAIN ix.records :
            jx.records[k] = [i \in 1..n |-> Value("INT64", ix.records[k][i].v)]
  BY <1>1, <1>2, LongSound DEF Long
<1>5. key = FirstOf(jx, ids, r - 1) /\ Partly(ix, r + 1) = FirstOf(jx, ids, r)
  <2>1. r # 0 /\ r + 1 # 0 /\ (r + 1) - 1 = r
    BY <1>3
  <2> QED BY <1>2, <2>1 DEF Partly
<1>6. key.props = Longs(ix)
  BY <1>4, <1>5 DEF FirstOf
<1>7. PICK texts : texts = [i \in 1..n |-> Printed(ix.records[id][i])]
  OBVIOUS
<1>8. c.id = id /\ c.texts = texts
  BY <1>1, <1>2, <1>7 DEF AofInsert
<1>9. ASSUME NEW i \in 1..n
      PROVE  /\ key.props[i].type = "INT64" /\ Readable("INT64", texts[i])
             /\ Parsed("INT64", texts[i]) = Value("INT64", ix.records[id][i].v)
  <2>1. id \in DOMAIN ix.records
    BY <1>2, <1>3
  <2>2. Held(ix.records[id][i], "INT32")
    BY <1>1, <2>1 DEF Recorded, Row, Short
  <2>3. key.props[i].type = "INT64"
    BY <1>1, <1>6 DEF Longs
  <2>4. texts[i] = Printed(ix.records[id][i])
    BY <1>7
  <2> QED BY <2>2, <2>3, <2>4, NumberAgain
<1>10. DOMAIN texts = 1..n /\ Len(texts) = n /\ Len(key.props) = n
  <2>1. texts \in [1..n -> {texts[i] : i \in 1..n}]
    BY <1>7
  <2>2. Longs(ix) \in [1..n -> {Longs(ix)[i] : i \in 1..n}]
    BY <1>1 DEF Longs
  <2> QED BY <1>6, <2>1, <2>2, AsSequence
<1>11. ValuesTaken(texts)
  BY <1>9, <1>10 DEF ValuesTaken
<1>12. [i \in DOMAIN texts |-> Parsed(key.props[i].type, texts[i])] = jx.records[id]
  <2>1. jx.records[id] = [i \in 1..n |-> Value("INT64", ix.records[id][i].v)]
    <3>1. id \in DOMAIN ix.records
      BY <1>2, <1>3
    <3> QED BY <1>4, <3>1, Zenon
  <2> QED BY <1>9, <1>10, <2>1
<1>13. key # NoIndex
  <2>1. key.kind = ix.kind
    BY <1>2, <1>5 DEF FirstOf, Long
  <2> QED BY <2>1 DEF Schema, NoIndex
<1>14. key' = Applied(key, id, jx.records[id])
  BY <1>8, <1>11, <1>12, <1>13 DEF Insert
<1>15. PICK old : old = key
  OBVIOUS
<1>16. old = FirstOf(jx, ids, r - 1) /\ ids \in [1..m -> DOMAIN jx.records]
  BY <1>3, <1>4, <1>5, <1>15
<1>17. Applied(old, ids[r], jx.records[ids[r]]) = FirstOf(jx, ids, r)
  BY <1>3, <1>4, <1>16, NextAdded, SMTT(30)
<1> QED BY <1>2, <1>5, <1>14, <1>15, <1>17

-----------------------------------------------------------------------------
(* A command run on a sound index, or on none, leaves one.                 *)
LEMMA CreateSound ==
    ASSUME CommandsInv, NEW args, IsList(args), Create(args), key' # NoIndex
    PROVE  Sound(key')
<1>1. CASE Made(args)
  <2>1. key' = ParseSpec(args) /\ ParseSpec(args) # NoIndex
    BY <1>1 DEF Create, Made
  <2> QED BY <2>1, ParseSound
<1>2. CASE ~Made(args)
  BY <1>2 DEF Create, CommandsInv
<1> QED BY <1>1, <1>2

LEMMA InsertSound ==
    ASSUME CommandsInv, NEW id, NEW texts, IsList(texts), \A i \in 1..Len(texts) : IsText(texts[i]),
           Insert(id, texts), key' # NoIndex
    PROVE  Sound(key')
<1>1. PICK ix : ix = key
  OBVIOUS
<1>2. CASE ix # NoIndex /\ ValuesTaken(texts)
  <2>1. Sound(ix)
    BY <1>1, <1>2 DEF CommandsInv
  <2>2. PICK tuple : tuple = [i \in DOMAIN texts |-> Parsed(ix.props[i].type, texts[i])]
    OBVIOUS
  <2>3. key' = Applied(ix, id, tuple)
    BY <1>1, <1>2, <2>2 DEF Insert
  <2>4. Len(texts) <= Len(ix.props) /\ \A i \in DOMAIN texts : Readable(ix.props[i].type, texts[i])
    BY <1>1, <1>2 DEF ValuesTaken
  <2>5. Sound(Applied(ix, id, tuple))
    BY <2>1, <2>2, <2>4, InsertedSound
  <2> QED BY <2>3, <2>5
<1>3. CASE ~(ix # NoIndex /\ ValuesTaken(texts))
  <2>1. key' = key
    BY <1>1, <1>3 DEF Insert
  <2> QED BY <2>1 DEF CommandsInv
<1> QED BY <1>2, <1>3

(* A step that serves a command changes the index alone.                   *)
LEMMA Served ==
    ASSUME CommandsInv, Serve, UNCHANGED <<mode, dump, aof, saved>>, key' # NoIndex => Sound(key')
    PROVE  CommandsInv'
<1>1. mode' = mode /\ dump' = dump /\ aof' = aof /\ saved' = saved /\ replay' = replay /\ phase' = "serving"
  BY DEF Serve
<1>2. DumpRestores'
  BY <1>1 DEF DumpRestores
<1> QED BY <1>1, <1>2 DEF CommandsInv

(* A server starts with nothing, and every step keeps what it holds sound. *)
LEMMA CommandsInit == Init => CommandsInv
<1> SUFFICES ASSUME Init PROVE CommandsInv
  OBVIOUS
<1>1. IsList(<< >>) /\ Len(<< >>) = 0
  <2>1. << >> \in Seq({1}) /\ Len(<< >>) = 0
    OBVIOUS
  <2> QED BY <2>1 DEF IsList
<1>2. Runnable(<< >>)
  <2>1. \A i : i \notin 1..0
    OBVIOUS
  <2> QED BY <1>1, <2>1 DEF Runnable
<1>3. key = NoIndex /\ saved = NoIndex /\ dump = << >> /\ aof = << >> /\ replay = << >>
      /\ mode \in {"rdb", "aof"} /\ phase = "serving"
  BY DEF Init
<1>4. DumpRestores
  BY <1>3 DEF DumpRestores
<1> QED BY <1>2, <1>3, <1>4 DEF CommandsInv

LEMMA CommandsStep == CommandsInv /\ [Next]_vars => CommandsInv'
<1> SUFFICES ASSUME CommandsInv, [Next]_vars PROVE CommandsInv'
  OBVIOUS
<1>1. ASSUME CreateCommand PROVE CommandsInv'
  <2>1. PICK args \in Creates : Serve /\ Create(args)
    BY <1>1 DEF CreateCommand
  <2>2. IsList(args)
    BY CommandsAssumption DEF IsList
  <2>3. key' # NoIndex => Sound(key')
    BY <2>1, <2>2, CreateSound
  <2>4. UNCHANGED <<mode, dump, aof, saved>>
    BY <2>1 DEF Create
  <2> QED BY <2>1, <2>3, <2>4, Served
<1>2. ASSUME InsertCommand PROVE CommandsInv'
  <2>1. PICK id \in Id, texts \in Tuples : Serve /\ Insert(id, texts)
    BY <1>2 DEF InsertCommand
  <2>2. texts \in Seq(Text)
    BY CommandsAssumption
  <2>3. IsList(texts)
    BY <2>2 DEF IsList
  <2>4. \A i \in 1..Len(texts) : IsText(texts[i])
    <3>1. \A t \in Text : IsText(t)
      BY DEF Text, IsText
    <3>2. \A i \in 1..Len(texts) : texts[i] \in Text
      BY <2>2
    <3> QED BY <3>1, <3>2
  <2>5. key' # NoIndex => Sound(key')
    BY <2>1, <2>3, <2>4, InsertSound
  <2>6. UNCHANGED <<mode, dump, aof, saved>>
    BY <2>1 DEF Insert
  <2> QED BY <2>1, <2>5, <2>6, Served
<1>3. ASSUME DelCommand PROVE CommandsInv'
  <2>1. PICK ids \in SUBSET Id : Serve /\ Del(ids)
    BY <1>3 DEF DelCommand
  <2>2. UNCHANGED <<mode, dump, aof, saved>>
    BY <2>1 DEF Del
  <2>3. ASSUME key' # NoIndex PROVE Sound(key')
    <3>1. PICK ix : ix = key
      OBVIOUS
    <3>2. CASE ix = NoIndex
      BY <2>1, <2>3, <3>1, <3>2 DEF Del
    <3>3. CASE ix # NoIndex
      <4>1. Sound(ix)
        BY <3>1, <3>3 DEF CommandsInv
      <4>2. key' = [ix EXCEPT !.records = [i \in DOMAIN @ \ ids |-> @[i]]]
        BY <2>1, <3>1, <3>3 DEF Del
      <4> QED BY <4>1, <4>2, DeletedSound
    <3> QED BY <3>2, <3>3
  <2> QED BY <2>1, <2>2, <2>3, Served
<1>4. ASSUME Save PROVE CommandsInv'
  <2>1. /\ mode = "rdb" /\ key # NoIndex /\ dump' = Saved(key) /\ saved' = key /\ phase' = "serving"
        /\ \A id \in DOMAIN key.records : Holders(key, key.records[id]) = {id}
        /\ key' = key /\ mode' = mode /\ aof' = aof /\ replay' = replay
    BY <1>4 DEF Save
  <2>2. dump' = Saved(saved') /\ saved' # NoIndex
    BY <2>1
  <2>3. Sound(key') /\ Sound(saved')
    BY <2>1 DEF CommandsInv
  <2>4. DumpRestores'
    BY <2>1 DEF DumpRestores
  <2> QED BY <2>1, <2>2, <2>3, <2>4 DEF CommandsInv
<1>5. ASSUME Rewrite PROVE CommandsInv'
  <2>1. /\ mode = "aof" /\ key # NoIndex /\ saved' = key /\ phase' = "serving"
        /\ key' = key /\ mode' = mode /\ dump' = dump /\ replay' = replay
    BY <1>5 DEF Rewrite
  <2>2. PICK names : aof' = RewriteOf(key, names)
    BY <1>5 DEF Rewrite, RewriteOf
  <2>3. PICK ix : ix = key
    OBVIOUS
  <2>4. Sound(ix)
    BY <2>1, <2>3 DEF CommandsInv
  <2>5. Runnable(RewriteOf(ix, names))
    BY <2>4, RewriteRunnable DEF Sound
  <2>6. Runnable(aof') /\ Sound(key') /\ Sound(saved')
    BY <2>1, <2>2, <2>3, <2>4, <2>5
  <2>7. DumpRestores'
    BY <2>1 DEF DumpRestores
  <2> QED BY <2>1, <2>6, <2>7 DEF CommandsInv
<1>6. ASSUME RewriteDies PROVE CommandsInv'
  <2>1. phase' = "serving" /\ key' = key /\ mode' = mode /\ dump' = dump /\ aof' = aof
        /\ replay' = replay /\ saved' = saved
    BY <1>6 DEF RewriteDies
  <2>2. DumpRestores'
    BY <2>1 DEF DumpRestores
  <2> QED BY <2>1, <2>2 DEF CommandsInv
<1>7. ASSUME Restart PROVE CommandsInv'
  <2>1. /\ key' = IF dump = << >> THEN NoIndex ELSE Loaded(dump)
        /\ replay' = aof /\ mode' = mode /\ dump' = dump /\ aof' = aof /\ saved' = saved
    BY <1>7 DEF Restart
  <2>2. CASE mode = "rdb"
    <3>1. key' = saved
      <4>1. CASE saved = NoIndex
        BY <2>1, <2>2, <4>1 DEF CommandsInv
      <4>2. CASE saved # NoIndex
        <5>1. PICK ix : ix = saved
          OBVIOUS
        <5>2. Sound(ix) /\ dump = Saved(ix)
          BY <2>2, <4>2, <5>1 DEF CommandsInv
        <5>3. Saved(ix) # << >> /\ Loaded(Saved(ix)) = ix
          BY <5>2, LoadedSaved
        <5> QED BY <2>1, <5>1, <5>2, <5>3
      <4> QED BY <4>1, <4>2
    <3>2. key' # NoIndex => Sound(key')
      BY <3>1 DEF CommandsInv
    <3>3. DumpRestores'
      BY <2>1, <3>1 DEF DumpRestores
    <3> QED BY <2>1, <2>2, <3>2, <3>3 DEF CommandsInv
  <2>3. CASE mode # "rdb"
    <3>1. mode = "aof" /\ dump = << >>
      BY <2>3 DEF CommandsInv
    <3>2. key' = NoIndex
      BY <2>1, <3>1
    <3>3. DumpRestores'
      BY <2>1, <3>1 DEF DumpRestores
    <3> QED BY <2>1, <3>1, <3>2, <3>3 DEF CommandsInv
  <2> QED BY <2>2, <2>3
<1>8. ASSUME Replay PROVE CommandsInv'
  <2>1. replay # << >> /\ replay' = Tail(replay)
        /\ IF Head(replay).command = "IDX.CREATE" THEN Create(Head(replay).args)
           ELSE Insert(Head(replay).id, Head(replay).texts)
    BY <1>8 DEF Replay
  <2>2. UNCHANGED <<mode, dump, aof, saved>>
    BY <2>1 DEF Create, Insert
  <2>3. PICK cs : cs = replay
    OBVIOUS
  <2>4. Runnable(cs) /\ cs # << >>
    BY <2>1, <2>3 DEF CommandsInv
  <2>5. PICK S : cs \in Seq(S)
    BY <2>4 DEF Runnable, IsList
  <2>6. /\ Head(cs) = cs[1] /\ 1 \in 1..Len(cs) /\ Tail(cs) \in Seq(S) /\ Len(Tail(cs)) = Len(cs) - 1
        /\ \A i \in 1..Len(Tail(cs)) : i + 1 \in 1..Len(cs) /\ Tail(cs)[i] = cs[i + 1]
    BY <2>4, <2>5
  <2>7. Runnable(Tail(cs))
    BY <2>4, <2>6 DEF Runnable, IsList
  <2>8. PICK c : c = cs[1]
    OBVIOUS
  <2>9. IF c.command = "IDX.CREATE" THEN IsList(c.args)
        ELSE IsList(c.texts) /\ \A j \in 1..Len(c.texts) : IsText(c.texts[j])
    BY <2>4, <2>6, <2>8 DEF Runnable
  <2>10. ASSUME key' # NoIndex PROVE Sound(key')
    <3>1. CASE c.command = "IDX.CREATE"
      <4>1. IsList(c.args) /\ Create(c.args)
        BY <2>1, <2>3, <2>6, <2>8, <2>9, <3>1
      <4> QED BY <2>10, <4>1, CreateSound
    <3>2. CASE c.command # "IDX.CREATE"
      <4>1. Insert(c.id, c.texts)
        BY <2>1, <2>3, <2>6, <2>8, <3>2
      <4>2. IsList(c.texts) /\ \A j \in 1..Len(c.texts) : IsText(c.texts[j])
        BY <2>9, <3>2
      <4> QED BY <2>10, <4>1, <4>2, InsertSound
    <3> QED BY <3>1, <3>2
  <2>11. mode = "aof"
    BY <2>1 DEF CommandsInv
  <2>12. DumpRestores'
    BY <2>2, <2>11 DEF DumpRestores
  <2>13. Runnable(replay')
    BY <2>1, <2>3, <2>7
  <2> QED BY <2>2, <2>10, <2>11, <2>12, <2>13 DEF CommandsInv
<1>9. CASE UNCHANGED vars
  <2>1. key' = key /\ mode' = mode /\ dump' = dump /\ aof' = aof /\ replay' = replay /\ phase' = phase
        /\ saved' = saved
    BY <1>9 DEF vars
  <2>2. DumpRestores'
    BY <2>1 DEF DumpRestores, CommandsInv
  <2> QED BY <2>1, <2>2 DEF CommandsInv
<1> QED BY <1>1, <1>2, <1>3, <1>4, <1>5, <1>6, <1>7, <1>8, <1>9 DEF Next

-----------------------------------------------------------------------------
(* What a property holds is of its type and in its range.                  *)
LEMMA FitFromHeld ==
    ASSUME NEW type \in TypeNames, NEW v, Held(v, type)
    PROVE  v.type = type /\ InRange(v)
<1>1. Holdable(type, v.v) /\ v.type = type
  BY DEF Held, Value
<1>2. CASE type = "INT32"
  BY <1>1, <1>2 DEF Holdable, InRange, Fits
<1>3. CASE type \in {"INT64", "TIME"}
  BY <1>1, <1>3 DEF Holdable, InRange, Fits
<1>4. CASE type = "UINT"
  BY <1>1, <1>4 DEF Holdable, InRange
<1>5. CASE type = "BOOL"
  BY <1>1, <1>5 DEF Holdable, InRange
<1>6. CASE type = "FLOAT"
  BY <1>1, <1>6 DEF Holdable, InRange
<1>7. CASE type \in {"STRING", "DOUBLE"}
  BY <1>1, <1>7 DEF InRange
<1> QED BY <1>1, <1>2, <1>3, <1>4, <1>5, <1>6, <1>7, TypesAre

(* Whatever is sent, dumped, rewritten and replayed: each record of the    *)
(* index has one value per property, of its type and range, and under      *)
(* UNIQUE no other record equals it.                                       *)
THEOREM RecordsStayFit == Spec => []RecordsFit
<1>1. ASSUME CommandsInv PROVE RecordsFit
  <2> SUFFICES ASSUME key # NoIndex, NEW id \in DOMAIN key.records
               PROVE  /\ Len(key.records[id]) = Len(key.props)
                      /\ \A i \in DOMAIN key.records[id] : key.records[id][i].type = key.props[i].type
                                                           /\ InRange(key.records[id][i])
                      /\ key.unique => Holders(key, key.records[id]) = {id}
    BY DEF RecordsFit
  <2>1. PICK ix, tuple : ix = key /\ tuple = key.records[id]
    OBVIOUS
  <2>2. Sound(ix) /\ id \in DOMAIN ix.records /\ tuple = ix.records[id]
    BY <1>1, <2>1 DEF CommandsInv
  <2>3. Row(tuple, ix.props) /\ \A p \in 1..Len(ix.props) : ix.props[p].type \in TypeNames
    BY <2>2 DEF Sound, Recorded, Schema, Property
  <2>4. Len(tuple) = Len(ix.props) /\ DOMAIN tuple = 1..Len(ix.props)
    BY <2>3 DEF Row, IsList
  <2>5. \A i \in DOMAIN tuple : tuple[i].type = ix.props[i].type /\ InRange(tuple[i])
    <3> SUFFICES ASSUME NEW i \in 1..Len(ix.props)
                 PROVE  tuple[i].type = ix.props[i].type /\ InRange(tuple[i])
      BY <2>4
    <3>1. Held(tuple[i], ix.props[i].type) /\ ix.props[i].type \in TypeNames
      BY <2>3 DEF Row
    <3> QED BY <3>1, FitFromHeld
  <2>6. ix.unique => Holders(ix, tuple) = {id}
    BY <2>2 DEF Sound, Alone
  <2> QED BY <2>1, <2>4, <2>5, <2>6
<1> QED BY <1>1, CommandsInit, CommandsStep, PTL DEF Spec

(* A server that restarts from a dump has the index that was dumped.       *)
THEOREM DumpStaysExact == Spec => []DumpRestores
<1>1. CommandsInv => DumpRestores
  BY DEF CommandsInv
<1> QED BY <1>1, CommandsInit, CommandsStep, PTL DEF Spec

-----------------------------------------------------------------------------
(* A server that serves a command is done with its replay.                 *)
LEMMA ServedReplay ==
    ASSUME ReplayInv, Serve, UNCHANGED <<mode, dump, aof, saved>>
    PROVE  ReplayInv'
<1>1. mode' = mode /\ aof' = aof /\ saved' = saved /\ replay' = replay /\ phase' = "serving" /\ replay = << >>
  BY DEF Serve
<1> QED BY <1>1 DEF ReplayInv

(* The next command of a replay.                                           *)
LEMMA ReplayedOne ==
    ASSUME CommandsInv, ReplayInv, Replay, NEW ix, ix = saved, ix # NoIndex, Short(ix), phase # "serving",
           mode = "aof"
    PROVE  Replayed(ix, aof, replay', key')
<1>1. Schema(ix) /\ Recorded(ix)
  BY DEF CommandsInv, Sound
<1>2. PICK n \in Nat : n = Len(ix.props) /\ DOMAIN ix.props = 1..n
  BY <1>1 DEF Schema, IsList
<1>3. PICK s, rest, m : s = aof /\ rest = replay /\ m = Cardinality(DOMAIN ix.records)
  OBVIOUS
<1>4. PICK names : /\ \A p \in 1..n : names[p] \in AofNames(ix.props[p].type)
                   /\ s = RewriteOf(ix, names)
  <2>1. Rewritten(s, ix)
    BY <1>3 DEF ReplayInv
  <2> QED BY <1>2, <2>1 DEF Rewritten
<1>5. \A p \in 1..n : names[p] = "INT64"
  <2>1. AofNames("INT32") = {"INT64"}
    <3>1. TypeMask("INT32") = 2 /\ Len(Types) = 8 /\ Types[3] = "INT64"
      BY TypesAre DEF Types
    <3>2. TypeMask("INT32") < Len(Types) /\ TypeMask("INT32") + 1 = 3
      BY <3>1
    <3> QED BY <3>1, <3>2 DEF AofNames
  <2>2. \A p \in 1..n : ix.props[p].type = "INT32"
    BY <1>2 DEF Short
  <2> QED BY <1>4, <2>1, <2>2
<1>6. OneByOne(s, ix, names, m)
  <2>1. m = Cardinality(DOMAIN ix.records)
    BY <1>3
  <2> QED BY <1>1, <1>4, <2>1, RewriteIs
<1>7. PICK k \in 0..Len(s) : /\ Len(rest) = Len(s) - k /\ \A i \in 1..Len(rest) : rest[i] = s[k + i]
                             /\ key = Partly(ix, k)
  <2>1. Replayed(ix, s, rest, key)
    BY <1>3 DEF ReplayInv
  <2> QED BY <2>1 DEF Replayed
<1>8. /\ rest # << >> /\ replay' = Tail(rest)
      /\ IF Head(rest).command = "IDX.CREATE" THEN Create(Head(rest).args)
         ELSE Insert(Head(rest).id, Head(rest).texts)
  BY <1>3 DEF Replay
<1>9. PICK S : rest \in Seq(S)
  BY <1>3 DEF CommandsInv, Runnable, IsList
<1>10. /\ Len(rest) \in Nat \ {0} /\ Head(rest) = rest[1] /\ Len(Tail(rest)) = Len(rest) - 1
       /\ \A i \in 1..Len(Tail(rest)) : Tail(rest)[i] = rest[i + 1]
  BY <1>8, <1>9
<1>11. Len(s) = 1 + m /\ m \in Nat
  BY <1>6 DEF OneByOne
<1>12. k + 1 \in 0..Len(s) /\ Head(rest) = s[k + 1]
  BY <1>7, <1>10, <1>11
<1>13. /\ Len(Tail(rest)) = Len(s) - (k + 1)
       /\ \A i \in 1..Len(Tail(rest)) : Tail(rest)[i] = s[(k + 1) + i]
  <2>1. Len(Tail(rest)) = Len(s) - (k + 1)
    BY <1>7, <1>10, <1>11
  <2>2. ASSUME NEW i \in 1..Len(Tail(rest)) PROVE Tail(rest)[i] = s[(k + 1) + i]
    <3>1. Tail(rest)[i] = rest[i + 1]
      BY <1>10
    <3>2. i + 1 \in 1..Len(rest) /\ k + (i + 1) = (k + 1) + i
      BY <1>7, <1>10, <1>11
    <3>3. rest[i + 1] = s[k + (i + 1)]
      BY <1>7, <3>2
    <3> QED BY <3>1, <3>2, <3>3
  <2> QED BY <2>1, <2>2
<1>14. key' = Partly(ix, k + 1)
  <2>1. CASE k = 0
    <3>1. PICK args : args = AofCreate(ix, names).args
      OBVIOUS
    <3>2. Head(rest).command = "IDX.CREATE" /\ Head(rest).args = args /\ Written(args, ix, names)
      <4>1. Head(rest) = AofCreate(ix, names)
        BY <1>6, <1>12, <2>1 DEF OneByOne
      <4> QED BY <1>1, <3>1, <4>1, CreateWritten
    <3>3. PICK jx : jx = [kind |-> ix.kind, unique |-> FALSE, named |-> ix.named,
                          props |-> Longs(ix), records |-> <<>>]
      OBVIOUS
    <3>4. Len(args) >= 2 /\ ParseSpec(args) = jx
      <4>1. \A p \in 1..Len(ix.props) : names[p] = "INT64"
        BY <1>2, <1>5
      <4>2. /\ Len(args) >= 2
            /\ ParseSpec(args) = [kind |-> ix.kind, unique |-> FALSE, named |-> ix.named,
                                  props |-> Longs(ix), records |-> <<>>]
        BY <1>1, <3>2, <4>1, RewriteParsed
      <4> QED BY <3>3, <4>2
    <3>5. jx # NoIndex
      <4>1. jx.kind = ix.kind
        BY <3>3
      <4> QED BY <1>1, <4>1 DEF Schema, NoIndex
    <3>6. key = NoIndex
      BY <1>7, <2>1 DEF Partly
    <3>7. key' = jx
      BY <1>8, <3>2, <3>4, <3>5, <3>6 DEF Create, Made
    <3>8. Partly(ix, 1) = FirstOf(Long(ix), Ids(ix), 0)
      BY DEF Partly
    <3>9. FirstOf(Long(ix), Ids(ix), 0) = jx
      <4>1. {Ids(ix)[i] : i \in 1..0} = {}
        OBVIOUS
      <4>2. [id \in {} |-> Long(ix).records[id]] = << >>
        OBVIOUS
      <4>3. /\ Long(ix).kind = ix.kind /\ Long(ix).unique = FALSE /\ Long(ix).named = ix.named
            /\ Long(ix).props = Longs(ix)
        BY DEF Long
      <4> QED BY <3>3, <4>1, <4>2, <4>3 DEF FirstOf
    <3> QED BY <2>1, <3>7, <3>8, <3>9
  <2>2. CASE k # 0
    <3>1. PICK c : c = AofInsert(ix, Ids(ix)[k])
      OBVIOUS
    <3>2. k \in 1..m
      BY <1>11, <1>12, <2>2
    <3>3. Head(rest) = c
      <4>1. s[1 + k] = AofInsert(ix, Ids(ix)[k]) /\ 1 + k = k + 1
        BY <1>6, <3>2 DEF OneByOne
      <4> QED BY <1>12, <3>1, <4>1
    <3>4. c.command = "IDX.INSERT"
      BY <3>1 DEF AofInsert
    <3>5. Insert(c.id, c.texts)
      BY <1>8, <3>3, <3>4
    <3>6. m = Cardinality(DOMAIN ix.records) /\ key = Partly(ix, k)
      BY <1>3, <1>7
    <3> QED BY <1>1, <3>1, <3>2, <3>5, <3>6, InsertAgain
  <2> QED BY <2>1, <2>2
<1>15. Replayed(ix, s, Tail(rest), key')
  BY <1>12, <1>13, <1>14 DEF Replayed
<1> QED BY <1>3, <1>8, <1>15

LEMMA ReplayInit == Init => ReplayInv
BY DEF Init, ReplayInv

LEMMA ReplayStep == CommandsInv /\ ReplayInv /\ [Next]_vars => ReplayInv'
<1> SUFFICES ASSUME CommandsInv, ReplayInv, [Next]_vars PROVE ReplayInv'
  OBVIOUS
<1>1. ASSUME CreateCommand PROVE ReplayInv'
  BY <1>1, ServedReplay DEF CreateCommand, Create
<1>2. ASSUME InsertCommand PROVE ReplayInv'
  BY <1>2, ServedReplay DEF InsertCommand, Insert
<1>3. ASSUME DelCommand PROVE ReplayInv'
  BY <1>3, ServedReplay DEF DelCommand, Del
<1>4. ASSUME Save PROVE ReplayInv'
  BY <1>4 DEF Save, ReplayInv
<1>5. ASSUME Rewrite PROVE ReplayInv'
  <2>1. /\ key # NoIndex /\ saved' = key /\ phase' = "serving" /\ replay = << >>
        /\ mode' = mode /\ replay' = replay
    BY <1>5 DEF Rewrite
  <2>2. Rewritten(aof', saved')
    <3>1. PICK ix : ix = key
      OBVIOUS
    <3>2. PICK names \in [DOMAIN ix.props -> TypeNames \cup {"garbage"}] :
              /\ \A p \in DOMAIN names : names[p] \in AofNames(ix.props[p].type)
              /\ aof' = RewriteOf(ix, names)
      BY <1>5, <3>1 DEF Rewrite, RewriteOf
    <3>3. Rewritten(aof', ix)
      BY <3>2 DEF Rewritten
    <3> QED BY <2>1, <3>1, <3>3
  <2> QED BY <2>1, <2>2 DEF ReplayInv
<1>6. ASSUME RewriteDies PROVE ReplayInv'
  BY <1>6 DEF RewriteDies, ReplayInv
<1>7. ASSUME Restart PROVE ReplayInv'
  <2>1. SUFFICES ASSUME mode' = "aof" PROVE ReplayInv'
    BY DEF ReplayInv
  <2>2. /\ key' = (IF dump = << >> THEN NoIndex ELSE Loaded(dump)) /\ replay' = aof
        /\ phase' = (IF aof = << >> THEN "restored" ELSE "replaying")
        /\ mode' = mode /\ dump' = dump /\ aof' = aof /\ saved' = saved
    BY <1>7 DEF Restart
  <2>3. mode = "aof" /\ dump = << >>
    BY <2>1, <2>2 DEF CommandsInv
  <2>4. key' = NoIndex
    BY <2>2, <2>3
  <2>5. ASSUME NEW ix PROVE Replayed(ix, aof, aof, NoIndex)
    <3>1. Len(aof) \in Nat
      BY DEF CommandsInv, Runnable, IsList
    <3>2. 0 \in 0..Len(aof) /\ Len(aof) = Len(aof) - 0 /\ \A i \in 1..Len(aof) : aof[i] = aof[0 + i]
      BY <3>1
    <3>3. NoIndex = Partly(ix, 0)
      BY DEF Partly
    <3> QED BY <3>2, <3>3 DEF Replayed
  <2>6. Replayed(saved', aof', replay', key')
    BY <2>2, <2>4, <2>5
  <2> QED BY <2>2, <2>3, <2>6 DEF ReplayInv
<1>8. ASSUME Replay PROVE ReplayInv'
  <2>1. SUFFICES ASSUME mode' = "aof" PROVE ReplayInv'
    BY DEF ReplayInv
  <2>2. /\ replay # << >> /\ replay' = Tail(replay)
        /\ phase' = (IF Len(replay) = 1 THEN "restored" ELSE "replaying")
        /\ mode' = mode /\ aof' = aof /\ saved' = saved
    BY <1>8 DEF Replay, Create, Insert
  <2>3. phase = "replaying"
    BY <2>1, <2>2 DEF ReplayInv
  <2>4. phase' # "replaying" => replay' = << >>
    <3>1. PICK S, rest : rest = replay /\ rest \in Seq(S)
      BY DEF CommandsInv, Runnable, IsList
    <3>2. Len(rest) = 1 => Tail(rest) = << >>
      <4>1. rest # << >>
        BY <2>2, <3>1
      <4>2. PICK t : t = Tail(rest) /\ t \in Seq(S) /\ Len(t) = Len(rest) - 1
        <5>1. Tail(rest) \in Seq(S) /\ Len(Tail(rest)) = Len(rest) - 1
          BY <3>1, <4>1
        <5> QED BY <5>1
      <4>3. Len(t) = 0 => t = << >>
        BY EmptySeq
      <4>4. Len(rest) = 1 => Len(t) = 0
        BY <3>1, <4>2
      <4> QED BY <4>2, <4>3, <4>4
    <3> QED BY <2>2, <3>1, <3>2
  <2>5. ASSUME saved # NoIndex, Short(saved) PROVE Replayed(saved', aof', replay', key')
    <3>1. PICK ix : ix = saved
      OBVIOUS
    <3>2. Replayed(ix, aof, replay', key')
      BY <1>8, <2>1, <2>2, <2>3, <2>5, <3>1, ReplayedOne
    <3> QED BY <2>2, <3>1, <3>2
  <2> QED BY <2>1, <2>2, <2>4, <2>5 DEF ReplayInv
<1>9. CASE UNCHANGED vars
  BY <1>9 DEF vars, ReplayInv
<1> QED BY <1>1, <1>2, <1>3, <1>4, <1>5, <1>6, <1>7, <1>8, <1>9 DEF Next

(* After a restart from a rewritten AOF an index of INT32 properties has   *)
(* the records it had, as INT64, whatever the ids and the numbers.         *)
THEOREM RewriteStaysExact == Spec => []RewriteKeepsInt32
<1>1. ASSUME CommandsInv, ReplayInv PROVE RewriteKeepsInt32
  <2> SUFFICES ASSUME phase = "restored", mode = "aof", saved # NoIndex, Short(saved)
               PROVE  /\ key # NoIndex /\ key.kind = saved.kind
                      /\ [p \in DOMAIN key.props |-> key.props[p].name] =
                             [p \in DOMAIN saved.props |-> saved.props[p].name]
                      /\ key.records = [id \in DOMAIN saved.records |->
                             [i \in DOMAIN saved.props |-> Value("INT64", saved.records[id][i].v)]]
    BY DEF RewriteKeepsInt32, Short
  <2>1. PICK ix, now, s, rest, m : ix = saved /\ now = key /\ s = aof /\ rest = replay
                                   /\ m = Cardinality(DOMAIN ix.records)
    OBVIOUS
  <2>2. Schema(ix) /\ Recorded(ix)
    BY <1>1, <2>1 DEF CommandsInv, Sound
  <2>3. rest = << >> /\ Rewritten(s, ix) /\ Replayed(ix, s, rest, now)
    BY <1>1, <2>1 DEF ReplayInv
  <2>4. Len(s) = 1 + m /\ m \in Nat
    <3>1. PICK names : s = RewriteOf(ix, names)
      BY <2>3 DEF Rewritten
    <3>2. m = Cardinality(DOMAIN ix.records)
      BY <2>1
    <3>3. OneByOne(s, ix, names, m)
      BY <2>2, <3>1, <3>2, RewriteIs
    <3> QED BY <3>3 DEF OneByOne
  <2>5. now = FirstOf(Long(ix), Ids(ix), m)
    <3>1. PICK k \in 0..Len(s) : Len(rest) = Len(s) - k /\ now = Partly(ix, k)
      BY <2>3 DEF Replayed
    <3>2. k = 1 + m /\ k # 0 /\ k - 1 = m
      BY <2>3, <2>4, <3>1
    <3> QED BY <3>1, <3>2 DEF Partly
  <2>6. now = Long(ix)
    <3>1. PICK jx, ids : jx = Long(ix) /\ ids = Ids(ix)
      OBVIOUS
    <3>2. DOMAIN jx.records = DOMAIN ix.records
      BY <3>1 DEF Long
    <3>3. {ids[k] : k \in 1..m} = DOMAIN jx.records
      <4>1. ids \in [1..m -> DOMAIN ix.records] /\ \A id \in DOMAIN ix.records : \E i \in 1..m : ids[i] = id
        BY <2>1, <2>2, <3>1, IdsAre DEF Recorded
      <4> QED BY <3>2, <4>1
    <3>4. Schema(jx) /\ Recorded(jx)
      BY <2>1, <2>2, <3>1, LongSound DEF Sound
    <3>5. FirstOf(jx, ids, m) = jx
      BY <3>3, <3>4, AllOf
    <3> QED BY <2>5, <3>1, <3>5
  <2>7. /\ now.kind = ix.kind /\ now.props = Longs(ix)
        /\ now.records = [id \in DOMAIN ix.records |->
               [i \in DOMAIN ix.props |-> Value("INT64", ix.records[id][i].v)]]
    BY <2>6 DEF Long
  <2>8. now # NoIndex
    BY <2>2, <2>7 DEF Schema, NoIndex
  <2>9. [p \in DOMAIN now.props |-> now.props[p].name] = [p \in DOMAIN ix.props |-> ix.props[p].name]
    BY <2>7 DEF Longs
  <2> QED BY <2>1, <2>7, <2>8, <2>9
<1>2. Spec => [](CommandsInv /\ ReplayInv)
  BY CommandsInit, CommandsStep, ReplayInit, ReplayStep, PTL DEF Spec
<1> QED BY <1>1, <1>2, PTL

=============================================================================
