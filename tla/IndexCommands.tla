---------------------------- MODULE IndexCommands ---------------------------
(***************************************************************************)
(* The commands on one index key (src/module.c), from the words the client *)
(* sends: IDX.CREATE with the schema it is given (SI_ParseSpec of          *)
(* src/index_type.c), IDX.INSERT and IDX.DEL; and what the server keeps    *)
(* of the key over a restart: an RDB dump of its spec and values, or the   *)
(* commands RedisIndex_AofRewrite emits, run again one by one.             *)
(*                                                                         *)
(* The index under a key is the map of records that SecondaryIndex         *)
(* promises.  Ids that share a tuple are not dumped here: how the dump     *)
(* loses them is in Persistence.                                           *)
(***************************************************************************)
EXTENDS Values, SequencesExt

CONSTANTS
    Id,             \* the ids given to IDX.INSERT
    Tuples,         \* the lists of values given to IDX.INSERT
    Creates         \* what may follow the key in IDX.CREATE

ASSUME CommandsAssumption ==
    /\ \A texts \in Tuples : texts \in Seq(Text)
    /\ \A args \in Creates : args \in Seq(STRING)

VARIABLES
    key,        \* NoIndex or [kind, unique, named, props, records]
    mode,       \* "rdb" or "aof": what this server restarts from
    dump,       \* the RDB dump, a sequence of fields, <<>> before the first
    aof,        \* the commands of the last AOF rewrite
    replay,     \* those a restarted server has still to run
    phase,      \* "serving", "replaying", "restored" (nothing served since)
    saved,      \* the index that was dumped or rewritten last (history)
    promised    \* the client has created the key as UNIQUE (history)

NoIndex == [kind |-> "none"]    \* the key is empty

vars == <<key, mode, dump, aof, replay, phase, saved, promised>>

Init ==
    /\ key = NoIndex
    /\ mode \in {"rdb", "aof"}
    /\ dump = <<>> /\ aof = <<>> /\ replay = <<>> /\ phase = "serving"
    /\ saved = NoIndex /\ promised = FALSE
-----------------------------------------------------------------------------
(* RMUtil_ArgExists: where a word is first found from a place on, or 0.    *)
(* Places count from the word after the key.                               *)
ArgExists(word, args, from) ==
    LET found == {i \in from..Len(args) : args[i] = word}
    IN  IF found = {} THEN 0 ELSE Min(found)

TypeNames == ToSet(Types)

(* Mutant of FindSchema: the word is searched for in front of UNIQUE too.  *)
(* It is only told apart by a schema that holds both.                      *)
MutantSchemaAfterUnique(args, unique) == ArgExists("SCHEMA", args, unique + 2)

FindSchema(args, unique) == ArgExists("SCHEMA", args, unique + 1)

(* SI_ParseSpec: a kind and a spec, or no index.                           *)
ParseSpec(args) ==
    LET unique == ArgExists("UNIQUE", args, 1)
        type == ArgExists("TYPE", args, 1)
        named == type \in 1..(Len(args) - 1) /\ args[type + 1] = "HASH"
        schema == FindSchema(args, unique)
        words == SubSeq(args, schema + 1, Len(args))
        props == IF named THEN [p \in 1..(Len(words) \div 2) |-> [name |-> words[2 * p - 1], type |-> words[2 * p]]]
                          ELSE [p \in DOMAIN words |-> [name |-> "", type |-> words[p]]]
    IN  IF \/ schema \in {0, Len(args)}
           \/ named /\ Len(words) % 2 # 0
           \/ \E p \in DOMAIN props : props[p].type \notin TypeNames
        THEN NoIndex
        ELSE [kind |-> IF named THEN "SI_HashIndex" ELSE "SI_AbstractIndex",
              unique |-> unique # 0, named |-> named, props |-> props, records |-> <<>>]

Made(args) == Len(args) >= 2 /\ ParseSpec(args) # NoIndex /\ key = NoIndex

(* CreateIndexCommand *)
Create(args) ==
    /\ key' = IF Made(args) THEN ParseSpec(args) ELSE key
    /\ UNCHANGED <<mode, dump, aof, saved>>
-----------------------------------------------------------------------------
SameTuple(t, u) == \A i \in DOMAIN t : SameValue(t[i], u[i])
Holders(index, tuple) == {id \in DOMAIN index.records : SameTuple(index.records[id], tuple)}
With(records, id, tuple) == [i \in DOMAIN records \cup {id} |-> IF i = id THEN tuple ELSE records[i]]

(* Mutant of Refuses: a tuple is only looked for under the same id.        *)
MutantOwnOnly(index, id, tuple) ==
    \/ Len(tuple) # Len(index.props)
    \/ index.unique /\ id \in Holders(index, tuple)

(* compoundIndex_Apply of one addition: when it fails, and the index after *)
(* it.  A UNIQUE index keeps the tuple an id already has, to the letter.   *)
Refuses(index, id, tuple) ==
    \/ Len(tuple) # Len(index.props)
    \/ index.unique /\ Holders(index, tuple) \ {id} # {}

Applied(index, id, tuple) ==
    IF \/ Refuses(index, id, tuple)
       \/ index.unique /\ id \in Holders(index, tuple)
    THEN index
    ELSE [index EXCEPT !.records = With(@, id, tuple)]

(* The loop of IndexAddCommand stops with an error at the first value too  *)
(* many or not readable.                                                   *)
ValuesTaken(texts) ==
    /\ Len(texts) <= Len(key.props)
    /\ \A i \in DOMAIN texts : Readable(key.props[i].type, texts[i])

(* IndexAddCommand *)
Insert(id, texts) ==
    LET tuple == [i \in DOMAIN texts |-> Parsed(key.props[i].type, texts[i])]
        taken == key # NoIndex /\ ValuesTaken(texts)
    IN  /\ key' = IF taken THEN Applied(key, id, tuple) ELSE key
        /\ UNCHANGED <<mode, dump, aof, saved>>

(* IndexDelCommand; an id that is not there changes nothing.               *)
Del(ids) ==
    /\ key' = IF key = NoIndex THEN key
              ELSE [key EXCEPT !.records = [i \in DOMAIN @ \ ids |-> @[i]]]
    /\ UNCHANGED <<mode, dump, aof, saved>>

Serve == replay = <<>> /\ phase' = "serving" /\ UNCHANGED replay

CreateCommand ==
    \E args \in Creates :
        /\ Serve /\ Create(args)
        /\ promised' = IF Made(args) THEN key'.unique ELSE promised
InsertCommand ==
    \E id \in Id, texts \in Tuples : Serve /\ Insert(id, texts) /\ UNCHANGED promised
DelCommand == \E ids \in SUBSET Id \ {{}} : Serve /\ Del(ids) /\ UNCHANGED promised
-----------------------------------------------------------------------------
(* RedisIndex_RdbSave writes fields one after the other, each as the kind  *)
(* the call that saves it has; RedisIndex_RdbLoad reads them back.         *)
Flags(index) == (IF index.named THEN 1 ELSE 0) + (IF index.unique THEN 2 ELSE 0)

(* __redisIndex_SaveSpec, __redisIndex_LoadSpec                            *)
SaveProperty(index, p) ==
    (IF index.named THEN <<[string |-> index.props[p].name]>> ELSE <<>>)
        \o <<[signed |-> TypeMask(index.props[p].type)], [signed |-> 0]>>

TypeOf(mask) == CHOOSE type \in TypeNames : TypeMask(type) = mask

NamedIn(fields) == fields[3].unsigned % 2 = 1
PropertyFields(named) == IF named THEN 3 ELSE 2

LoadProperty(fields, named, p) ==
    LET at == 4 + (p - 1) * PropertyFields(named)
    IN  IF named THEN [name |-> fields[at + 1].string, type |-> TypeOf(fields[at + 2].signed)]
                 ELSE [name |-> "", type |-> TypeOf(fields[at + 1].signed)]

LoadSpec(fields) ==
    [kind |-> IF fields[1].unsigned = 1 THEN "SI_HashIndex" ELSE "SI_AbstractIndex",
     unique |-> fields[3].unsigned >= 2, named |-> NamedIn(fields),
     props |-> [p \in 1..fields[4].unsigned |-> LoadProperty(fields, NamedIn(fields), p)],
     records |-> <<>>]

(* __writeValue, __readValue                                               *)
WriteValue(v) ==
    <<[unsigned |-> TypeMask(v.type)],
      CASE v.type = "STRING" -> [string |-> v.v]
        [] v.type \in {"INT32", "INT64", "TIME"} -> [signed |-> v.v]
        [] v.type \in {"UINT", "BOOL"} -> [unsigned |-> v.v]
        [] v.type \in {"FLOAT", "DOUBLE"} -> [double |-> v.v]>>

(* Mutant of ReadValue: every integer is read back as an int.              *)
MutantReadShort(mask, field) ==
    LET type == TypeOf(mask.unsigned)
    IN  Value(type, CASE type = "STRING" -> field.string
                      [] type \in {"INT32", "INT64", "TIME"} -> Signed(field.signed, Int32Half)
                      [] type \in {"UINT", "BOOL"} -> field.unsigned
                      [] type = "FLOAT" -> Coarse(field.double)
                      [] type = "DOUBLE" -> field.double)

ReadValue(mask, field) ==
    LET type == TypeOf(mask.unsigned)
    IN  Value(type, CASE type = "STRING" -> field.string
                      [] type = "INT32" -> Signed(field.signed, Int32Half)
                      [] type \in {"INT64", "TIME"} -> field.signed
                      [] type \in {"UINT", "BOOL"} -> field.unsigned
                      [] type = "FLOAT" -> Coarse(field.double)
                      [] type = "DOUBLE" -> field.double)

(* __redisIndex_RdbVisitor                                                 *)
SaveRecord(id, tuple) == <<[string |-> id]>> \o FlattenSeq([i \in DOMAIN tuple |-> WriteValue(tuple[i])])

Ids(index) == SetToSeq(DOMAIN index.records)

Saved(index) ==
    <<[unsigned |-> IF index.kind = "SI_HashIndex" THEN 1 ELSE 0], [unsigned |-> 0],
      [unsigned |-> Flags(index)], [unsigned |-> Len(index.props)]>>
        \o FlattenSeq([p \in DOMAIN index.props |-> SaveProperty(index, p)])
        \o <<[unsigned |-> Cardinality(DOMAIN index.records)]>>
        \o FlattenSeq([r \in DOMAIN Ids(index) |-> SaveRecord(Ids(index)[r], index.records[Ids(index)[r]])])

(* __redisIndex_LoadIndex: as many records as the dump counts, each added. *)
CountAt(fields) == 5 + fields[4].unsigned * PropertyFields(NamedIn(fields))
RecordAt(fields, r) == CountAt(fields) + (r - 1) * (1 + 2 * fields[4].unsigned) + 1
LoadTuple(fields, r) ==
    [i \in 1..fields[4].unsigned |->
        ReadValue(fields[RecordAt(fields, r) + 2 * i - 1], fields[RecordAt(fields, r) + 2 * i])]

Loaded(fields) ==
    LET load[r \in 0..fields[CountAt(fields)].unsigned] ==
            IF r = 0 THEN LoadSpec(fields)
            ELSE Applied(load[r - 1], fields[RecordAt(fields, r)].string, LoadTuple(fields, r))
    IN  load[fields[CountAt(fields)].unsigned]

(* RedisIndex_RdbSave *)
Save ==
    /\ mode = "rdb" /\ replay = <<>> /\ key # NoIndex
    /\ \A id \in DOMAIN key.records : Holders(key, key.records[id]) = {id}
    /\ dump' = Saved(key) /\ saved' = key
    /\ phase' = "serving"
    /\ UNCHANGED <<key, mode, aof, replay, promised>>
-----------------------------------------------------------------------------
(* RedisIndex_AofRewrite names a type by types[mask], where the names are  *)
(* counted one by one: past the names is a NULL that strlen is given, and  *)
(* past that memory that is no array of names.                             *)
AofNames(type) ==
    CASE TypeMask(type) < Len(Types) -> {Types[TypeMask(type) + 1]}
      [] TypeMask(type) = Len(Types) -> {}
      [] TypeMask(type) > Len(Types) -> {"garbage"}

(* Mutant of AofCreate: the kind is not written, only its properties.      *)
MutantNoKind(index, names) ==
    [command |-> "IDX.CREATE",
     args |-> <<"SCHEMA">>
                 \o FlattenSeq([p \in DOMAIN index.props |->
                        (IF index.named THEN <<index.props[p].name>> ELSE <<>>) \o <<names[p]>>])]

AofCreate(index, names) ==
    [command |-> "IDX.CREATE",
     args |-> (IF index.kind = "SI_HashIndex" THEN <<"TYPE", "HASH">> ELSE <<>>) \o <<"SCHEMA">>
                 \o FlattenSeq([p \in DOMAIN index.props |->
                        (IF index.named THEN <<index.props[p].name>> ELSE <<>>) \o <<names[p]>>])]

(* __redisIndex_AofVisitor *)
AofInsert(index, id) ==
    [command |-> "IDX.INSERT", id |-> id,
     texts |-> [i \in DOMAIN index.props |-> Printed(index.records[id][i])]]

AofInserts(index) ==
    [r \in DOMAIN Ids(index) |-> AofInsert(index, Ids(index)[r])]

(* RedisIndex_AofRewrite *)
Rewrite ==
    /\ mode = "aof" /\ replay = <<>> /\ key # NoIndex
    /\ \E names \in [DOMAIN key.props -> TypeNames \cup {"garbage"}] :
          /\ \A p \in DOMAIN names : names[p] \in AofNames(key.props[p].type)
          /\ aof' = <<AofCreate(key, names)>> \o AofInserts(key)
    /\ saved' = key /\ phase' = "serving"
    /\ UNCHANGED <<key, mode, dump, replay, promised>>

(* The process that rewrites the file dies on a type it has no name for;   *)
(* the server goes on with the file it has.                                *)
RewriteDies ==
    /\ mode = "aof" /\ replay = <<>> /\ key # NoIndex
    /\ \E p \in DOMAIN key.props : TypeMask(key.props[p].type) >= Len(Types)
    /\ phase' = "serving"
    /\ UNCHANGED <<key, mode, dump, aof, replay, saved, promised>>

(* The server stops, at any moment, and starts again.  No command of the   *)
(* module is propagated to the AOF, so it has only what was rewritten.     *)
Restart ==
    /\ key' = IF dump = <<>> THEN NoIndex ELSE Loaded(dump)
    /\ replay' = aof
    /\ phase' = IF aof = <<>> THEN "restored" ELSE "replaying"
    /\ promised' = (promised /\ saved # NoIndex)
    /\ UNCHANGED <<mode, dump, aof, saved>>

Replay ==
    /\ replay # <<>>
    /\ replay' = Tail(replay)
    /\ phase' = IF Len(replay) = 1 THEN "restored" ELSE "replaying"
    /\ IF Head(replay).command = "IDX.CREATE"
       THEN Create(Head(replay).args)
       ELSE Insert(Head(replay).id, Head(replay).texts)
    /\ UNCHANGED promised

Next ==
    \/ CreateCommand \/ InsertCommand \/ DelCommand
    \/ Save \/ Rewrite \/ RewriteDies \/ Restart \/ Replay

Spec == Init /\ [][Next]_vars
-----------------------------------------------------------------------------
(* Every record holds one value of each property, of its type and in its   *)
(* range, and a UNIQUE index one id per tuple as its comparators see it:   *)
(* commands, a dump and a replay all go through the same checks.           *)
InRange(v) ==
    CASE v.type = "INT32" -> Fits(v.v, Int32Half)
      [] v.type \in {"INT64", "TIME"} -> Fits(v.v, Int64Half)
      [] v.type = "UINT" -> v.v \in 0..(2 * Int64Half - 1)
      [] v.type = "BOOL" -> v.v \in {0, 1}
      [] v.type = "FLOAT" -> Coarse(v.v) = v.v
      [] OTHER -> TRUE

RecordsFit ==
    key # NoIndex =>
        \A id \in DOMAIN key.records :
            LET tuple == key.records[id]
            IN  /\ Len(tuple) = Len(key.props)
                /\ \A i \in DOMAIN tuple : tuple[i].type = key.props[i].type /\ InRange(tuple[i])
                /\ key.unique => Holders(key, tuple) = {id}

(* The form of docs/Commands.md: options, then SCHEMA and types, each with *)
(* a name in front when the index is named.                                *)
Options(args) == ToSet(SubSeq(args, 1, CHOOSE n \in 0..Len(args) : n = Len(args) \/ args[n + 1] = "SCHEMA"))
Words(args) == SubSeq(args, Cardinality(Options(args)) + 2, Len(args))

Meant(args) ==
    LET words == Words(args)
    IN  /\ Options(args) \in {{}, {"UNIQUE"}, {"TYPE", "HASH"}, {"TYPE", "HASH", "UNIQUE"}}
        /\ words # <<>>
        /\ "HASH" \in Options(args) => Len(words) % 2 = 0
        /\ \A i \in DOMAIN words : ("HASH" \in Options(args) => i % 2 = 0) => words[i] \in TypeNames

Means(args, index) ==
    /\ Meant(args)
    /\ index.named = ("HASH" \in Options(args))
    /\ index.unique = ("UNIQUE" \in Options(args))
    /\ Words(args) = FlattenSeq([p \in DOMAIN index.props |->
                        (IF index.named THEN <<index.props[p].name>> ELSE <<>>) \o <<index.props[p].type>>])

(* On an empty key IDX.CREATE makes the index its words mean, whatever its *)
(* properties are called, and no index of words that mean none; except     *)
(* that an index with a property called UNIQUE has to be UNIQUE itself.    *)
CreateExact ==
    key = NoIndex =>
        \A args \in Creates :
            LET nameOnly == "UNIQUE" \in ToSet(args) /\ ArgExists("UNIQUE", args, 1) > ArgExists("SCHEMA", args, 1)
            IN  /\ Made(args) => Means(args, ParseSpec(args))
                /\ Meant(args) /\ ~nameOnly => Made(args)

(* A server that restarts from a dump has the index that was dumped: what  *)
(* one call writes is what the next call reads.                            *)
DumpRestores == phase = "restored" /\ mode = "rdb" => key = saved

(* Of the types of a schema the rewrite keeps one: the records of an index *)
(* of INT32 properties come back from the AOF with the same numbers, as    *)
(* INT64.  A property that is called UNIQUE makes the replay refuse all.   *)
RewriteKeepsInt32 ==
    /\ phase = "restored" /\ mode = "aof" /\ saved # NoIndex
    /\ \A p \in DOMAIN saved.props : saved.props[p].type = "INT32" /\ saved.props[p].name # "UNIQUE"
    => /\ key # NoIndex /\ key.kind = saved.kind
       /\ [p \in DOMAIN key.props |-> key.props[p].name] = [p \in DOMAIN saved.props |-> saved.props[p].name]
       /\ key.records = [id \in DOMAIN saved.records |->
                            [i \in DOMAIN saved.props |-> Value("INT64", saved.records[id][i].v)]]

(* docs/Commands.md: "If UNIQUE is set, the index is considered a unique   *)
(* index, and can only hold one id per value tuple."                       *)
UniqueStays ==
    promised /\ key # NoIndex => \A id \in DOMAIN key.records : Holders(key, key.records[id]) = {id}
=============================================================================
