---------------------------- MODULE Persistence -----------------------------
(***************************************************************************)
(* An index on its way through an RDB dump (src/index_type.c): RdbSave     *)
(* writes the number of records and then the records the traversal visits; *)
(* RdbLoad makes a new index, reads that number, and adds as many records  *)
(* again, one Apply each.  Redis saves and loads with no command in        *)
(* between.  The kind, the flags and the spec go through unchanged (they   *)
(* are constants here), and so does each value of a tuple: __readValue     *)
(* reads every type a record can hold the way __writeValue wrote it.       *)
(*                                                                         *)
(* Every step of the index here is a step of CompoundIndex.                *)
(***************************************************************************)
EXTENDS CompoundIndex

CONSTANT NoDump     \* nothing has been saved

(* What __redisIndex_SaveIndex writes. *)
Record == [id : Id, v : Tuple]
Dump == [elements : Nat, records : Seq(Record)]

ASSUME PersistenceAssumption == NoDump \notin Dump /\ MaxChanges >= 1

VARIABLES
    dump,   \* the RDB: the element count and the records after it
    saved,  \* history: the records the index held at the last save
    phase,  \* what redis is doing: "serve" commands, "save" or "load"
    walk,   \* the iterator of the save: a node, and how many of its values
            \* the iteration has counted off
    read    \* how many records the load has read

pvars == <<list, ri, mem, live, length, cs, rc, tainted, dropped,
           dump, saved, phase, walk, read>>

WalkStart == [node |-> 1, val |-> 1]

PInit ==
    /\ Init
    /\ dump = NoDump /\ saved = <<>> /\ phase = "serve" /\ walk = WalkStart /\ read = 0
-----------------------------------------------------------------------------
(* The commands: a change set applied, the key of the index deleted.       *)
Serve ==
    /\ phase = "serve"
    /\ Drop \/ \E n \in 1..MaxChanges : \E changes \in [1..n -> Change] : Submit(changes)
    /\ UNCHANGED <<dump, saved, phase, walk, read>>

(* A step of the compoundIndex_Apply a command or the load has called.     *)
Work ==
    /\ \E id \in Id : Apply(id)
    /\ UNCHANGED <<dump, saved, phase, walk, read>>

(* Mutant of BeginSave: the count is one short.                            *)
MutantCountsShort ==
    /\ phase = "serve" /\ cs = <<>> /\ ~tainted
    /\ phase' = "save" /\ walk' = WalkStart
    /\ dump' = [elements |-> length - 1, records |-> <<>>]
    /\ saved' = Records
    /\ UNCHANGED <<vars, read>>

(* RdbSave up to the traversal: kind, flags, spec and idx.Len.             *)
BeginSave ==
    /\ phase = "serve" /\ cs = <<>> /\ ~tainted
    /\ phase' = "save" /\ walk' = WalkStart
    /\ dump' = [elements |-> length, records |-> <<>>]
    /\ saved' = Records
    /\ UNCHANGED <<vars, read>>

(* skiplistIterator_Next: the next value of the node, or the next node.    *)
Onward ==
    IF walk.val < Len(list[walk.node].vals)
    THEN [walk EXCEPT !.val = @ + 1]
    ELSE [node |-> walk.node + 1, val |-> 1]

(* One round of the loop of compoundIndex_Traverse, with RdbVisitor for    *)
(* every value of the node, although the iterator comes back to the node   *)
(* for every value it holds.                                               *)
SaveNode ==
    LET node == list[walk.node]
    IN  /\ phase = "save" /\ walk.node \in DOMAIN list
        /\ dump' = [dump EXCEPT !.records =
                        @ \o [i \in DOMAIN node.vals |-> [id |-> node.vals[i], v |-> mem[node.obj]]]]
        /\ walk' = Onward
        /\ UNCHANGED <<vars, saved, phase, read>>

EndSave ==
    /\ phase = "save" /\ walk.node \notin DOMAIN list
    /\ phase' = "serve" /\ walk' = WalkStart
    /\ UNCHANGED <<vars, dump, saved, read>>

(* Redis drops the keys it has (RedisIndex_Free) and calls RdbLoad, which  *)
(* makes a new index.  A crash leads to the same state, except that        *)
(* nothing is freed before the memory of the process is gone.              *)
BeginLoad ==
    /\ phase = "serve" /\ dump # NoDump
    /\ Drop
    /\ phase' = "load" /\ read' = 0
    /\ UNCHANGED <<dump, saved, walk>>

(* Mutant of LoadRecord: v.len is not reset, so that from the second       *)
(* record on the vector is too long for the index.                         *)
MutantKeepsVector ==
    /\ phase = "load" /\ cs = <<>> /\ read < dump.elements
    /\ read' = read + 1
    /\ Submit(<<AddChange(dump.records[read'].id,
                          IF read = 0 THEN dump.records[read'].v ELSE BadValues)>>)
    /\ UNCHANGED <<dump, saved, phase, walk>>

(* One round of the loop of LoadIndex, which ignores what Apply returns.   *)
LoadRecord ==
    /\ phase = "load" /\ cs = <<>> /\ read < dump.elements
    /\ read' = read + 1
    /\ Submit(<<AddChange(dump.records[read'].id, dump.records[read'].v)>>)
    /\ UNCHANGED <<dump, saved, phase, walk>>

(* All elements are read. *)
Loaded == phase = "load" /\ cs = <<>> /\ read = dump.elements

EndLoad ==
    /\ Loaded
    /\ phase' = "serve" /\ read' = 0
    /\ UNCHANGED <<vars, dump, saved, walk>>

PNext ==
    \/ Serve \/ Work
    \/ BeginSave \/ SaveNode \/ EndSave
    \/ BeginLoad \/ LoadRecord \/ EndLoad

PSpec == PInit /\ [][PNext]_pvars
-----------------------------------------------------------------------------
PTypeOK ==
    /\ dump \in Dump \cup {NoDump}
    /\ saved \in PartialFn(Id, Tuple)
    /\ phase \in {"serve", "save", "load"}
    /\ walk \in [node : Nat \ {0}, val : Nat \ {0}]
    /\ read \in Nat

(* A UNIQUE index comes back from its dump with the records it was saved   *)
(* with, although nobody looks whether Apply refused one, and the load has *)
(* read the dump to its end: what follows in the file is the next key of   *)
(* the database (__redisIndex_SaveIndex and __redisIndex_LoadIndex).       *)
UniqueReloads ==
    Unique /\ Loaded => Records = saved /\ read = Len(dump.records)

=============================================================================
