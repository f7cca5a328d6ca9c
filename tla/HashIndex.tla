------------------------------ MODULE HashIndex -----------------------------
(***************************************************************************)
(* Automatic indexing of redis hashes (src/hash_index.c and the commands   *)
(* IDX.FROM and IDX.INTO of src/module.c): a hash command is run for a key *)
(* named in it, or for each id of a cursor, and after each write the       *)
(* object is read back and its index record replaced.  The cursor stays    *)
(* open meanwhile: it points at a node of the list being written to.       *)
(*                                                                         *)
(* The index is that of CompoundIndex.tla, one change at a time.  A hash   *)
(* is what the index reads of it: the tuple of its indexed fields.         *)
(***************************************************************************)
EXTENDS CompoundIndex

CONSTANTS
    NoHash,         \* a key without a hash
    Unparsable,     \* a hash with a field that has no value of its type
    NoNode,         \* the NULL node pointer
    Plans           \* query plans: [ranges: sequence of [min, max], filter: tuples]

ASSUME HashAssumption ==
    /\ {NoHash, Unparsable} \cap Tuple = {} /\ NoHash # Unparsable
    /\ NoNode \notin Addr
    /\ "next" \notin Id /\ MaxChanges >= 1

(* The bounds of a range need not be tuples; what is above one that is not *)
(* below the minimum is not below it either, and so for the maximum.       *)
ASSUME PlansAssumption ==
    \A plan \in Plans :
        /\ Len(plan.ranges) \in Nat /\ DOMAIN plan.ranges = 1..Len(plan.ranges)
        /\ \A r \in DOMAIN plan.ranges : \A s, t \in Tuple :
              Lt(s, t) => /\ ~Lt(s, plan.ranges[r].min) => ~Lt(t, plan.ranges[r].min)
                          /\ ~Lt(plan.ranges[r].max, t) => ~Lt(plan.ranges[r].max, s)

VARIABLES
    hash,       \* the redis keyspace
    cmd,        \* the command in progress
    cursor,     \* its cursor: [range, node, val]; a node is known by its key's address
    visited,    \* the ids the command has been run for, in order
    expected,   \* history: the ids that matched when it began
    missed      \* history: ids whose last write did not reach the index

hvars == <<vars, hash, cmd, cursor, visited, expected, missed>>

Idle == [kind |-> "idle"]
NoCursor == [range |-> 1, node |-> NoNode, val |-> 1]

HashInit ==
    /\ Init
    /\ hash = [id \in Id |-> NoHash] /\ cmd = Idle /\ cursor = NoCursor
    /\ visited = <<>> /\ expected = {} /\ missed = {}
-----------------------------------------------------------------------------
(* The live cursor. *)
NodeAt(i) == IF i \in DOMAIN list THEN list[i].obj ELSE NoNode
Position(node) == CHOOSE i \in DOMAIN list : list[i].obj = node

(* Mutant of Clipped: the end of a range does not belong to it.            *)
MutantEndExcluded(i, rng) ==
    IF i \in DOMAIN list /\ Lt(mem[list[i].obj], rng.max) THEN NodeAt(i) ELSE NoNode

(* Node i, unless the range ends before it. *)
Clipped(i, rng) ==
    IF i \in DOMAIN list /\ ~Lt(rng.max, mem[list[i].obj]) THEN NodeAt(i) ELSE NoNode

(* skiplistIterateRange of the plan's r-th range. *)
Start(r, plan) ==
    LET from == {i \in DOMAIN list : ~Lt(mem[list[i].obj], plan.ranges[r].min)}
    IN  [range |-> r, val |-> 1,
         node |-> IF r \notin DOMAIN plan.ranges \/ from = {} THEN NoNode
                  ELSE Clipped(Min(from), plan.ranges[r])]

(* skiplistIterator_Next *)
Advanced ==
    LET i == Position(cursor.node)
    IN  IF cursor.val < Len(list[i].vals) THEN [cursor EXCEPT !.val = @ + 1]
        ELSE [cursor EXCEPT !.val = 1, !.node = Clipped(i + 1, cmd.plan.ranges[cursor.range])]

Scanning == cmd.kind = "where" /\ cmd.step = "next" /\ ~tainted

(* scan_next: ids the filter drops, and the end of a range. *)
SkipId ==
    /\ Scanning /\ cursor.node # NoNode /\ mem[cursor.node] \notin cmd.plan.filter
    /\ cursor' = Advanced
    /\ UNCHANGED <<vars, hash, cmd, visited, expected, missed>>

NextRange ==
    /\ Scanning /\ cursor.node = NoNode /\ cursor.range < Len(cmd.plan.ranges)
    /\ cursor' = Start(cursor.range + 1, cmd.plan)
    /\ UNCHANGED <<vars, hash, cmd, visited, expected, missed>>

CursorAtEnd == cursor.node = NoNode /\ cursor.range >= Len(cmd.plan.ranges)

(* A write has shortened the node under the cursor: the iterator is behind *)
(* the last value and scan_next returns NULL, which reads as the end.      *)
CursorBehind ==
    /\ cursor.node # NoNode /\ mem[cursor.node] \in cmd.plan.filter
    /\ cursor.val > Len(list[Position(cursor.node)].vals)

(* Mutant of CursorYields: the cursor has not moved on when the write      *)
(* begins.                                                                 *)
MutantCursorStays(id) ==
    /\ cursor.node # NoNode /\ mem[cursor.node] \in cmd.plan.filter
    /\ ~CursorBehind /\ id = list[Position(cursor.node)].vals[cursor.val]
    /\ cursor' = cursor

(* scan_next returns this id; the cursor has moved on by then. *)
CursorYields(id) ==
    /\ cursor.node # NoNode /\ mem[cursor.node] \in cmd.plan.filter
    /\ ~CursorBehind /\ id = list[Position(cursor.node)].vals[cursor.val]
    /\ cursor' = Advanced
-----------------------------------------------------------------------------
Matching(plan) ==
    {id \in DOMAIN ri :
        /\ mem[ri[id]] \in plan.filter
        /\ \E r \in DOMAIN plan.ranges : /\ ~Lt(mem[ri[id]], plan.ranges[r].min)
                                         /\ ~Lt(plan.ranges[r].max, mem[ri[id]])}

(* A command begins: IDX.INTO on named keys, IDX.INTO and IDX.FROM on a    *)
(* WHERE clause.  Bound: not on a program that has read freed memory.      *)
Begin(c, cur, ids) ==
    /\ cmd = Idle /\ ~tainted
    /\ cmd' = c /\ cursor' = cur /\ visited' = <<>> /\ expected' = ids
    /\ UNCHANGED <<vars, hash, missed>>

IntoKeys(write, ids) ==
    Begin([kind |-> "keys", write |-> write, step |-> "next", keys |-> ids, todo |-> ids],
          NoCursor, ToSet(ids))

Where(command, plan) ==
    Begin([kind |-> "where", write |-> command, step |-> "next", plan |-> plan],
          Start(1, plan), Matching(plan))

(* tx.ids: the next of the command's keys, or of the cursor. *)
NextId(id) ==
    /\ cmd.kind # "idle" /\ cmd.step = "next" /\ ~tainted
    /\ visited' = Append(visited, id)
    /\ \/ /\ cmd.kind = "keys" /\ cmd.todo # <<>> /\ id = Head(cmd.todo)
          /\ UNCHANGED cursor
       \/ cmd.kind = "where" /\ CursorYields(id)

Proceed(step) ==
    cmd' = IF cmd.kind = "keys" /\ step = "next" THEN [cmd EXCEPT !.step = step, !.todo = Tail(@)]
           ELSE [cmd EXCEPT !.step = step]

(* Mutant of Reindex: an id that is there already is left alone.           *)
MutantReindexOnce(id) ==
    /\ hash'[id] \in Tuple
    /\ Submit(<<AddChange(id, IF id \in DOMAIN ri THEN mem[ri[id]] ELSE hash'[id])>>)
    /\ Proceed(id) /\ UNCHANGED missed

(* reindexHashHandler: the hash is read back and its tuple put in the      *)
(* index...                                                                *)
Reindex(id) ==
    /\ hash'[id] \in Tuple
    /\ Submit(<<AddChange(id, hash'[id])>>)
    /\ Proceed(id) /\ UNCHANGED missed

(* Mutant of ReindexFails: the id is taken out of the index on the way     *)
(* out, and the command stops before Apply has returned.                   *)
MutantStopsBeforeApply(id) ==
    /\ hash'[id] \notin Tuple
    /\ cmd' = Idle /\ missed' = missed \cup {id}
    /\ Submit(<<DelChange(id)>>)

(* ... unless it is gone or has a field that cannot be parsed: the command *)
(* stops, the write stands.                                                *)
ReindexFails(id) ==
    /\ hash'[id] \notin Tuple
    /\ cmd' = Idle /\ missed' = missed \cup {id}
    /\ UNCHANGED vars

(* The hash after a write: HDEL can take a field (NULL in the tuple) or    *)
(* the last one, and does nothing to a key that is not there.              *)
Written(write, h) ==
    CASE write = "HSET" -> Tuple \cup {Unparsable}
      [] write = "HDEL" -> IF h = NoHash THEN {NoHash} ELSE Tuple \cup {Unparsable, NoHash}

(* HSET, HMSET, HINCRBY, HSETNX; HDEL *)
WriteHash(id) ==
    /\ NextId(id) /\ cmd.write \in {"HSET", "HDEL"}
    /\ \E h \in Written(cmd.write, hash[id]) : hash' = [hash EXCEPT ![id] = h]
    /\ Reindex(id) \/ ReindexFails(id)
    /\ UNCHANGED expected

(* DEL, run for every id with all the keys it names, and deleteHandler. *)
DeleteHash(id) ==
    LET gone == IF cmd.kind = "keys" THEN ToSet(cmd.keys) ELSE {id}
    IN  /\ NextId(id) /\ cmd.write = "DEL"
        /\ hash' = [x \in Id |-> IF x \in gone THEN NoHash ELSE hash[x]]
        /\ Submit(<<DelChange(id)>>)
        /\ Proceed(id) /\ UNCHANGED <<expected, missed>>

(* A read, or a write redis answers with an error (DEL has none): nothing  *)
(* changes, the command goes on.                                           *)
NoWrite(id) ==
    /\ NextId(id) /\ cmd.write # "DEL" /\ Proceed("next")
    /\ UNCHANGED <<vars, hash, expected, missed>>

(* One change of the handler's change set is applied. *)
ApplyChange ==
    /\ \E id \in Id : Apply(id)
    /\ UNCHANGED <<hash, cmd, cursor, visited, expected, missed>>

(* Apply has returned; a refused change is logged, the command goes on.    *)
Settle ==
    /\ cmd.kind # "idle" /\ cmd.step \in Id /\ cs = <<>>
    /\ missed' = IF rc = OK THEN missed \ {cmd.step} ELSE missed \cup {cmd.step}
    /\ Proceed("next")
    /\ UNCHANGED <<vars, hash, cursor, visited, expected>>

Finish ==
    /\ cmd.kind # "idle" /\ cmd.step = "next" /\ ~tainted
    /\ IF cmd.kind = "keys" THEN cmd.todo = <<>> ELSE CursorAtEnd \/ CursorBehind
    /\ cmd' = Idle
    /\ UNCHANGED <<vars, hash, cursor, visited, expected, missed>>

HashNext ==
    \/ \E write \in {"HSET", "HDEL", "DEL"}, id \in Id : IntoKeys(write, <<id>>)
    \/ \E id, jd \in Id : IntoKeys("DEL", <<id, jd>>)
    \/ \E command \in {"HSET", "HDEL", "DEL", "READ"}, plan \in Plans : Where(command, plan)
    \/ SkipId \/ NextRange
    \/ \E id \in Id : WriteHash(id) \/ DeleteHash(id) \/ NoWrite(id)
    \/ ApplyChange \/ Settle \/ Finish

HashSpec == HashInit /\ [][HashNext]_hvars
-----------------------------------------------------------------------------
Command ==
    [kind : {"idle"}]
        \cup [kind : {"keys"}, write : {"HSET", "HDEL", "DEL"}, step : {"next"} \cup Id,
              keys : Seq(Id), todo : Seq(Id)]
        \cup [kind : {"where"}, write : {"HSET", "HDEL", "DEL", "READ"},
              step : {"next"} \cup Id, plan : Plans]

HashTypeOK ==
    /\ hash \in [Id -> Tuple \cup {NoHash, Unparsable}]
    /\ cmd \in Command
    /\ cursor \in [range : Nat \ {0}, node : Addr \cup {NoNode}, val : Nat \ {0}]
    /\ visited \in Seq(Id) /\ expected \in SUBSET Id /\ missed \in SUBSET Id
    /\ cs # <<>> => cmd.kind # "idle" /\ cmd.step \in Id
    /\ cmd.kind = "keys" /\ cmd.step \in Id => cmd.todo # <<>> /\ Head(cmd.todo) = cmd.step

(* The cursor of a WHERE command points at a node of the list, although    *)
(* the command deletes and inserts nodes under it, until a key in use is   *)
(* freed; on a UNIQUE index, or when nothing is moved, at a value of it    *)
(* (skiplistIterator_Next, skiplistDelete).                                *)
CursorLive ==
    cmd.kind = "where" /\ ~tainted /\ cursor.node # NoNode =>
        \E i \in DOMAIN list :
            /\ list[i].obj = cursor.node
            /\ Unique \/ cmd.write \in {"READ", "DEL"} => cursor.val \in DOMAIN list[i].vals

(* docs/hash_indexes.md:22 "executed per matching id": a read, and a DEL,  *)
(* on a WHERE clause reach exactly the ids that matched at the start, once *)
(* each, although DEL takes away the node the cursor has just left.        *)
DeleteVisitsMatching ==
    cmd.kind = "where" /\ cmd.write \in {"READ", "DEL"} /\ ~tainted =>
        /\ IsInjective(visited) /\ ToSet(visited) \subseteq expected
        /\ CursorAtEnd => ToSet(visited) = expected

(* Whatever the write does to the tuples, a WHERE command over a UNIQUE    *)
(* index reaches every id that matched at the start: one it moves may come *)
(* twice, but none that is ahead of the cursor is passed over.             *)
WritesReachMatching ==
    cmd.kind = "where" /\ Unique /\ CursorAtEnd => expected \subseteq ToSet(visited)

(* Between writes the index holds the tuple of each hash, and no id        *)
(* without one, except for ids whose last write it missed and for keys a   *)
(* DEL in progress has yet to come to.                                     *)
IndexFollowsHashes ==
    (cmd.kind = "idle" \/ cmd.step = "next") /\ ~tainted =>
        \A id \in Id \ missed :
            IF hash[id] = NoHash
            THEN id \in DOMAIN ri =>
                     cmd.kind = "keys" /\ cmd.write = "DEL" /\ id \in ToSet(cmd.todo)
            ELSE id \in DOMAIN ri /\ mem[ri[id]] = hash[id]
=============================================================================
