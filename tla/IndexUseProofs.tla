--------------------------- MODULE IndexUseProofs ----------------------------
(***************************************************************************)
(* What is built on the compound index.                                    *)
(*                                                                         *)
(* Hash commands (HashIndex.tla), for every set of ids, tuples and query   *)
(* plans: whatever commands run on hashes, the index underneath goes       *)
(* through steps of CompoundIndex only, so that its theorems hold inside   *)
(* every command; and it follows the hashes, except for the writes it is   *)
(* known to have missed.  Then the cursor of a command that writes to the  *)
(* UNIQUE index it is reading, for every plan whose ranges are intervals.  *)
(*                                                                         *)
(* Persistence (Persistence.tla): saving and loading takes a UNIQUE index  *)
(* through steps of CompoundIndex only, and an index of any size comes     *)
(* back from its dump as it was.                                           *)
(***************************************************************************)
EXTENDS HashIndex, Persistence, CompoundIndexProofs, WellFoundedInduction

(* What a handler submits for id is one change. *)
LEMMA OneChange ==
    ASSUME NEW change \in Change, Submit(<<change>>)
    PROVE  Next
<1>1. 1 \in 1..MaxChanges /\ <<change>> \in [1..1 -> Change]
  BY HashAssumption, IndexAssumption
<1> QED BY <1>1 DEF Next

(* A step of a hash command is a step of the index, or none. *)
LEMMA StepInside == [HashNext]_hvars => [Next]_vars
<1> SUFFICES ASSUME [HashNext]_hvars PROVE [Next]_vars
  OBVIOUS
<1>1. ASSUME NEW id \in Id, WriteHash(id) PROVE [Next]_vars
  <2>1. CASE Reindex(id)
    <3>1. PICK t \in Tuple : Submit(<<AddChange(id, t)>>)
      BY <2>1 DEF Reindex
    <3> QED BY <3>1, ChangeTyped, OneChange
  <2>2. CASE ReindexFails(id)
    BY <2>2 DEF ReindexFails
  <2> QED BY <1>1, <2>1, <2>2 DEF WriteHash
<1>2. ASSUME NEW id \in Id, DeleteHash(id) PROVE [Next]_vars
  BY <1>2, ChangeTyped, OneChange DEF DeleteHash
<1>3. ASSUME NEW id \in Id, NoWrite(id) PROVE [Next]_vars
  BY <1>3 DEF NoWrite
<1>4. ASSUME ApplyChange PROVE [Next]_vars
  BY <1>4 DEF ApplyChange, Next
<1>5. ASSUME SkipId \/ NextRange \/ Settle \/ Finish PROVE [Next]_vars
  BY <1>5 DEF SkipId, NextRange, Settle, Finish
<1>6. ASSUME NEW write, NEW ids, IntoKeys(write, ids) PROVE [Next]_vars
  BY <1>6 DEF IntoKeys, Begin
<1>7. ASSUME NEW command, NEW plan, Where(command, plan) PROVE [Next]_vars
  BY <1>7 DEF Where, Begin
<1>8. ASSUME UNCHANGED hvars PROVE [Next]_vars
  BY <1>8 DEF hvars
<1> QED BY <1>1, <1>2, <1>3, <1>4, <1>5, <1>6, <1>7, <1>8 DEF HashNext

(* The compound index inside the commands of a hash index behaves as       *)
(* CompoundIndex.tla says: reindexHashHandler and deleteHandler submit     *)
(* nothing but change sets it knows.                                       *)
THEOREM IndexInside == HashSpec => Spec
<1>1. HashInit => Init
  BY DEF HashInit
<1> QED BY <1>1, StepInside, PTL DEF HashSpec, Spec

LEMMA InvariantInside == HashSpec => []IInv
BY IndexInside, Invariant, PTL
-----------------------------------------------------------------------------
Cursors == [range : Nat \ {0}, node : Addr \cup {NoNode}, val : Nat \ {0}]

LEMMA ClippedTyped ==
    ASSUME TypeOK, NEW i, NEW rng
    PROVE  Clipped(i, rng) \in Addr \cup {NoNode}
<1>1. ASSUME i \in DOMAIN list PROVE list[i].obj \in Addr
  <2>1. list[i] \in Node
    BY <1>1 DEF TypeOK
  <2> QED BY <2>1 DEF Node
<1> QED BY <1>1 DEF Clipped, NodeAt

LEMMA StartTyped ==
    ASSUME TypeOK, NEW r \in Nat \ {0}, NEW plan
    PROVE  Start(r, plan) \in Cursors
BY ClippedTyped DEF Start, Cursors

LEMMA AdvancedTyped ==
    ASSUME TypeOK, HashTypeOK
    PROVE  Advanced \in Cursors
<1> cursor \in Cursors
  BY DEF HashTypeOK, Cursors
<1>1. [cursor EXCEPT !.val = @ + 1] \in Cursors
  BY DEF Cursors
<1>2. ASSUME NEW n \in Addr \cup {NoNode}
      PROVE  [cursor EXCEPT !.val = 1, !.node = n] \in Cursors
  <2>1. [cursor EXCEPT !.val = 1] \in Cursors
    BY DEF Cursors
  <2> QED BY <2>1 DEF Cursors
<1> QED BY <1>1, <1>2, ClippedTyped DEF Advanced

(* The command after Proceed, as long as it has one more key to give. *)
LEMMA ProceedTyped ==
    ASSUME cmd \in Command, cmd.kind # "idle", NEW step \in {"next"} \cup Id,
           cmd.kind = "keys" => cmd.todo # <<>>, Proceed(step)
    PROVE  cmd' \in Command /\ cmd'.kind = cmd.kind /\ cmd'.write = cmd.write /\ cmd'.step = step
<1>1. CASE cmd.kind = "keys"
  <2> cmd \in [kind : {"keys"}, write : {"HSET", "HDEL", "DEL"}, step : {"next"} \cup Id,
                keys : Seq(Id), todo : Seq(Id)]
    BY <1>1 DEF Command
  <2>1. cmd.todo # <<>> => Tail(cmd.todo) \in Seq(Id)
    OBVIOUS
  <2> QED BY <1>1, <2>1 DEF Proceed, Command
<1>2. CASE cmd.kind # "keys"
  <2> cmd \in [kind : {"where"}, write : {"HSET", "HDEL", "DEL", "READ"},
                step : {"next"} \cup Id, plan : Plans]
    BY <1>2 DEF Command
  <2> QED BY <1>2 DEF Proceed, Command
<1> QED BY <1>1, <1>2

(* A command gives an id only between writes. *)
LEMMA NextIdTyped ==
    ASSUME HashTypeOK, TypeOK, NEW id \in Id, NextId(id)
    PROVE  /\ cmd.kind # "idle" /\ cmd.step = "next" /\ cs = <<>>
           /\ cmd.kind = "keys" => cmd.todo # <<>> /\ id = Head(cmd.todo)
           /\ cursor' \in Cursors /\ visited' \in Seq(Id)
<1>1. cursor \in Cursors
  BY DEF HashTypeOK, Cursors
<1> QED BY <1>1, AdvancedTyped, HashAssumption DEF NextId, HashTypeOK, CursorYields

(* Commands as they begin. *)
LEMMA BeginTyped ==
    ASSUME HashTypeOK, NEW c \in Command, c.kind # "idle", c.step = "next",
           NEW cur \in Cursors, NEW ids \in SUBSET Id, Begin(c, cur, ids)
    PROVE  HashTypeOK'
<1>1. cs' = <<>>
  BY DEF Begin, HashTypeOK, Idle, vars
<1>2. cmd'.step \notin Id
  BY HashAssumption DEF Begin
<1> QED BY <1>1, <1>2, EmptySeq DEF Begin, HashTypeOK, Cursors, vars

(* Every step of a command keeps the types. *)
LEMMA NextHashTyped == HashTypeOK /\ TypeOK /\ [HashNext]_hvars => HashTypeOK'
<1> SUFFICES ASSUME HashTypeOK, TypeOK, [HashNext]_hvars PROVE HashTypeOK'
  OBVIOUS
<1>1. ASSUME NEW write \in {"HSET", "HDEL", "DEL"}, NEW ids \in Seq(Id), IntoKeys(write, ids)
      PROVE  HashTypeOK'
  <2> DEFINE c == [kind |-> "keys", write |-> write, step |-> "next", keys |-> ids, todo |-> ids]
  <2>1. c \in Command /\ c.kind # "idle" /\ c.step = "next"
    BY DEF Command
  <2>2. NoCursor \in Cursors /\ ToSet(ids) \in SUBSET Id
    BY DEF NoCursor, Cursors, ToSet
  <2> QED BY <1>1, <2>1, <2>2, BeginTyped DEF IntoKeys
<1>2. ASSUME NEW command \in {"HSET", "HDEL", "DEL", "READ"}, NEW plan \in Plans,
             Where(command, plan)
      PROVE  HashTypeOK'
  <2> DEFINE c == [kind |-> "where", write |-> command, step |-> "next", plan |-> plan]
  <2>1. c \in Command /\ c.kind # "idle" /\ c.step = "next"
    BY DEF Command
  <2>2. Matching(plan) \in SUBSET Id
    BY DEF Matching, TypeOK, PartialFn
  <2> QED BY <1>2, <2>1, <2>2, BeginTyped, StartTyped DEF Where
<1>3. ASSUME SkipId PROVE HashTypeOK'
  BY <1>3, AdvancedTyped DEF SkipId, HashTypeOK, vars, Cursors
<1>4. ASSUME NextRange PROVE HashTypeOK'
  <2>1. cursor.range + 1 \in Nat \ {0}
    BY DEF HashTypeOK
  <2> QED BY <1>4, <2>1, StartTyped DEF NextRange, HashTypeOK, vars, Cursors
<1>5. ASSUME NEW id \in Id, WriteHash(id) PROVE HashTypeOK'
  <2> USE <1>5 DEF WriteHash
  <2>1. /\ cmd.kind # "idle" /\ cmd.step = "next" /\ cs = <<>>
        /\ cmd.kind = "keys" => cmd.todo # <<>> /\ id = Head(cmd.todo)
        /\ cursor' \in Cursors /\ visited' \in Seq(Id)
    BY NextIdTyped
  <2>2. hash' \in [Id -> Tuple \cup {NoHash, Unparsable}] /\ expected' \in SUBSET Id
    BY DEF HashTypeOK, Written
  <2>3. CASE Reindex(id)
    <3>1. /\ cmd' \in Command /\ cmd'.kind = cmd.kind /\ cmd'.step = id
          /\ cmd.kind = "keys" => cmd'.todo = cmd.todo
      BY <2>1, <2>3, ProceedTyped, HashAssumption DEF Reindex, Proceed, HashTypeOK, Command
    <3> QED BY <2>1, <2>2, <2>3, <3>1 DEF Reindex, HashTypeOK, Cursors
  <2>4. CASE ReindexFails(id)
    BY <2>1, <2>2, <2>4 DEF ReindexFails, HashTypeOK, Idle, Command, Cursors, vars
  <2> QED BY <2>3, <2>4
<1>6. ASSUME NEW id \in Id, DeleteHash(id) PROVE HashTypeOK'
  <2> USE <1>6 DEF DeleteHash
  <2>1. /\ cmd.kind # "idle" /\ cmd.step = "next" /\ cs = <<>>
        /\ cmd.kind = "keys" => cmd.todo # <<>> /\ id = Head(cmd.todo)
        /\ cursor' \in Cursors /\ visited' \in Seq(Id)
    BY NextIdTyped
  <2>2. hash' \in [Id -> Tuple \cup {NoHash, Unparsable}] /\ expected' \in SUBSET Id /\ missed' \in SUBSET Id
    BY DEF HashTypeOK
  <2>3. /\ cmd' \in Command /\ cmd'.kind = cmd.kind /\ cmd'.step = id
        /\ cmd.kind = "keys" => cmd'.todo = cmd.todo
    BY <2>1, ProceedTyped, HashAssumption DEF Proceed, HashTypeOK, Command
  <2> QED BY <2>1, <2>2, <2>3 DEF HashTypeOK, Cursors
<1>7. ASSUME NEW id \in Id, NoWrite(id) PROVE HashTypeOK'
  <2> USE <1>7 DEF NoWrite
  <2>1. /\ cmd.kind # "idle" /\ cmd.step = "next" /\ cs = <<>>
        /\ cmd.kind = "keys" => cmd.todo # <<>> /\ id = Head(cmd.todo)
        /\ cursor' \in Cursors /\ visited' \in Seq(Id)
    BY NextIdTyped
  <2>2. cmd' \in Command /\ cmd'.step = "next"
    BY <2>1, ProceedTyped DEF HashTypeOK
  <2> QED BY <2>1, <2>2, HashAssumption DEF HashTypeOK, Cursors, vars
<1>8. ASSUME ApplyChange PROVE HashTypeOK'
  <2>1. cs # <<>>
    BY <1>8 DEF ApplyChange, Apply, AddRejected, DelRecord, DelMissing, AddUnchanged,
                AddDuplicate, AddNew, AddMove, Adding, Deleting
  <2> QED BY <1>8, <2>1 DEF ApplyChange, HashTypeOK
<1>9. ASSUME Settle PROVE HashTypeOK'
  <2>1. cmd.kind = "keys" => cmd.todo # <<>>
    BY <1>9 DEF Settle, HashTypeOK
  <2>2. cmd' \in Command /\ cmd'.step = "next"
    BY <1>9, <2>1, ProceedTyped DEF Settle, HashTypeOK
  <2>3. missed' \in SUBSET Id
    BY <1>9 DEF Settle, HashTypeOK
  <2> QED BY <1>9, <2>2, <2>3, HashAssumption DEF Settle, HashTypeOK, vars
<1>10. ASSUME Finish PROVE HashTypeOK'
  BY <1>10, HashAssumption DEF Finish, HashTypeOK, Idle, Command, vars
<1>11. ASSUME UNCHANGED hvars PROVE HashTypeOK'
  BY <1>11 DEF hvars, HashTypeOK, vars
<1>12. \A id, jd \in Id : <<id>> \in Seq(Id) /\ <<id, jd>> \in Seq(Id)
  OBVIOUS
<1> QED BY <1>1, <1>2, <1>3, <1>4, <1>5, <1>6, <1>7, <1>8, <1>9, <1>10, <1>11, <1>12 DEF HashNext

LEMMA InitHashTyped == HashInit => HashTypeOK
BY EmptySeq, HashAssumption DEF HashInit, Init, HashTypeOK, Command, Idle, NoCursor

(* Whatever commands run on the hashes, the state keeps its types, and a   *)
(* change is pending only for the id its command is at.                    *)
THEOREM HashTypeCorrect == HashSpec => []HashTypeOK
<1>1. IInv => TypeOK
  BY DEF IInv
<1> QED BY <1>1, InitHashTyped, NextHashTyped, InvariantInside, PTL DEF HashSpec
-----------------------------------------------------------------------------
(* The index holds of id what its hash says. *)
AsHashed(id) ==
    IF hash[id] = NoHash THEN id \notin DOMAIN Records
    ELSE id \in DOMAIN Records /\ Records[id] = hash[id]

At(id) == cmd.kind # "idle" /\ cmd.step = id
DelOfKeys == cmd.kind = "keys" /\ cmd.write = "DEL"
Doomed(id) == DelOfKeys /\ id \in ToSet(cmd.todo) /\ hash[id] = NoHash

(* The change on its way to the index is the one the hash calls for. *)
PendingRight ==
    cs # <<>> => /\ rc = OK /\ hash[cmd.step] # Unparsable
                 /\ cs = <<IF hash[cmd.step] = NoHash THEN DelChange(cmd.step)
                           ELSE AddChange(cmd.step, hash[cmd.step])>>

(* The keys a DEL has been run for are gone, and those before it as well. *)
DeletedGone ==
    DelOfKeys => /\ ToSet(cmd.todo) \subseteq ToSet(cmd.keys)
                 /\ \A id \in ToSet(cmd.keys) : id \in ToSet(cmd.todo) \/ hash[id] = NoHash
                 /\ cmd.step \in Id => hash[cmd.step] = NoHash

(* Every id is as its hash, or there is a reason why not. *)
Follows ==
    ~tainted =>
        /\ cmd.kind # "idle" /\ cmd.step \in Id /\ cs = <<>> /\ rc = OK => AsHashed(cmd.step)
        /\ \A id \in Id : id \in missed \/ At(id) \/ AsHashed(id) \/ Doomed(id)

FInv == PendingRight /\ DeletedGone /\ Follows

(* What the promise makes of the pending change.                           *)
LEMMA ApplyRight ==
    ASSUME PendingRight, cs # <<>>, cs' = <<>>, Promise!Next, UNCHANGED <<hash, cmd>>
    PROVE  /\ rc' = OK => AsHashed(cmd.step)'
           /\ \A id : id # cmd.step => (AsHashed(id) => AsHashed(id)')
<1> DEFINE s == cmd.step
           c == IF hash[s] = NoHash THEN DelChange(s) ELSE AddChange(s, hash[s])
<1>1. Head(cs) = c /\ rc = OK
  BY OneHead DEF PendingRight
<1> HIDE DEF c
<1> USE DEF Promise!NextChange, Promise!AddChange, Promise!DelChange, Promise!GiveUp,
            Promise!Done, AddChange, DelChange
<1>2. ASSUME NEW id \in Id, NEW t \in Tuple, Promise!Put(id, t)
      PROVE  /\ AsHashed(s)'
             /\ \A x : x # s => (AsHashed(x) => AsHashed(x)')
  <2>1. id = s /\ t = hash[s] /\ hash[s] # NoHash
    BY <1>1, <1>2 DEF c, Promise!Put
  <2>2. Records' = [i \in DOMAIN Records \cup {s} |-> IF i = s THEN hash[s] ELSE Records[i]]
    BY <1>2, <2>1 DEF Promise!Put
  <2> HIDE DEF s
  <2>3. s = s' /\ hash' = hash
    BY DEF s
  <2> QED BY <2>1, <2>2, <2>3 DEF AsHashed
<1>3. ASSUME NEW id \in Id, Promise!Drop(id)
      PROVE  /\ AsHashed(s)'
             /\ \A x : x # s => (AsHashed(x) => AsHashed(x)')
  <2>1. id = s /\ hash[s] = NoHash
    BY <1>1, <1>3 DEF c, Promise!Drop
  <2>2. Records' = [i \in DOMAIN Records \ {s} |-> Records[i]]
    BY <1>3, <2>1 DEF Promise!Drop
  <2> HIDE DEF s
  <2>3. s = s' /\ hash' = hash
    BY DEF s
  <2> QED BY <2>1, <2>2, <2>3 DEF AsHashed
<1>4. ASSUME NEW id \in Id, Promise!Reject(id) \/ \E t \in Tuple : Promise!Refuse(id, t)
      PROVE  rc' # OK /\ Records' = Records
  BY <1>4 DEF Promise!Reject, Promise!Refuse, Promise!ERROR, Promise!DUPLICATE_KEY, OK
<1>5. ~Promise!Begin /\ ~Promise!Clear
  BY DEF Promise!Begin, Promise!Clear
<1> QED BY <1>2, <1>3, <1>4, <1>5 DEF Promise!Next, AsHashed

LEMMA TodoLeft ==
    ASSUME NEW todo \in Seq(Id), todo # <<>>, NEW id \in ToSet(todo), id # Head(todo)
    PROVE  id \in ToSet(Tail(todo))
<1>1. PICK i \in DOMAIN todo : todo[i] = id
  BY DEF ToSet
<1>2. i \in 1..Len(todo) /\ i # 1
  BY <1>1
<1>3. i - 1 \in 1..Len(Tail(todo)) /\ Tail(todo)[i - 1] = id
  BY <1>1, <1>2
<1> QED BY <1>3 DEF ToSet

(* The shape of a command on named keys. *)
LEMMA KeysTyped ==
    ASSUME cmd \in Command, cmd.kind = "keys"
    PROVE  cmd \in [kind : {"keys"}, write : {"HSET", "HDEL", "DEL"}, step : {"next"} \cup Id,
                    keys : Seq(Id), todo : Seq(Id)]
BY DEF Command

(* Proceed takes the key it is at off the keys to come, if it goes back to *)
(* "next", and leaves the rest of the command alone.                       *)
LEMMA ProceedKeeps ==
    ASSUME HashTypeOK, NEW step \in {"next"} \cup Id, cmd.kind # "idle", Proceed(step),
           cmd.kind = "keys" => cmd.todo # <<>>
    PROVE  /\ cmd'.step = step /\ cmd'.kind = cmd.kind /\ cmd'.write = cmd.write
           /\ cmd.kind = "keys" =>
                /\ cmd'.keys = cmd.keys
                /\ step # "next" => cmd'.todo = cmd.todo
                /\ step = "next" =>
                     /\ ToSet(cmd'.todo) \subseteq ToSet(cmd.todo)
                     /\ \A id \in ToSet(cmd.todo) : id # Head(cmd.todo) => id \in ToSet(cmd'.todo)
<1>1. cmd'.step = step /\ cmd'.kind = cmd.kind /\ cmd'.write = cmd.write
  BY ProceedTyped DEF HashTypeOK
<1>2. ASSUME cmd.kind = "keys"
      PROVE  /\ cmd'.keys = cmd.keys
             /\ step # "next" => cmd'.todo = cmd.todo
             /\ step = "next" => cmd'.todo = Tail(cmd.todo)
  BY <1>2, KeysTyped DEF HashTypeOK, Proceed
<1>3. cmd.kind = "keys" => cmd.todo \in Seq(Id)
  BY KeysTyped DEF HashTypeOK
<1>4. ASSUME NEW todo \in Seq(Id), todo # <<>> PROVE ToSet(Tail(todo)) \subseteq ToSet(todo)
  <2>1. \A i \in DOMAIN Tail(todo) : i + 1 \in DOMAIN todo /\ Tail(todo)[i] = todo[i + 1]
    BY <1>4
  <2> QED BY <2>1 DEF ToSet
<1> QED BY <1>1, <1>2, <1>3, <1>4, TodoLeft

(* A write begins: the change that is submitted is the one its hash calls  *)
(* for, the other ids are as they were.                                    *)
LEMMA WriteFollows ==
    ASSUME HashTypeOK, TypeOK, FInv, NEW id \in Id, WriteHash(id)
    PROVE  FInv'
<1>1. /\ cmd.kind # "idle" /\ cmd.step = "next" /\ cs = <<>>
      /\ cmd.kind = "keys" => cmd.todo # <<>> /\ id = Head(cmd.todo)
  BY NextIdTyped DEF WriteHash
<1>2. \A x \in Id : x # id => hash'[x] = hash[x]
  BY DEF WriteHash, HashTypeOK
<1>3. cmd.write # "DEL" /\ ~DelOfKeys
  BY DEF WriteHash, DelOfKeys
<1>4. CASE Reindex(id)
  <2>1. cmd'.step = id /\ cmd'.kind = cmd.kind /\ cmd'.write = cmd.write
    BY <1>1, <1>4, ProceedKeeps DEF Reindex
  <2>2. cs' = <<AddChange(id, hash'[id])>> /\ rc' = OK /\ Records' = Records /\ tainted' = tainted
    BY <1>4 DEF Reindex, Submit, index, Records
  <2>3. PendingRight'
    BY <1>4, <2>1, <2>2, HashAssumption DEF Reindex, PendingRight
  <2>4. ASSUME ~tainted', NEW x \in Id PROVE x \in missed' \/ At(x)' \/ AsHashed(x)'
    <3>1. CASE x = id
      BY <1>1, <2>1, <3>1 DEF At
    <3>2. CASE x # id
      <4>1. x \in missed \/ AsHashed(x)
        BY <1>1, <1>3, <2>2, <2>4, HashAssumption DEF FInv, Follows, At, Doomed
      <4> QED BY <1>2, <1>4, <2>2, <3>2, <4>1 DEF Reindex, AsHashed
    <3> QED BY <3>1, <3>2
  <2>5. ~DelOfKeys' /\ cs' # <<>>
    BY <1>3, <2>1, <2>2 DEF DelOfKeys
  <2> QED BY <2>3, <2>4, <2>5 DEF FInv, Follows, DeletedGone
<1>5. CASE ReindexFails(id)
  <2>1. cmd' = Idle /\ missed' = missed \cup {id} /\ cs' = cs /\ Records' = Records /\ tainted' = tainted
    BY <1>5 DEF ReindexFails, vars, Records
  <2>2. ASSUME ~tainted', NEW x \in Id PROVE x \in missed' \/ AsHashed(x)'
    <3>1. x # id => x \in missed \/ AsHashed(x)
      BY <1>1, <1>3, <2>1, <2>2, HashAssumption DEF FInv, Follows, At, Doomed
    <3> QED BY <1>2, <2>1, <3>1 DEF AsHashed
  <2>3. cmd'.kind = "idle"
    BY <2>1 DEF Idle
  <2> QED BY <1>1, <2>1, <2>2, <2>3 DEF FInv, Follows, PendingRight, DeletedGone, DelOfKeys
<1> QED BY <1>4, <1>5 DEF WriteHash

(* A DEL begins: the hashes of all its keys go at once, the index is told  *)
(* of one.                                                                 *)
LEMMA DeleteFollows ==
    ASSUME HashTypeOK, TypeOK, FInv, NEW id \in Id, DeleteHash(id)
    PROVE  FInv'
<1>1. /\ cmd.kind # "idle" /\ cmd.step = "next" /\ cs = <<>>
      /\ cmd.kind = "keys" => cmd.todo # <<>> /\ id = Head(cmd.todo)
  BY NextIdTyped DEF DeleteHash
<1>2. /\ cmd'.step = id /\ cmd'.kind = cmd.kind /\ cmd'.write = cmd.write
      /\ cmd.kind = "keys" => cmd'.keys = cmd.keys /\ cmd'.todo = cmd.todo
  BY <1>1, ProceedKeeps, HashAssumption DEF DeleteHash
<1>3. cs' = <<DelChange(id)>> /\ rc' = OK /\ Records' = Records /\ tainted' = tainted /\ missed' = missed
  BY DEF DeleteHash, Submit, index, Records
<1>4. hash' = [x \in Id |-> IF x \in (IF cmd.kind = "keys" THEN ToSet(cmd.keys) ELSE {id})
                            THEN NoHash ELSE hash[x]]
  BY DEF DeleteHash
<1>5. hash'[id] = NoHash
  <2>1. ASSUME cmd.kind = "keys" PROVE id \in ToSet(cmd.keys)
    <3>1. cmd.todo \in Seq(Id) /\ cmd.todo # <<>> /\ id = Head(cmd.todo)
      BY <1>1, <2>1, KeysTyped DEF HashTypeOK
    <3>2. id \in ToSet(cmd.todo)
      BY <3>1 DEF ToSet
    <3> QED BY <2>1, <3>2 DEF FInv, DeletedGone, DelOfKeys, DeleteHash
  <2> QED BY <1>4, <2>1
<1>6. PendingRight'
  BY <1>2, <1>3, <1>5, HashAssumption DEF PendingRight
<1>7. DeletedGone'
  <2> SUFFICES ASSUME DelOfKeys PROVE DeletedGone'
    BY <1>2 DEF DeletedGone, DelOfKeys
  <2>1. ToSet(cmd.todo) \subseteq ToSet(cmd.keys)
    BY DEF FInv, DeletedGone
  <2>2. ToSet(cmd.keys) \subseteq Id
    <3>1. cmd.keys \in Seq(Id)
      BY KeysTyped DEF HashTypeOK, DelOfKeys
    <3> QED BY <3>1 DEF ToSet
  <2> QED BY <1>2, <1>4, <1>5, <2>1, <2>2 DEF DeletedGone, DelOfKeys
<1>8. ASSUME ~tainted', NEW x \in Id PROVE x \in missed' \/ At(x)' \/ AsHashed(x)' \/ Doomed(x)'
  <2>1. CASE x = id
    BY <1>1, <1>2, <2>1 DEF At
  <2>2. CASE x # id
    <3>1. x \in missed \/ AsHashed(x) \/ Doomed(x)
      BY <1>1, <1>3, <1>8, HashAssumption DEF FInv, Follows, At
    <3>2. CASE hash'[x] = hash[x]
      BY <1>2, <1>3, <3>1, <3>2 DEF AsHashed, Doomed, DelOfKeys
    <3>3. CASE hash'[x] # hash[x]
      <4>1. DelOfKeys /\ x \in ToSet(cmd.keys) /\ hash'[x] = NoHash /\ hash[x] # NoHash
        BY <1>4, <2>2, <3>3 DEF DeleteHash, DelOfKeys
      <4>2. x \in ToSet(cmd.todo)
        BY <4>1 DEF FInv, DeletedGone
      <4> QED BY <1>2, <4>1, <4>2 DEF Doomed, DelOfKeys
    <3> QED BY <3>2, <3>3
  <2> QED BY <2>1, <2>2
<1> QED BY <1>3, <1>6, <1>7, <1>8 DEF FInv, Follows

(* Going back to "next": the id the command was at is accounted for. *)
LEMMA BackFollows ==
    ASSUME HashTypeOK, FInv, NEW s \in Id, cmd.kind # "idle", cs = <<>>, Proceed("next"),
           cmd.kind = "keys" => cmd.todo # <<>> /\ s = Head(cmd.todo),
           UNCHANGED <<vars, hash>>, ~tainted => s \in missed' \/ AsHashed(s),
           DelOfKeys => hash[s] = NoHash,
           cmd.step \in {"next", s}, missed \subseteq missed' \cup {s}
    PROVE  FInv'
<1>1. /\ cmd'.step = "next" /\ cmd'.kind = cmd.kind /\ cmd'.write = cmd.write
      /\ cmd.kind = "keys" =>
            /\ cmd'.keys = cmd.keys /\ ToSet(cmd'.todo) \subseteq ToSet(cmd.todo)
            /\ \A id \in ToSet(cmd.todo) : id # s => id \in ToSet(cmd'.todo)
  BY ProceedKeeps
<1>2. PendingRight' /\ Records' = Records
  BY DEF PendingRight, vars, Records
<1>3. DeletedGone'
  BY <1>1, HashAssumption DEF FInv, DeletedGone, DelOfKeys
<1>4. ASSUME ~tainted', NEW x \in Id PROVE x \in missed' \/ AsHashed(x)' \/ Doomed(x)'
  <2>1. CASE x = s
    BY <1>2, <1>4, <2>1 DEF AsHashed, vars
  <2>2. CASE x # s
    <3>1. x \in missed \/ AsHashed(x) \/ Doomed(x)
      BY <1>4, <2>2, HashAssumption DEF FInv, Follows, At, vars
    <3> QED BY <1>1, <1>2, <2>2, <3>1 DEF AsHashed, Doomed, DelOfKeys, vars
  <2> QED BY <2>1, <2>2
<1> QED BY <1>1, <1>2, <1>3, <1>4, HashAssumption DEF FInv, Follows

LEMMA InitFollows == HashInit => FInv
BY HashAssumption
DEF HashInit, Init, Idle, FInv, PendingRight, DeletedGone, DelOfKeys, Follows, AsHashed, Records

(* Every step of a command keeps index and hashes in step. *)
LEMMA NextFollows == FInv /\ HashTypeOK /\ IInv /\ [HashNext]_hvars => FInv'
<1> SUFFICES ASSUME FInv, HashTypeOK, IInv, [HashNext]_hvars PROVE FInv'
  OBVIOUS
<1> TypeOK
  BY DEF IInv
<1>1. ASSUME NEW write, NEW ids \in Seq(Id), IntoKeys(write, ids) PROVE FInv'
  <2>1. /\ cs' = cs /\ Records' = Records /\ tainted' = tainted /\ missed' = missed /\ hash' = hash
        /\ cmd = Idle /\ cmd'.step = "next" /\ cmd'.kind = "keys" /\ cmd'.keys = cmd'.todo
    BY <1>1 DEF IntoKeys, Begin, vars, Records
  <2>2. cs = <<>>
    BY <2>1 DEF HashTypeOK, Idle
  <2> QED BY <2>1, <2>2, HashAssumption
    DEF FInv, PendingRight, DeletedGone, DelOfKeys, Follows, AsHashed, Doomed, At, Idle
<1>2. ASSUME NEW command, NEW plan, Where(command, plan) PROVE FInv'
  <2>1. /\ cs' = cs /\ Records' = Records /\ tainted' = tainted /\ missed' = missed /\ hash' = hash
        /\ cmd = Idle /\ cmd'.step = "next" /\ cmd'.kind = "where"
    BY <1>2 DEF Where, Begin, vars, Records
  <2>2. cs = <<>>
    BY <2>1 DEF HashTypeOK, Idle
  <2> QED BY <2>1, <2>2, HashAssumption
    DEF FInv, PendingRight, DeletedGone, DelOfKeys, Follows, AsHashed, Doomed, At, Idle
<1>3. ASSUME NEW id \in Id, WriteHash(id) PROVE FInv'
  BY <1>3, WriteFollows
<1>4. ASSUME NEW id \in Id, DeleteHash(id) PROVE FInv'
  BY <1>4, DeleteFollows
<1>5. ASSUME NEW id \in Id, NoWrite(id) PROVE FInv'
  <2>1. /\ cmd.kind # "idle" /\ cmd.step = "next" /\ cs = <<>>
        /\ cmd.kind = "keys" => cmd.todo # <<>> /\ id = Head(cmd.todo)
    BY <1>5, NextIdTyped DEF NoWrite
  <2>2. ~DelOfKeys /\ Proceed("next") /\ missed' = missed /\ UNCHANGED <<vars, hash>>
    BY <1>5 DEF NoWrite, DelOfKeys
  <2>3. ~tainted => id \in missed \/ AsHashed(id)
    BY <2>1, <2>2, HashAssumption DEF FInv, Follows, At, Doomed
  <2> QED BY <2>1, <2>2, <2>3, BackFollows
<1>6. ASSUME ApplyChange PROVE FInv'
  <2>1. PICK id \in Id : Apply(id)
    BY <1>6 DEF ApplyChange
  <2>2. UNCHANGED <<hash, cmd, missed>>
    BY <1>6 DEF ApplyChange
  <2>3. cs # <<>> /\ cs' = <<>> /\ (tainted => tainted')
    <3>1. cs # <<>> /\ cs' \in {Tail(cs), <<>>} /\ (tainted => tainted')
      BY <2>1, ApplyConsumes
    <3>2. Tail(cs) = <<>>
      BY <3>1, OneHead DEF FInv, PendingRight
    <3> QED BY <3>1, <3>2
  <2>4. ASSUME ~tainted' PROVE Promise!Next
    <3>1. [Next]_vars /\ ~(UNCHANGED cs)
      BY <2>1, <2>3 DEF Next
    <3> QED BY <2>4, <3>1, StepKeeps DEF KeepsPromise
  <2>5. ASSUME ~tainted'
        PROVE  /\ rc' = OK => AsHashed(cmd.step)'
               /\ \A x : x # cmd.step => (AsHashed(x) => AsHashed(x)')
    BY <2>2, <2>3, <2>4, <2>5, ApplyRight DEF FInv
  <2>6. cmd.kind # "idle"
    BY <2>3 DEF HashTypeOK
  <2>7. ASSUME ~tainted', NEW x \in Id
        PROVE  x \in missed' \/ At(x)' \/ AsHashed(x)' \/ Doomed(x)'
    <3>1. x \in missed \/ At(x) \/ AsHashed(x) \/ Doomed(x)
      BY <2>3, <2>7 DEF FInv, Follows
    <3> QED BY <2>2, <2>5, <2>6, <2>7, <3>1 DEF At, Doomed, DelOfKeys
  <2>8. PendingRight' /\ DeletedGone'
    BY <2>2, <2>3 DEF FInv, PendingRight, DeletedGone, DelOfKeys
  <2> QED BY <2>5, <2>7, <2>8 DEF FInv, Follows
<1>7. ASSUME Settle PROVE FInv'
  <2> DEFINE s == cmd.step
  <2>1. /\ cmd.kind # "idle" /\ s \in Id /\ cs = <<>> /\ Proceed("next") /\ UNCHANGED <<vars, hash>>
        /\ missed' = IF rc = OK THEN missed \ {s} ELSE missed \cup {s}
    BY <1>7 DEF Settle
  <2>2. cmd.kind = "keys" => cmd.todo # <<>> /\ s = Head(cmd.todo)
    BY <2>1 DEF HashTypeOK
  <2>3. ~tainted => s \in missed' \/ AsHashed(s)
    BY <2>1 DEF FInv, Follows
  <2>4. DelOfKeys => hash[s] = NoHash
    BY <2>1 DEF FInv, DeletedGone
  <2> QED BY <2>1, <2>2, <2>3, <2>4, BackFollows
<1>8. ASSUME SkipId \/ NextRange \/ UNCHANGED hvars PROVE FInv'
  <2>1. UNCHANGED <<vars, hash, cmd, missed>>
    BY <1>8 DEF SkipId, NextRange, hvars
  <2> QED BY <2>1
    DEF vars, FInv, PendingRight, DeletedGone, DelOfKeys, Follows, AsHashed, Doomed, At, Records
<1>9. ASSUME Finish PROVE FInv'
  <2>1. /\ cmd' = Idle /\ UNCHANGED <<vars, hash, missed>> /\ cmd.kind # "idle" /\ cmd.step = "next"
        /\ cmd.kind = "keys" => cmd.todo = <<>>
    BY <1>9 DEF Finish
  <2>2. cs = <<>> /\ \A x : ~Doomed(x)
    BY <2>1, HashAssumption DEF HashTypeOK, Doomed, DelOfKeys, ToSet
  <2> QED BY <2>1, <2>2, HashAssumption
    DEF vars, FInv, PendingRight, DeletedGone, DelOfKeys, Follows, AsHashed, At, Records, Idle
<1>10. \A id, jd \in Id : <<id>> \in Seq(Id) /\ <<id, jd>> \in Seq(Id)
  OBVIOUS
<1> QED BY <1>1, <1>2, <1>3, <1>4, <1>5, <1>6, <1>7, <1>8, <1>9, <1>10 DEF HashNext

LEMMA FollowInvariant == HashSpec => []FInv
BY InitFollows, NextFollows, InvariantInside, HashTypeCorrect, PTL DEF HashSpec

(* Between writes the index holds the tuple of every hash and of no other  *)
(* id, except where the last write was refused by a UNIQUE index, could    *)
(* not be parsed or is a DEL still in progress (reindexHashHandler,        *)
(* deleteHandler), for all histories of hash commands and WHERE clauses.   *)
THEOREM IndexAlwaysFollows == HashSpec => []IndexFollowsHashes
<1>1. FInv => IndexFollowsHashes
  BY HashAssumption
  DEF FInv, Follows, At, AsHashed, Doomed, DelOfKeys, IndexFollowsHashes, Records
<1> QED BY <1>1, FollowInvariant, PTL

-----------------------------------------------------------------------------
(* Where a record is, and whether a range of a plan takes it in. *)
Key(x) == mem[ri[x]]

Within(k, plan, r) == ~Lt(k, plan.ranges[r].min) /\ ~Lt(plan.ranges[r].max, k)

(* A set of naturals that is not empty has a least element.                *)
LEMMA MinOf ==
    ASSUME NEW S \in SUBSET Nat, S # {}
    PROVE  Min(S) \in S /\ \A i \in S : Min(S) <= i
<1>1. PICK m \in S : \A i \in S : m <= i
  BY LeastOf
<1> QED BY <1>1 DEF Min

(* A node is that of the one record it holds. *)
LEMMA NodeOfRecord ==
    ASSUME IInv, Unique, NEW x \in DOMAIN ri
    PROVE  /\ \E i \in 1..Len(list) : list[i].obj = ri[x]
           /\ \A i \in 1..Len(list) : list[i].obj = ri[x] => list[i].vals[1] = x
           /\ Key(x) \in Tuple /\ ri[x] \in Addr /\ ri[x] # NoNode /\ x \in Id
<1>1. PICK i \in 1..Len(list) : list[i].vals[1] = x
  BY UniqueNodes
<1>2. list[i].obj = ri[x] /\ Key(x) \in Tuple
  BY <1>1, UniqueNodes DEF Key
<1>3. ri[x] \in Addr /\ x \in Id
  BY PartialFnFields DEF IInv, TypeOK
<1>4. \A j \in 1..Len(list) : list[j].obj = ri[x] => list[j].vals[1] = x
  BY UniqueNodes, SMTT(30) DEF IInv, KeysOwned, IsInjective
<1> QED BY <1>2, <1>3, <1>4, HashAssumption

(* Clipped gives a node of the range, and the first one from i on.         *)
LEMMA ClippedLands ==
    ASSUME IInv, Unique, NEW plan \in Plans, NEW r \in DOMAIN plan.ranges, NEW i \in Nat \ {0}
    PROVE  LET n == Clipped(i, plan.ranges[r])
           IN  /\ n # NoNode => i \in 1..Len(list) /\ n = list[i].obj /\ ~Lt(plan.ranges[r].max, mem[n])
               /\ \A j \in 1..Len(list) :
                     j >= i /\ ~Lt(plan.ranges[r].max, mem[list[j].obj])
                         => n # NoNode /\ ~Lt(mem[list[j].obj], mem[n])
<1> DEFINE n == Clipped(i, plan.ranges[r])
<1>1. DOMAIN list = 1..Len(list) /\ Len(list) \in Nat
  BY UniqueNodes
<1>2. n # NoNode => i \in 1..Len(list) /\ n = list[i].obj /\ ~Lt(plan.ranges[r].max, mem[n])
  BY <1>1 DEF Clipped, NodeAt
<1>3. ASSUME NEW j \in 1..Len(list), j >= i, ~Lt(plan.ranges[r].max, mem[list[j].obj])
      PROVE  n # NoNode /\ ~Lt(mem[list[j].obj], mem[n])
  <2>1. i \in 1..Len(list) /\ mem[list[i].obj] \in Tuple /\ mem[list[j].obj] \in Tuple
    BY <1>1, <1>3, UniqueNodes
  <2>2. i = j \/ Lt(mem[list[i].obj], mem[list[j].obj])
    BY <1>3, <2>1, UniqueNodes
  <2>3. ~Lt(plan.ranges[r].max, mem[list[i].obj])
    BY <1>3, <2>1, <2>2, PlansAssumption
  <2>4. list[i].obj # NoNode
    <3>1. list[i].obj = ri[list[i].vals[1]] /\ list[i].vals[1] \in DOMAIN ri
      BY <2>1, UniqueNodes
    <3> QED BY <3>1, NodeOfRecord
  <2>5. n = list[i].obj
    BY <1>1, <2>1, <2>3 DEF Clipped, NodeAt
  <2>6. ~Lt(mem[list[j].obj], mem[list[i].obj])
    BY <2>1, <2>2, LtAssumption
  <2> QED BY <2>4, <2>5, <2>6
<1> HIDE DEF n
<1> QED BY <1>2, <1>3 DEF n

(* A range begins at the first of its records.                             *)
LEMMA StartLands ==
    ASSUME IInv, Unique, NEW plan \in Plans, NEW r \in DOMAIN plan.ranges
    PROVE  LET n == Start(r, plan).node
           IN  /\ Start(r, plan).range = r /\ Start(r, plan).val = 1
               /\ n # NoNode => \E x \in DOMAIN ri : ri[x] = n /\ Within(Key(x), plan, r)
               /\ \A x \in DOMAIN ri :
                     Within(Key(x), plan, r) => n # NoNode /\ ~Lt(Key(x), mem[n])
<1> DEFINE from == {i \in DOMAIN list : ~Lt(mem[list[i].obj], plan.ranges[r].min)}
           n == Start(r, plan).node
<1>1. DOMAIN list = 1..Len(list) /\ Len(list) \in Nat
  BY UniqueNodes
<1>2. n = IF from = {} THEN NoNode ELSE Clipped(Min(from), plan.ranges[r])
  BY DEF Start
<1>3. ASSUME from # {}
      PROVE  Min(from) \in from /\ \A i \in from : Min(from) <= i
  <2>1. from \in SUBSET Nat
    BY <1>1
  <2> HIDE DEF from
  <2> QED BY <1>3, <2>1, MinOf
<1> HIDE DEF from, n
<1>4. ASSUME n # NoNode PROVE \E x \in DOMAIN ri : ri[x] = n /\ Within(Key(x), plan, r)
  <2>1. from # {} /\ Min(from) \in from
    BY <1>2, <1>3, <1>4
  <2>2. Min(from) \in 1..Len(list) /\ ~Lt(mem[list[Min(from)].obj], plan.ranges[r].min)
    BY <1>1, <2>1 DEF from
  <2>3. n = list[Min(from)].obj /\ ~Lt(plan.ranges[r].max, mem[n])
    BY <1>1, <1>2, <1>4, <2>1, <2>2, ClippedLands
  <2> QED BY <2>2, <2>3, UniqueNodes DEF Within, Key
<1>5. ASSUME NEW x \in DOMAIN ri, Within(Key(x), plan, r)
      PROVE  n # NoNode /\ ~Lt(Key(x), mem[n])
  <2>1. PICK j \in 1..Len(list) : list[j].obj = ri[x]
    BY NodeOfRecord
  <2>2. j \in from
    BY <1>1, <1>5, <2>1 DEF from, Within, Key
  <2>3. Min(from) \in Nat \ {0} /\ Min(from) <= j
    BY <1>1, <1>3, <2>2 DEF from
  <2>4. n = Clipped(Min(from), plan.ranges[r])
    BY <1>2, <2>2
  <2>5. ~Lt(plan.ranges[r].max, mem[list[j].obj])
    BY <1>5, <2>1 DEF Within, Key
  <2>6. n # NoNode /\ ~Lt(mem[list[j].obj], mem[n])
    BY <2>3, <2>4, <2>5, ClippedLands
  <2> QED BY <2>1, <2>6 DEF Key
<1>6. Start(r, plan).range = r /\ Start(r, plan).val = 1
  BY DEF Start
<1> QED BY <1>4, <1>5, <1>6 DEF n

(* skiplistIterator_Next goes from a record of the range to the next one.  *)
LEMMA AdvancedLands ==
    ASSUME IInv, Unique, HashTypeOK, NEW x \in DOMAIN ri, cursor.node = ri[x], cursor.val = 1,
           NEW r, r = cursor.range, cmd.plan \in Plans, r \in DOMAIN cmd.plan.ranges,
           Within(Key(x), cmd.plan, r)
    PROVE  LET n == Advanced.node
           IN  /\ Advanced.range = r /\ Advanced.val = 1
               /\ n # NoNode => /\ Lt(Key(x), mem[n])
                                /\ \E y \in DOMAIN ri : ri[y] = n /\ Within(Key(y), cmd.plan, r)
               /\ \A y \in DOMAIN ri :
                     Within(Key(y), cmd.plan, r) /\ y # x /\ ~Lt(Key(y), Key(x))
                         => n # NoNode /\ ~Lt(Key(y), mem[n])
<1> DEFINE i == Position(cursor.node)
           n == Advanced.node
<1>1. DOMAIN list = 1..Len(list) /\ Len(list) \in Nat
  BY UniqueNodes
<1>2. i \in 1..Len(list) /\ list[i].obj = ri[x]
  BY <1>1, NodeOfRecord DEF Position
<1> HIDE DEF i
<1>3. Len(list[i].vals) = 1 /\ i + 1 \in Nat \ {0}
  BY <1>2, UniqueNodes
<1>4. Advanced = [cursor EXCEPT !.val = 1, !.node = Clipped(i + 1, cmd.plan.ranges[r])]
  BY <1>3 DEF Advanced, i
<1>5. n = Clipped(i + 1, cmd.plan.ranges[r]) /\ Advanced.range = r /\ Advanced.val = 1
  BY <1>4 DEF HashTypeOK
<1> HIDE DEF n
<1>6. ASSUME n # NoNode
      PROVE  /\ Lt(Key(x), mem[n])
             /\ \E y \in DOMAIN ri : ri[y] = n /\ Within(Key(y), cmd.plan, r)
  <2>1. i + 1 \in 1..Len(list) /\ n = list[i + 1].obj /\ ~Lt(cmd.plan.ranges[r].max, mem[n])
    BY <1>3, <1>5, <1>6, ClippedLands
  <2>2. Lt(mem[list[i].obj], mem[list[i + 1].obj])
    BY <1>2, <2>1, UniqueNodes
  <2>3. mem[list[i].obj] \in Tuple /\ mem[n] \in Tuple
    BY <1>2, <2>1, UniqueNodes
  <2>4. ~Lt(mem[n], cmd.plan.ranges[r].min)
    BY <1>2, <2>1, <2>2, <2>3, PlansAssumption DEF Within, Key
  <2>5. PICK y \in DOMAIN ri : ri[y] = n
    BY <2>1, UniqueNodes
  <2> QED BY <1>2, <2>1, <2>2, <2>4, <2>5 DEF Within, Key
<1>7. ASSUME NEW y \in DOMAIN ri, Within(Key(y), cmd.plan, r), y # x, ~Lt(Key(y), Key(x))
      PROVE  n # NoNode /\ ~Lt(Key(y), mem[n])
  <2>1. PICK j \in 1..Len(list) : list[j].obj = ri[y]
    BY NodeOfRecord
  <2>2. j # i
    <3>1. list[i].vals[1] = x /\ list[j].vals[1] = y
      BY <1>2, <2>1, NodeOfRecord
    <3> QED BY <1>7, <3>1
  <2>3. ~(j < i)
    BY <1>2, <1>7, <2>1, UniqueNodes DEF Key
  <2>4. j >= i + 1 /\ ~Lt(cmd.plan.ranges[r].max, mem[list[j].obj])
    BY <1>2, <1>7, <2>1, <2>2, <2>3 DEF Within, Key
  <2>5. n # NoNode /\ ~Lt(mem[list[j].obj], mem[n])
    BY <1>3, <1>5, <2>4, ClippedLands
  <2> QED BY <2>1, <2>5 DEF Key
<1> QED BY <1>5, <1>6, <1>7 DEF n

(* A change to one record leaves the others, and the keys they are under,  *)
(* where they are: the new key of a UNIQUE index is never an old one.      *)
LEMMA OthersKept ==
    ASSUME IInv, Unique, NEW id \in Id, Apply(id), NEW x \in DOMAIN ri, x # id
    PROVE  x \in DOMAIN ri' /\ ri'[x] = ri[x] /\ Key(x)' = Key(x)
<1>1. /\ Range(ri) = live /\ IsInjective(ri)
      /\ mem \in [Addr -> Tuple \cup {NoKey}]
  BY DEF IInv, KeysOwned, TypeOK
<1>2. ri[x] \in live /\ ri[x] \in Addr
  BY <1>1, NodeOfRecord DEF Range
<1>3. id \in DOMAIN ri => ri[id] # ri[x]
  BY <1>1 DEF IsInjective
<1>4. ASSUME NEW t \in Tuple, AddNew(id, t) PROVE x \in DOMAIN ri' /\ ri'[x] = ri[x] /\ Key(x)' = Key(x)
  BY <1>1, <1>2, <1>4 DEF AddNew, Bind, Key
<1>5. ASSUME NEW t \in Tuple, AddMove(id, t) PROVE x \in DOMAIN ri' /\ ri'[x] = ri[x] /\ Key(x)' = Key(x)
  BY <1>1, <1>2, <1>3, <1>5 DEF AddMove, Bind, Key
<1>6. ASSUME DelRecord(id) PROVE x \in DOMAIN ri' /\ ri'[x] = ri[x] /\ Key(x)' = Key(x)
  BY <1>1, <1>2, <1>3, <1>6 DEF DelRecord, Forget, Restrict, Key
<1>7. ASSUME UNCHANGED index PROVE x \in DOMAIN ri' /\ ri'[x] = ri[x] /\ Key(x)' = Key(x)
  BY <1>7 DEF index, Key
<1> QED BY <1>4, <1>5, <1>6, <1>7
    DEF Apply, AddRejected, DelMissing, AddUnchanged, AddDuplicate, GiveUp, index
-----------------------------------------------------------------------------
(* The cursor is at a record of its range, or at the end of it; the record *)
(* is not the one (but) that is being written.                             *)
OnRecord(cur, plan, but) ==
    /\ cur.val = 1
    /\ cur.node # NoNode =>
         /\ cur.range \in DOMAIN plan.ranges
         /\ \E y \in DOMAIN ri : ri[y] = cur.node /\ y # but /\ Within(Key(y), plan, cur.range)

(* The cursor has yet to come to x. *)
Beyond(x, cur, plan) ==
    /\ x \in DOMAIN ri /\ Key(x) \in plan.filter
    /\ \E r \in DOMAIN plan.ranges :
         /\ Within(Key(x), plan, r)
         /\ r > cur.range \/ (r = cur.range /\ cur.node # NoNode /\ ~Lt(Key(x), mem[cur.node]))

(* No tuple is in two ranges of a plan. *)
PlansDisjoint ==
    \A plan \in Plans : \A q, r \in DOMAIN plan.ranges : \A t \in Tuple :
        Within(t, plan, q) /\ Within(t, plan, r) => q = r

(* A cursor opened on range r has all of that range and of the later ones  *)
(* before it, and no other record.                                         *)
LEMMA StartGood ==
    ASSUME IInv, Unique, NEW plan \in Plans, NEW r \in Nat \ {0}
    PROVE  /\ OnRecord(Start(r, plan), plan, "next")
           /\ \A x \in DOMAIN ri : \A q \in DOMAIN plan.ranges :
                 Key(x) \in plan.filter /\ Within(Key(x), plan, q) /\ q >= r
                     => Beyond(x, Start(r, plan), plan)
<1>1. Start(r, plan).range = r /\ Start(r, plan).val = 1
  BY DEF Start
<1>2. r \notin DOMAIN plan.ranges => Start(r, plan).node = NoNode
  BY DEF Start
<1>3. OnRecord(Start(r, plan), plan, "next")
  <2>1. CASE r \in DOMAIN plan.ranges
    BY <1>1, <2>1, StartLands, NodeOfRecord, HashAssumption DEF OnRecord
  <2> QED BY <1>1, <1>2, <2>1 DEF OnRecord
<1>4. ASSUME NEW x \in DOMAIN ri, NEW q \in DOMAIN plan.ranges,
             Key(x) \in plan.filter, Within(Key(x), plan, q), q >= r
      PROVE  Beyond(x, Start(r, plan), plan)
  <2>1. q \in Nat
    BY PlansAssumption
  <2>2. CASE q > r
    BY <1>1, <1>4, <2>2 DEF Beyond
  <2>3. CASE q = r
    <3>1. Start(r, plan).node # NoNode /\ ~Lt(Key(x), mem[Start(r, plan).node])
      BY <1>4, <2>3, StartLands
    <3> QED BY <1>1, <1>4, <2>3, <3>1 DEF Beyond
  <2> QED BY <1>4, <2>1, <2>2, <2>3
<1> QED BY <1>3, <1>4

(* A cursor that moves on leaves behind the one record it was at.          *)
LEMMA AdvancedGood ==
    ASSUME IInv, Unique, HashTypeOK, cmd.plan \in Plans, NEW but,
           OnRecord(cursor, cmd.plan, but), NEW z \in DOMAIN ri, cursor.node = ri[z]
    PROVE  /\ OnRecord(Advanced, cmd.plan, z) /\ OnRecord(Advanced, cmd.plan, "next")
           /\ \A x : Beyond(x, cursor, cmd.plan) /\ x # z => Beyond(x, Advanced, cmd.plan)
           /\ \A x : Beyond(x, Advanced, cmd.plan) => Beyond(x, cursor, cmd.plan)
           /\ Key(z) \in cmd.plan.filter => Beyond(z, cursor, cmd.plan)
           /\ PlansDisjoint => ~Beyond(z, Advanced, cmd.plan)
<1> DEFINE r == cursor.range
           plan == cmd.plan
           n == Advanced.node
<1>1. ri[z] # NoNode /\ Key(z) \in Tuple /\ cursor.range \in Nat
  BY NodeOfRecord DEF HashTypeOK
<1>2. cursor.val = 1 /\ r \in DOMAIN plan.ranges /\ Within(Key(z), plan, r) /\ mem[cursor.node] = Key(z)
  <2>1. PICK y \in DOMAIN ri : ri[y] = ri[z] /\ Within(Key(y), plan, r)
    BY <1>1 DEF OnRecord
  <2>2. Key(y) = Key(z)
    BY <2>1 DEF Key
  <2> QED BY <1>1, <2>1, <2>2 DEF OnRecord, Key
<1>3. /\ Advanced.range = r /\ Advanced.val = 1
      /\ n # NoNode => /\ Lt(Key(z), mem[n])
                       /\ \E y \in DOMAIN ri : ri[y] = n /\ Within(Key(y), plan, r)
      /\ \A y \in DOMAIN ri :
            Within(Key(y), plan, r) /\ y # z /\ ~Lt(Key(y), Key(z))
                => n # NoNode /\ ~Lt(Key(y), mem[n])
  BY <1>2, AdvancedLands
<1>4. \A q \in DOMAIN plan.ranges : q \in Nat
  BY PlansAssumption
<1> HIDE DEF r, plan, n
<1>5. n # NoNode => mem[n] \in Tuple /\ n # ri[z]
  <2> SUFFICES ASSUME n # NoNode PROVE mem[n] \in Tuple /\ n # ri[z]
    OBVIOUS
  <2>1. PICK y \in DOMAIN ri : ri[y] = n
    BY <1>3
  <2>2. Key(y) \in Tuple /\ Key(y) = mem[n]
    BY <2>1, NodeOfRecord DEF Key
  <2>3. Lt(Key(z), mem[n])
    BY <1>3
  <2> QED BY <1>1, <2>2, <2>3, LtAssumption DEF Key
<1>6. OnRecord(Advanced, plan, z) /\ OnRecord(Advanced, plan, "next")
  <2>1. \A y \in DOMAIN ri : y # "next"
    BY NodeOfRecord, HashAssumption
  <2> QED BY <1>2, <1>3, <1>5, <2>1 DEF OnRecord, n
<1>7. ASSUME NEW x, Beyond(x, cursor, plan), x # z PROVE Beyond(x, Advanced, plan)
  <2>1. PICK q \in DOMAIN plan.ranges :
          /\ Within(Key(x), plan, q)
          /\ q > r \/ (q = r /\ ~Lt(Key(x), mem[cursor.node]))
    BY <1>7 DEF Beyond, r
  <2>2. x \in DOMAIN ri /\ Key(x) \in plan.filter
    BY <1>7 DEF Beyond
  <2>3. q = r => n # NoNode /\ ~Lt(Key(x), mem[n])
    BY <1>2, <1>3, <1>4, <1>7, <2>1, <2>2 DEF r
  <2> QED BY <1>3, <2>1, <2>2, <2>3 DEF Beyond, n
<1>8. ASSUME NEW x, Beyond(x, Advanced, plan) PROVE Beyond(x, cursor, plan)
  <2>1. PICK q \in DOMAIN plan.ranges :
          /\ Within(Key(x), plan, q)
          /\ q > r \/ (q = r /\ n # NoNode /\ ~Lt(Key(x), mem[n]))
    BY <1>3, <1>8 DEF Beyond, n
  <2>2. x \in DOMAIN ri /\ Key(x) \in plan.filter /\ Key(x) \in Tuple
    BY <1>8, NodeOfRecord DEF Beyond
  <2>3. q = r => cursor.node # NoNode /\ ~Lt(Key(x), mem[cursor.node])
    <3>1. CASE q > r
      BY <1>1, <1>4, <3>1 DEF r
    <3>2. CASE n # NoNode /\ ~Lt(Key(x), mem[n])
      <4>1. Lt(Key(z), mem[n]) /\ mem[n] \in Tuple
        BY <1>3, <1>5, <3>2
      <4>2. ~Lt(Key(x), Key(z))
        BY <1>1, <2>2, <3>2, <4>1, LtAssumption
      <4> QED BY <1>1, <1>2, <4>2
    <3> QED BY <2>1, <3>1, <3>2
  <2> QED BY <2>1, <2>2, <2>3 DEF Beyond, r
<1>9. Key(z) \in plan.filter => Beyond(z, cursor, plan)
  BY <1>1, <1>2, LtAssumption DEF Beyond, r
<1>10. ASSUME PlansDisjoint, Beyond(z, Advanced, plan) PROVE FALSE
  <2>1. PICK q \in DOMAIN plan.ranges :
          /\ Within(Key(z), plan, q)
          /\ q > r \/ (q = r /\ n # NoNode /\ ~Lt(Key(z), mem[n]))
    BY <1>3, <1>10 DEF Beyond, n
  <2>2. q = r
    BY <1>1, <1>2, <1>10, <2>1 DEF PlansDisjoint, plan
  <2> QED BY <1>1, <1>3, <1>4, <2>1, <2>2 DEF r
<1> QED BY <1>6, <1>7, <1>8, <1>9, <1>10 DEF plan
-----------------------------------------------------------------------------
Ahead(x) == Beyond(x, cursor, cmd.plan)

(* The cursor stands on a record that is not being written; what matched   *)
(* at the start has been visited or is still ahead.                        *)
CInv ==
    cmd.kind = "where" =>
        /\ OnRecord(cursor, cmd.plan, cmd.step)
        /\ \A x \in expected : x \in ToSet(visited) \/ (x # cmd.step /\ Ahead(x))

(* A command that adds nothing to the index: what it has visited is behind *)
(* the cursor, and what matches now did so at the start.                   *)
RInv ==
    cmd.kind = "where" /\ cmd.write \in {"READ", "DEL"} =>
        /\ IsInjective(visited) /\ ToSet(visited) \subseteq expected
        /\ \A x \in ToSet(visited) : ~Ahead(x)
        /\ \A x : Ahead(x) => x \in expected
        /\ cs # <<>> => cs = <<DelChange(cmd.step)>>

LEMMA WhereTyped ==
    ASSUME HashTypeOK, cmd.kind = "where"
    PROVE  cmd \in [kind : {"where"}, write : {"HSET", "HDEL", "DEL", "READ"},
                    step : {"next"} \cup Id, plan : Plans]
BY DEF HashTypeOK, Command

(* A WHERE command goes on with the plan it has. *)
LEMMA WhereProceeds ==
    ASSUME HashTypeOK, cmd.kind = "where", NEW step \in {"next"} \cup Id, Proceed(step)
    PROVE  /\ cmd'.kind = "where" /\ cmd'.plan = cmd.plan /\ cmd'.write = cmd.write
           /\ cmd'.step = step
BY WhereTyped DEF Proceed

LEMMA Visiting ==
    ASSUME NEW v \in Seq(Id), NEW id \in Id
    PROVE  /\ ToSet(Append(v, id)) = ToSet(v) \cup {id}
           /\ IsInjective(v) /\ id \notin ToSet(v) => IsInjective(Append(v, id))
<1>1. /\ DOMAIN Append(v, id) = 1..(Len(v) + 1) /\ DOMAIN v = 1..Len(v) /\ Len(v) \in Nat
      /\ \A i \in 1..Len(v) : Append(v, id)[i] = v[i]
      /\ Append(v, id)[Len(v) + 1] = id
  OBVIOUS
<1>2. ToSet(Append(v, id)) = ToSet(v) \cup {id}
  <2>1. \A i \in 1..(Len(v) + 1) : i \in 1..Len(v) \/ i = Len(v) + 1
    BY <1>1
  <2>2. ToSet(Append(v, id)) \subseteq ToSet(v) \cup {id}
    BY <1>1, <2>1 DEF ToSet
  <2>3. ToSet(v) \cup {id} \subseteq ToSet(Append(v, id))
    <3>1. \A i \in 1..Len(v) : i \in 1..(Len(v) + 1)
      BY <1>1
    <3>2. Len(v) + 1 \in 1..(Len(v) + 1)
      BY <1>1
    <3> QED BY <1>1, <3>1, <3>2 DEF ToSet
  <2> QED BY <2>2, <2>3
<1>3. ASSUME IsInjective(v), id \notin ToSet(v) PROVE IsInjective(Append(v, id))
  <2> SUFFICES ASSUME NEW i \in 1..(Len(v) + 1), NEW j \in 1..(Len(v) + 1),
                      Append(v, id)[i] = Append(v, id)[j]
               PROVE  i = j
    BY <1>1 DEF IsInjective
  <2>1. \A k \in 1..Len(v) : v[k] # id
    BY <1>1, <1>3 DEF ToSet
  <2>2. CASE i \in 1..Len(v) /\ j \in 1..Len(v)
    BY <1>1, <1>3, <2>2 DEF IsInjective
  <2>3. CASE ~(i \in 1..Len(v) /\ j \in 1..Len(v))
    BY <1>1, <2>1, <2>3
  <2> QED BY <2>2, <2>3
<1> QED BY <1>2, <1>3

(* The id a WHERE command is given is that of the record under the cursor. *)
LEMMA YieldsRecord ==
    ASSUME IInv, Unique, HashTypeOK, CInv, cmd.kind = "where", NEW id \in Id, NextId(id)
    PROVE  /\ cursor' = Advanced /\ visited' = Append(visited, id) /\ cmd.step = "next" /\ cs = <<>>
           /\ id \in DOMAIN ri /\ cursor.node = ri[id] /\ Key(id) \in cmd.plan.filter
<1>1. CursorYields(id) /\ visited' = Append(visited, id) /\ cmd.step = "next"
  BY DEF NextId
<1>2. PICK y \in DOMAIN ri : ri[y] = cursor.node
  BY <1>1 DEF CInv, OnRecord, CursorYields
<1>3. cursor.val = 1
  BY DEF CInv, OnRecord
<1>4. Position(cursor.node) \in 1..Len(list) /\ list[Position(cursor.node)].obj = ri[y]
  <2>1. DOMAIN list = 1..Len(list)
    BY UniqueNodes
  <2> QED BY <1>2, <2>1, NodeOfRecord DEF Position
<1>5. id = y
  BY <1>1, <1>3, <1>4, NodeOfRecord DEF CursorYields
<1>6. cs = <<>>
  BY <1>1, HashAssumption DEF HashTypeOK
<1> QED BY <1>1, <1>2, <1>5, <1>6 DEF CursorYields, Key

(* A cursor set while the index stands still sees the records there are.   *)
LEMMA CursorSet ==
    ASSUME UNCHANGED vars, NEW cur, cursor' = cur, NEW plan, cmd'.plan = plan
    PROVE  /\ OnRecord(cursor, cmd.plan, cmd.step)' <=> OnRecord(cur, plan, cmd'.step)
           /\ \A x : Ahead(x)' <=> Beyond(x, cur, plan)
<1>1. ri' = ri /\ mem' = mem
  BY DEF vars
<1>2. \A x : Key(x)' = Key(x)
  BY <1>1 DEF Key
<1> QED BY <1>1, <1>2 DEF OnRecord, Ahead, Beyond, Within, Key

(* Submit changes nothing a cursor sees.                                   *)
LEMMA CursorSetBySubmit ==
    ASSUME NEW changes, Submit(changes), NEW cur, cursor' = cur, NEW plan, cmd'.plan = plan
    PROVE  /\ OnRecord(cursor, cmd.plan, cmd.step)' <=> OnRecord(cur, plan, cmd'.step)
           /\ \A x : Ahead(x)' <=> Beyond(x, cur, plan)
<1>1. ri' = ri /\ mem' = mem
  BY DEF Submit, index
<1>2. \A x : Key(x)' = Key(x)
  BY <1>1 DEF Key
<1> QED BY <1>1, <1>2 DEF OnRecord, Ahead, Beyond, Within, Key

CursorInv == CInv /\ (PlansDisjoint => RInv)

(* The command is given an id and starts to write it, or goes on.          *)
LEMMA YieldKeeps ==
    ASSUME IInv, Unique, HashTypeOK, CursorInv, cmd.kind = "where", NEW id \in Id, NextId(id),
           UNCHANGED expected, NEW step \in {"next", id}, Proceed(step),
           \/ UNCHANGED vars
           \/ \E change : /\ Submit(<<change>>)
                          /\ cmd.write \in {"READ", "DEL"} => step = id /\ change = DelChange(id)
    PROVE  CursorInv'
<1>1. /\ cursor' = Advanced /\ visited' = Append(visited, id) /\ cmd.step = "next" /\ cs = <<>>
      /\ id \in DOMAIN ri /\ cursor.node = ri[id] /\ Key(id) \in cmd.plan.filter
  BY YieldsRecord DEF CursorInv
<1>2. /\ cmd'.kind = "where" /\ cmd'.plan = cmd.plan /\ cmd'.write = cmd.write /\ cmd'.step = step
      /\ cmd.plan \in Plans
  BY WhereProceeds, WhereTyped
<1>3. /\ OnRecord(cursor, cmd.plan, cmd.step)' <=> OnRecord(Advanced, cmd.plan, step)
      /\ \A x : Ahead(x)' <=> Beyond(x, Advanced, cmd.plan)
  <2>1. CASE UNCHANGED vars
    BY <1>1, <1>2, <2>1, CursorSet
  <2>2. CASE \E changes : Submit(changes)
    BY <1>1, <1>2, <2>2, CursorSetBySubmit
  <2> QED BY <2>1, <2>2
<1>4. /\ OnRecord(Advanced, cmd.plan, step)
      /\ \A x : Ahead(x) /\ x # id => Ahead(x)'
      /\ \A x : Ahead(x)' => Ahead(x)
      /\ Ahead(id)
      /\ PlansDisjoint => ~Ahead(id)'
  BY <1>1, <1>2, <1>3, AdvancedGood DEF CursorInv, CInv, Ahead
<1>5. /\ ToSet(visited') = ToSet(visited) \cup {id}
      /\ IsInjective(visited) /\ id \notin ToSet(visited) => IsInjective(visited')
  BY <1>1, Visiting DEF HashTypeOK
<1>6. CInv'
  <2> SUFFICES ASSUME NEW x \in expected, x # id, x \notin ToSet(visited)
               PROVE  x # step /\ Ahead(x)'
    BY <1>2, <1>3, <1>4, <1>5 DEF CInv
  <2>1. Ahead(x) /\ x \in Id
    BY DEF CursorInv, CInv, HashTypeOK
  <2> QED BY <1>4, <2>1, HashAssumption
<1>7. ASSUME PlansDisjoint PROVE RInv'
  <2> SUFFICES ASSUME cmd.write \in {"READ", "DEL"}
               PROVE  /\ IsInjective(visited') /\ ToSet(visited') \subseteq expected
                      /\ \A x \in ToSet(visited') : ~Ahead(x)'
                      /\ \A x : Ahead(x)' => x \in expected
                      /\ cs' # <<>> => cs' = <<DelChange(step)>>
    BY <1>2 DEF RInv
  <2>1. RInv
    BY <1>7 DEF CursorInv
  <2>2. id \notin ToSet(visited) /\ id \in expected
    BY <1>4, <2>1 DEF RInv
  <2>3. cs' # <<>> => cs' = <<DelChange(step)>>
    BY <1>1 DEF vars, Submit
  <2> QED BY <1>4, <1>5, <1>7, <2>1, <2>2, <2>3 DEF RInv
<1> QED BY <1>6, <1>7 DEF CursorInv

(* A change is applied to the record of the id the command is at.          *)
LEMMA ApplyKeeps ==
    ASSUME IInv, Unique, HashTypeOK, FInv, CursorInv, ApplyChange
    PROVE  CursorInv'
<1>1. PICK id \in Id : Apply(id)
  BY DEF ApplyChange
<1>2. UNCHANGED <<hash, cmd, cursor, visited, expected>>
  BY DEF ApplyChange
<1>3. cs # <<>> /\ cs' = <<>>
  <2>1. cs # <<>> /\ cs' \in {Tail(cs), <<>>}
    BY <1>1, ApplyConsumes
  <2>2. Tail(cs) = <<>>
    BY <2>1, OneHead DEF FInv, PendingRight
  <2> QED BY <2>1, <2>2
<1>4. id = cmd.step
  <2>1. PICK c : cs = <<c>> /\ c.id = cmd.step
    BY <1>3 DEF FInv, PendingRight, AddChange, DelChange
  <2>2. Head(cs).id = id
    BY <1>1 DEF Apply, AddRejected, DelRecord, DelMissing, AddUnchanged, AddDuplicate, AddNew,
                AddMove, Adding, Deleting, AddChange, DelChange
  <2> QED BY <2>1, <2>2, OneHead
<1>5. \A x \in DOMAIN ri : x # id => x \in DOMAIN ri' /\ ri'[x] = ri[x] /\ Key(x)' = Key(x)
  BY <1>1, OthersKept
<1> SUFFICES ASSUME cmd.kind = "where" PROVE CursorInv'
  BY <1>2 DEF CursorInv, CInv, RInv
<1>6. OnRecord(cursor, cmd.plan, cmd.step)
  BY DEF CursorInv, CInv
<1>7. cursor.node # NoNode => mem'[cursor.node] = mem[cursor.node]
  BY <1>4, <1>5, <1>6 DEF OnRecord, Key
<1>8. OnRecord(cursor, cmd.plan, cmd.step)'
  BY <1>2, <1>4, <1>5, <1>6 DEF OnRecord, Within
<1>9. ASSUME NEW x, x # id, Ahead(x) PROVE Ahead(x)'
  BY <1>2, <1>5, <1>7, <1>9 DEF Ahead, Beyond, Within
<1>10. CInv'
  BY <1>2, <1>4, <1>8, <1>9 DEF CursorInv, CInv
<1>11. ASSUME PlansDisjoint PROVE RInv'
  <2> SUFFICES ASSUME cmd.write \in {"READ", "DEL"} PROVE RInv'
    BY <1>2 DEF RInv
  <2>1. RInv /\ Head(cs) = DelChange(id)
    BY <1>3, <1>4, <1>11, OneHead DEF CursorInv, RInv
  <2>2. DelRecord(id) \/ DelMissing(id)
    BY <1>1, <2>1
    DEF Apply, AddRejected, AddUnchanged, AddDuplicate, AddNew, AddMove, Adding, AddChange,
        DelChange
  <2>3. DOMAIN ri' = DOMAIN ri \ {id}
    BY <2>2 DEF DelRecord, DelMissing, Forget, Restrict, index
  <2>4. ASSUME NEW x, Ahead(x)' PROVE Ahead(x)
    <3>1. x \in DOMAIN ri /\ x # id
      BY <2>3, <2>4 DEF Ahead, Beyond
    <3> QED BY <1>2, <1>5, <1>7, <2>4, <3>1 DEF Ahead, Beyond, Within
  <2> QED BY <1>2, <1>3, <2>1, <2>4 DEF RInv
<1> QED BY <1>10, <1>11 DEF CursorInv

(* A WHERE command begins: all that matches is ahead, and nothing else.    *)
LEMMA WhereKeeps ==
    ASSUME IInv, Unique, HashTypeOK, NEW command, NEW plan \in Plans, Where(command, plan)
    PROVE  CursorInv'
<1>1. /\ UNCHANGED vars /\ cs = <<>> /\ cmd'.kind = "where" /\ cmd'.plan = plan /\ cmd'.step = "next"
      /\ cursor' = Start(1, plan) /\ visited' = <<>> /\ expected' = Matching(plan)
  BY DEF Where, Begin, HashTypeOK, Idle
<1>2. /\ OnRecord(cursor, cmd.plan, cmd.step)' <=> OnRecord(Start(1, plan), plan, "next")
      /\ \A x : Ahead(x)' <=> Beyond(x, Start(1, plan), plan)
  BY <1>1, CursorSet
<1>3. ASSUME NEW x \in Matching(plan) PROVE x # "next" /\ Ahead(x)'
  <2>1. PICK q \in DOMAIN plan.ranges : Within(Key(x), plan, q)
    BY DEF Matching, Within, Key
  <2>2. x \in DOMAIN ri /\ Key(x) \in plan.filter /\ q >= 1
    BY PlansAssumption DEF Matching, Key
  <2>3. Beyond(x, Start(1, plan), plan)
    BY <2>1, <2>2, StartGood
  <2> QED BY <1>2, <2>2, <2>3, NodeOfRecord, HashAssumption
<1>4. CInv'
  BY <1>1, <1>2, <1>3, StartGood DEF CInv
<1>5. \A x : Ahead(x)' => x \in Matching(plan)
  BY <1>2 DEF Beyond, Matching, Within, Key
<1>6. RInv'
  BY <1>1, <1>5 DEF RInv, vars, IsInjective, ToSet
<1> QED BY <1>4, <1>6 DEF CursorInv

(* scan_next passes over a record the filter drops.                        *)
LEMMA SkipKeeps ==
    ASSUME IInv, Unique, HashTypeOK, CursorInv, SkipId
    PROVE  CursorInv'
<1>1. /\ UNCHANGED <<vars, cmd, visited, expected>> /\ cursor' = Advanced
      /\ cmd.kind = "where" /\ cmd.step = "next" /\ mem[cursor.node] \notin cmd.plan.filter
  BY DEF SkipId, Scanning
<1>2. PICK z \in DOMAIN ri : cursor.node = ri[z]
  BY <1>1 DEF SkipId, CursorInv, CInv, OnRecord
<1>3. /\ OnRecord(cursor, cmd.plan, cmd.step)' <=> OnRecord(Advanced, cmd.plan, "next")
      /\ \A x : Ahead(x)' <=> Beyond(x, Advanced, cmd.plan)
  BY <1>1, CursorSet
<1>4. cmd.plan \in Plans /\ OnRecord(cursor, cmd.plan, cmd.step)
  BY <1>1, WhereTyped DEF CursorInv, CInv
<1>5. /\ OnRecord(Advanced, cmd.plan, "next")
      /\ \A x : Ahead(x) /\ x # z => Ahead(x)'
      /\ \A x : Ahead(x)' => Ahead(x)
  BY <1>2, <1>3, <1>4, AdvancedGood DEF Ahead
<1>6. ~Ahead(z)
  BY <1>1, <1>2 DEF Ahead, Beyond, Key
<1>7. CInv'
  BY <1>1, <1>3, <1>5, <1>6 DEF CursorInv, CInv
<1>8. RInv => RInv'
  BY <1>1, <1>5 DEF RInv, vars
<1> QED BY <1>7, <1>8 DEF CursorInv

(* The cursor goes on to the next range of its plan.                       *)
LEMMA NextRangeKeeps ==
    ASSUME IInv, Unique, HashTypeOK, CursorInv, NextRange
    PROVE  CursorInv'
<1> DEFINE next == cursor.range + 1
<1>1. /\ UNCHANGED <<vars, cmd, visited, expected>> /\ cursor' = Start(next, cmd.plan)
      /\ cmd.kind = "where" /\ cmd.step = "next" /\ cursor.node = NoNode
  BY DEF NextRange, Scanning
<1>2. cmd.plan \in Plans /\ cursor.range \in Nat /\ next \in Nat \ {0}
  BY <1>1, WhereTyped DEF HashTypeOK
<1>3. \A q \in DOMAIN cmd.plan.ranges : q \in Nat
  BY <1>2, PlansAssumption
<1>4. /\ OnRecord(cursor, cmd.plan, cmd.step)' <=> OnRecord(Start(next, cmd.plan), cmd.plan, "next")
      /\ \A x : Ahead(x)' <=> Beyond(x, Start(next, cmd.plan), cmd.plan)
  <2> HIDE DEF next
  <2> QED BY <1>1, CursorSet
<1>5. Start(next, cmd.plan).range = next
  BY DEF Start
<1>6. ASSUME NEW x, Ahead(x) PROVE Ahead(x)'
  <2>1. PICK q \in DOMAIN cmd.plan.ranges : Within(Key(x), cmd.plan, q) /\ q > cursor.range
    BY <1>1, <1>6 DEF Ahead, Beyond
  <2>2. x \in DOMAIN ri /\ Key(x) \in cmd.plan.filter /\ q >= next
    BY <1>2, <1>3, <1>6, <2>1 DEF Ahead, Beyond
  <2> HIDE DEF next
  <2> QED BY <1>2, <1>4, <2>1, <2>2, StartGood
<1>7. ASSUME NEW x, Ahead(x)' PROVE Ahead(x)
  <2>1. PICK q \in DOMAIN cmd.plan.ranges : Within(Key(x), cmd.plan, q) /\ (q > next \/ q = next)
    BY <1>4, <1>5, <1>7 DEF Beyond
  <2>2. q > cursor.range
    BY <1>2, <1>3, <2>1
  <2>3. x \in DOMAIN ri /\ Key(x) \in cmd.plan.filter
    BY <1>4, <1>7 DEF Beyond
  <2> QED BY <2>1, <2>2, <2>3 DEF Ahead, Beyond
<1>8. CInv'
  <2>1. OnRecord(Start(next, cmd.plan), cmd.plan, "next")
    BY <1>2, StartGood
  <2> QED BY <1>1, <1>4, <1>6, <2>1 DEF CursorInv, CInv
<1>9. RInv => RInv'
  BY <1>1, <1>7 DEF RInv, vars
<1> QED BY <1>8, <1>9 DEF CursorInv

(* Apply has returned: the id written has been visited.                    *)
LEMMA SettleKeeps ==
    ASSUME IInv, Unique, HashTypeOK, CursorInv, Settle, cmd.kind = "where"
    PROVE  CursorInv'
<1>1. UNCHANGED <<vars, cursor, visited, expected>> /\ cs = <<>> /\ Proceed("next")
  BY DEF Settle
<1>2. cmd'.kind = "where" /\ cmd'.plan = cmd.plan /\ cmd'.write = cmd.write /\ cmd'.step = "next"
  BY <1>1, WhereProceeds
<1>3. /\ OnRecord(cursor, cmd.plan, cmd.step)' <=> OnRecord(cursor, cmd.plan, "next")
      /\ \A x : Ahead(x)' <=> Ahead(x)
  BY <1>1, <1>2, CursorSet DEF Ahead
<1>4. \A y \in DOMAIN ri : y # "next"
  BY NodeOfRecord, HashAssumption
<1>5. CInv'
  BY <1>1, <1>2, <1>3, <1>4 DEF CursorInv, CInv, OnRecord, Ahead, Beyond
<1>6. RInv => RInv'
  BY <1>1, <1>2, <1>3 DEF RInv, vars
<1> QED BY <1>5, <1>6 DEF CursorInv

(* A write of a WHERE command: its ids are submitted for adding or, by a   *)
(* DEL, for deletion.                                                      *)
LEMMA WriteKeeps ==
    ASSUME IInv, Unique, HashTypeOK, CursorInv, cmd.kind = "where", NEW id \in Id,
           WriteHash(id) \/ DeleteHash(id) \/ NoWrite(id)
    PROVE  CursorInv'
<1>1. CASE WriteHash(id)
  <2>1. CASE Reindex(id)
    BY <1>1, <2>1, YieldKeeps DEF WriteHash, Reindex
  <2>2. CASE ReindexFails(id)
    <3>1. cmd'.kind # "where"
      BY <2>2 DEF ReindexFails, Idle
    <3> QED BY <3>1 DEF CursorInv, CInv, RInv
  <2> QED BY <1>1, <2>1, <2>2 DEF WriteHash
<1>2. CASE DeleteHash(id)
  BY <1>2, YieldKeeps DEF DeleteHash
<1>3. CASE NoWrite(id)
  BY <1>3, YieldKeeps DEF NoWrite
<1> QED BY <1>1, <1>2, <1>3

(* Only a WHERE clause has a cursor to keep. *)
LEMMA OtherKinds ==
    ASSUME HashTypeOK, cmd.kind # "where", [HashNext]_hvars,
           ~ \E command \in {"HSET", "HDEL", "DEL", "READ"}, plan \in Plans : Where(command, plan)
    PROVE  cmd'.kind # "where"
<1>1. ASSUME NEW write, NEW ids, IntoKeys(write, ids) PROVE cmd'.kind # "where"
  BY <1>1 DEF IntoKeys, Begin
<1>2. ASSUME NEW step \in {"next"} \cup Id, Proceed(step), cmd.kind # "idle" PROVE cmd'.kind # "where"
  <2>1. cmd.kind = "keys"
    BY <1>2 DEF HashTypeOK, Command
  <2> QED BY <1>2, <2>1, KeysTyped DEF HashTypeOK, Proceed
<1>3. ASSUME NEW id \in Id, WriteHash(id) \/ DeleteHash(id) \/ NoWrite(id) PROVE cmd'.kind # "where"
  <2>1. cmd.kind # "idle"
    BY <1>3 DEF WriteHash, DeleteHash, NoWrite, NextId
  <2>2. Proceed(id) \/ Proceed("next") \/ cmd' = Idle
    BY <1>3 DEF WriteHash, DeleteHash, NoWrite, Reindex, ReindexFails
  <2>3. CASE Proceed(id)
    BY <1>2, <2>1, <2>3
  <2>4. CASE Proceed("next")
    BY <1>2, <2>1, <2>4
  <2>5. CASE cmd' = Idle
    BY <2>5 DEF Idle
  <2> QED BY <2>2, <2>3, <2>4, <2>5
<1>4. ASSUME Settle PROVE cmd'.kind # "where"
  BY <1>2, <1>4 DEF Settle
<1>5. ASSUME Finish PROVE cmd'.kind # "where"
  BY <1>5 DEF Finish, Idle
<1>6. ~SkipId /\ ~NextRange
  BY DEF SkipId, NextRange, Scanning
<1>7. ASSUME UNCHANGED cmd PROVE cmd'.kind # "where"
  BY <1>7
<1> QED BY <1>1, <1>3, <1>4, <1>5, <1>6, <1>7 DEF HashNext, ApplyChange, hvars

LEMMA NextCursor ==
    ASSUME IInv, Unique, HashTypeOK, FInv, CursorInv, [HashNext]_hvars
    PROVE  CursorInv'
<1>1. ASSUME NEW command, NEW plan \in Plans, Where(command, plan) PROVE CursorInv'
  BY <1>1, WhereKeeps
<1>2. CASE cmd.kind # "where"
  <2>1. cmd'.kind # "where" => CursorInv'
    BY DEF CursorInv, CInv, RInv
  <2> QED BY <1>1, <1>2, <2>1, OtherKinds
<1>3. CASE cmd.kind = "where"
  <2>1. ASSUME NEW c, NEW cur, NEW ids, Begin(c, cur, ids) PROVE FALSE
    BY <1>3, <2>1 DEF Begin, Idle
  <2>2. ASSUME NEW id \in Id, WriteHash(id) \/ DeleteHash(id) \/ NoWrite(id) PROVE CursorInv'
    BY <1>3, <2>2, WriteKeeps
  <2>3. ASSUME Finish PROVE CursorInv'
    <3>1. cmd'.kind # "where"
      BY <2>3 DEF Finish, Idle
    <3> QED BY <3>1 DEF CursorInv, CInv, RInv
  <2>4. ASSUME UNCHANGED hvars PROVE CursorInv'
    <3>1. /\ OnRecord(cursor, cmd.plan, cmd.step)' <=> OnRecord(cursor, cmd.plan, cmd.step)
          /\ \A x : Ahead(x)' <=> Ahead(x)
      BY <2>4, CursorSet DEF hvars, Ahead
    <3> QED BY <2>4, <3>1 DEF CursorInv, CInv, RInv, hvars, vars
  <2> QED BY <1>3, <2>1, <2>2, <2>3, <2>4, SkipKeeps, NextRangeKeeps, ApplyKeeps, SettleKeeps
      DEF HashNext, IntoKeys, Where
<1> QED BY <1>2, <1>3

LEMMA CursorInvariant ==
    ASSUME Unique
    PROVE  HashSpec => []CursorInv
<1>1. HashInit => CursorInv
  BY DEF HashInit, Idle, CursorInv, CInv, RInv
<1>2. IInv /\ HashTypeOK /\ FInv /\ CursorInv /\ [HashNext]_hvars => CursorInv'
  BY NextCursor
<1> QED BY <1>1, <1>2, InvariantInside, HashTypeCorrect, FollowInvariant, PTL DEF HashSpec

(* On a UNIQUE index the cursor of a WHERE command never dangles: whatever *)
(* the command writes, scan_next has left the node it takes away, and the  *)
(* node the cursor is at stays in the list (skiplistIterator_Next,         *)
(* skiplistDelete).                                                        *)
THEOREM CursorStaysLive ==
    ASSUME Unique
    PROVE  HashSpec => []CursorLive
<1>1. IInv /\ HashTypeOK /\ CursorInv => CursorLive
  <2> SUFFICES ASSUME IInv, CursorInv, cmd.kind = "where", cursor.node # NoNode
               PROVE  \E i \in DOMAIN list :
                         list[i].obj = cursor.node /\ cursor.val \in DOMAIN list[i].vals
    BY DEF CursorLive
  <2>1. PICK y \in DOMAIN ri : ri[y] = cursor.node
    BY DEF CursorInv, CInv, OnRecord
  <2>2. PICK i \in 1..Len(list) : list[i].obj = cursor.node
    BY <2>1, NodeOfRecord
  <2>3. i \in DOMAIN list /\ Len(list[i].vals) = 1
    BY UniqueNodes
  <2>4. list[i].vals \in Seq(Id)
    BY <2>3, NodeFields DEF IInv, TypeOK
  <2>5. cursor.val = 1
    BY DEF CursorInv, CInv, OnRecord
  <2> QED BY <2>2, <2>3, <2>4, <2>5
<1> QED BY <1>1, InvariantInside, HashTypeCorrect, CursorInvariant, PTL

(* The cursor at its end has nothing ahead. *)
LEMMA NothingAhead ==
    ASSUME HashTypeOK, cmd.kind = "where", CursorAtEnd
    PROVE  \A x : ~Ahead(x)
<1>1. cmd.plan \in Plans /\ cursor.range \in Nat
  BY WhereTyped DEF HashTypeOK
<1>2. \A r \in DOMAIN cmd.plan.ranges : ~(r > cursor.range)
  BY <1>1, PlansAssumption DEF CursorAtEnd
<1> QED BY <1>2 DEF CursorAtEnd, Ahead, Beyond

(* A WHERE command on a UNIQUE index reaches every id that matched when it *)
(* began, for every plan of intervals and every sequence of writes: a      *)
(* write moves or removes only the record the cursor has left.             *)
THEOREM WritesReachAll == HashSpec => []WritesReachMatching
<1>1. CASE Unique
  <2>1. HashTypeOK /\ CursorInv => WritesReachMatching
    BY NothingAhead DEF CursorInv, CInv, WritesReachMatching
  <2> QED BY <1>1, <2>1, HashTypeCorrect, CursorInvariant, PTL
<1>2. CASE ~Unique
  <2>1. WritesReachMatching
    BY <1>2 DEF WritesReachMatching
  <2> QED BY <2>1, PTL
<1> QED BY <1>1, <1>2

(* A read or a DEL on a WHERE clause gives each id that matched at the     *)
(* start once and no other, on a UNIQUE index and as long as no tuple is   *)
(* in two ranges of the plan, which a value listed twice in an IN breaks.  *)
THEOREM ReadsVisitExactly ==
    ASSUME Unique, PlansDisjoint
    PROVE  HashSpec => []DeleteVisitsMatching
<1>1. HashTypeOK /\ CursorInv => DeleteVisitsMatching
  BY NothingAhead DEF CursorInv, CInv, RInv, DeleteVisitsMatching
<1> QED BY <1>1, HashTypeCorrect, CursorInvariant, PTL
-----------------------------------------------------------------------------
(* The records of f are the first n of the dump. *)
Held(f, n) ==
    /\ DOMAIN f = {dump.records[k].id : k \in 1..n}
    /\ \A k \in 1..n : f[dump.records[k].id] = dump.records[k].v

(* The record of a node of a UNIQUE index. *)
NodeRecord(i) == [id |-> list[i].vals[1], v |-> mem[list[i].obj]]

(* Half way through a save, the dump has the nodes behind the iterator.    *)
Saving ==
    phase = "save" =>
        /\ cs = <<>> /\ saved = Records
        /\ dump \in Dump /\ dump.elements = length
        /\ walk.val = 1 /\ walk.node = Len(dump.records) + 1
        /\ Len(dump.records) <= Len(list)
        /\ \A k \in 1..Len(dump.records) : dump.records[k] = NodeRecord(k)

(* A dump is complete, and no record in it stands in the way of another.   *)
Dumped ==
    phase # "save" /\ dump \in Dump =>
        /\ dump.elements = Len(dump.records)
        /\ \A j, k \in 1..Len(dump.records) :
             j # k => /\ dump.records[j].id # dump.records[k].id
                      /\ dump.records[j].v # dump.records[k].v
        /\ Held(saved, Len(dump.records))

(* Half way through a load, the index holds the records read so far, the   *)
(* last of them perhaps still to be applied.                               *)
Loading ==
    phase = "load" =>
        /\ dump \in Dump /\ read <= dump.elements
        /\ \/ cs = <<>> /\ Held(Records, read)
           \/ /\ read > 0 /\ Held(Records, read - 1)
              /\ cs = <<AddChange(dump.records[read].id, dump.records[read].v)>>

PInv == PTypeOK /\ Saving /\ Dumped /\ Loading
-----------------------------------------------------------------------------
(* What a step submits for one record is one change. *)
LEMMA OneRecord ==
    ASSUME NEW change \in Change, Submit(<<change>>)
    PROVE  Next
<1>1. 1 \in 1..MaxChanges /\ <<change>> \in [1..1 -> Change]
  BY PersistenceAssumption, IndexAssumption
<1> QED BY <1>1 DEF Next

(* The parts of a dump. *)
LEMMA DumpTyped ==
    ASSUME dump \in Dump
    PROVE  /\ dump.elements \in Nat /\ dump.records \in Seq(Record)
           /\ Len(dump.records) \in Nat
           /\ \A k \in 1..Len(dump.records) : /\ dump.records[k] \in Record
                                              /\ dump.records[k].id \in Id
                                              /\ dump.records[k].v \in Tuple
<1>1. dump.records \in Seq(Record)
  BY DEF Dump
<1>2. \A k \in 1..Len(dump.records) : dump.records[k] \in Record
  BY <1>1
<1> QED BY <1>1, <1>2 DEF Record, Dump

(* Nothing is done to the index between commands but what it knows.        *)
LEMMA PersistInside == Unique /\ PInv /\ [PNext]_pvars => [Next]_vars
<1> SUFFICES ASSUME PInv, [PNext]_pvars PROVE [Next]_vars
  OBVIOUS
<1>1. CASE Serve
  BY <1>1 DEF Serve, Next
<1>2. CASE Work
  BY <1>2 DEF Work, Next
<1>3. CASE BeginSave \/ SaveNode \/ EndSave \/ EndLoad
  BY <1>3 DEF BeginSave, SaveNode, EndSave, EndLoad
<1>4. CASE BeginLoad
  BY <1>4 DEF BeginLoad, Next
<1>5. CASE LoadRecord
  <2>1. read + 1 \in 1..Len(dump.records)
    BY <1>5, DumpTyped DEF LoadRecord, PInv, Loading, Dumped, PTypeOK
  <2>2. dump.records[read + 1].id \in Id /\ dump.records[read + 1].v \in Tuple
    BY <1>5, <2>1, DumpTyped DEF LoadRecord, PInv, Loading
  <2>3. AddChange(dump.records[read + 1].id, dump.records[read + 1].v) \in Change
    BY <2>2, ChangeTyped
  <2> QED BY <1>5, <2>3, OneRecord DEF LoadRecord
<1>6. CASE UNCHANGED pvars
  BY <1>6 DEF pvars, vars
<1> QED BY <1>1, <1>2, <1>3, <1>4, <1>5, <1>6 DEF PNext

(* The length a save begins with is the number of nodes it will visit.     *)
LEMMA LengthIsNodes ==
    ASSUME IInv, Counted, Unique
    PROVE  length = Len(list)
<1> DEFINE f == [i \in 1..Len(list) |-> list[i].vals[1]]
<1>1. f \in Bijection(1..Len(list), DOMAIN ri)
  <2>1. f \in [1..Len(list) -> DOMAIN ri]
    BY UniqueNodes
  <2>2. f \in Injection(1..Len(list), DOMAIN ri)
    BY <2>1, UniqueNodes DEF Injection, IsInjective
  <2>3. f \in Surjection(1..Len(list), DOMAIN ri)
    BY <2>1, UniqueNodes DEF Surjection
  <2> QED BY <2>2, <2>3 DEF Bijection
<1>2. IsFiniteSet(1..Len(list)) /\ Cardinality(1..Len(list)) = Len(list)
  <2>1. Len(list) \in Nat
    BY UniqueNodes
  <2>2. /\ IsFiniteSet(1..Len(list))
        /\ Cardinality(1..Len(list)) = IF 1 > Len(list) THEN 0 ELSE Len(list) - 1 + 1
    BY <2>1, FS_Interval
  <2> QED BY <2>1, <2>2
<1>3. Cardinality(DOMAIN ri) = Cardinality(1..Len(list))
  BY <1>1, <1>2, FS_Bijection DEF ExistsBijection
<1> QED BY <1>2, <1>3 DEF Counted
-----------------------------------------------------------------------------
LEMMA InitPInv == PInit => PInv
<1> SUFFICES ASSUME PInit PROVE PInv
  OBVIOUS
<1>1. saved \in [{} -> Tuple]
  BY DEF PInit
<1>2. saved \in PartialFn(Id, Tuple)
  BY <1>1 DEF PartialFn
<1>3. PTypeOK
  BY <1>2 DEF PInit, PTypeOK, WalkStart
<1> QED BY <1>3, PersistenceAssumption DEF PInit, PInv, Saving, Dumped, Loading

(* The dump starts with the count of what the index holds.                 *)
LEMMA BeginSaveStep ==
    ASSUME PInv, IInv, Counted, Unique, BeginSave
    PROVE  PInv'
<1>1. Records' = Records /\ list' = list /\ mem' = mem /\ cs' = cs /\ length' = length
  BY DEF BeginSave, vars, Records
<1>2. saved' \in PartialFn(Id, Tuple)
  <2>1. DOMAIN ri \subseteq Id /\ \A id \in DOMAIN ri : mem[ri[id]] \in Tuple
    BY PartialFnFields DEF IInv, TypeOK, KeysOwned
  <2>2. Records \in [DOMAIN ri -> Tuple]
    BY <2>1 DEF Records
  <2> QED BY <2>1, <2>2 DEF PartialFn, BeginSave
<1>3. length \in Nat /\ length = Len(list)
  BY LengthIsNodes, UniqueNodes
<1>4. /\ dump' = [elements |-> length, records |-> <<>>] /\ dump' \in Dump
      /\ Len(dump'.records) = 0 /\ dump'.elements = length
  BY <1>3 DEF BeginSave, Dump
<1>5. PTypeOK'
  BY <1>2, <1>4 DEF BeginSave, PInv, PTypeOK, WalkStart
<1> QED BY <1>1, <1>3, <1>4, <1>5 DEF BeginSave, PInv, Saving, Dumped, Loading, WalkStart

(* A sequence with one element more. *)
LEMMA OneMore ==
    ASSUME NEW S, NEW s \in Seq(S), NEW t \in Seq(S), Len(t) = 1
    PROVE  /\ s \o t \in Seq(S) /\ Len(s \o t) = Len(s) + 1
           /\ (s \o t)[Len(s) + 1] = t[1]
           /\ \A k \in 1..Len(s) : (s \o t)[k] = s[k]
<1>0. /\ s \o t \in Seq(S) /\ Len(s \o t) = Len(s) + Len(t)
      /\ \A i \in 1..(Len(s) + Len(t)) : (s \o t)[i] = IF i <= Len(s) THEN s[i] ELSE t[i - Len(s)]
  BY ConcatProperties, Zenon
<1>1. /\ s \o t \in Seq(S) /\ Len(s \o t) = Len(s) + 1 /\ Len(s) \in Nat
      /\ \A i \in 1..(Len(s) + 1) : (s \o t)[i] = IF i <= Len(s) THEN s[i] ELSE t[i - Len(s)]
  BY <1>0
<1>2. /\ (s \o t)[Len(s) + 1] = t[Len(s) + 1 - Len(s)] /\ Len(s) + 1 - Len(s) = 1
      /\ \A k \in 1..Len(s) : (s \o t)[k] = s[k]
  BY <1>1
<1> QED BY <1>1, <1>2

(* One round of the traversal visits one node, and adds its one record.    *)
LEMMA SaveNodeStep ==
    ASSUME PInv, IInv, Unique, SaveNode
    PROVE  PInv'
<1> DEFINE n == walk.node
           fresh == [i \in DOMAIN list[n].vals |-> [id |-> list[n].vals[i], v |-> mem[list[n].obj]]]
<1>1. /\ phase = "save" /\ n \in 1..Len(list) /\ n = Len(dump.records) + 1 /\ walk.val = 1
      /\ dump \in Dump /\ Len(list) \in Nat /\ Len(dump.records) \in Nat
      /\ walk \in [node : Nat \ {0}, val : Nat \ {0}]
  BY UniqueNodes, DumpTyped DEF SaveNode, PInv, PTypeOK, Saving
<1>2. Len(list[n].vals) = 1 /\ list[n].vals \in Seq(Id)
  <2>1. list \in Seq(Node) /\ n \in DOMAIN list
    BY <1>1, UniqueNodes DEF IInv, TypeOK
  <2> QED BY <1>1, <2>1, UniqueNodes, NodeFields
<1>3. walk' = [node |-> n + 1, val |-> 1]
  BY <1>1, <1>2 DEF SaveNode, Onward
<1>4. NodeRecord(n) \in Record
  BY <1>1, UniqueNodes DEF NodeRecord, Record
<1>5. fresh \in Seq(Record) /\ Len(fresh) = 1 /\ fresh[1] = NodeRecord(n)
  <2>1. DOMAIN list[n].vals = 1..1
    BY <1>2
  <2>2. fresh = [i \in 1..1 |-> NodeRecord(n)]
    BY <2>1 DEF NodeRecord
  <2> HIDE DEF fresh
  <2> QED BY <1>4, <2>2
<1>6. dump' = [dump EXCEPT !.records = @ \o fresh]
  BY DEF SaveNode
<1> HIDE DEF fresh
<1>7. /\ dump' \in Dump /\ dump'.elements = dump.elements
      /\ dump'.records = dump.records \o fresh
  <2>1. dump.records \o fresh \in Seq(Record)
    BY <1>1, <1>5, DumpTyped
  <2> QED BY <1>1, <1>6, <2>1 DEF Dump
<1>8. /\ Len(dump'.records) = n
      /\ dump'.records[n] = NodeRecord(n)
      /\ \A k \in 1..(n - 1) : dump'.records[k] = dump.records[k]
  <2>1. dump.records \in Seq(Record) /\ Len(dump.records) = n - 1 /\ Len(dump.records) + 1 = n
    BY <1>1, DumpTyped
  <2>2. /\ Len(dump.records \o fresh) = n /\ (dump.records \o fresh)[n] = fresh[1]
        /\ \A k \in 1..(n - 1) : (dump.records \o fresh)[k] = dump.records[k]
    BY <1>5, <2>1, OneMore
  <2> QED BY <1>5, <1>7, <2>2
<1>9. list' = list /\ mem' = mem /\ Records' = Records /\ length' = length /\ cs' = cs
  BY DEF SaveNode, vars, Records
<1>10. \A k \in 1..Len(dump'.records) : dump'.records[k] = NodeRecord(k)'
  <2> SUFFICES ASSUME NEW k \in 1..n PROVE dump'.records[k] = NodeRecord(k)
    BY <1>8, <1>9 DEF NodeRecord
  <2>1. CASE k = n
    BY <1>8, <2>1
  <2>2. CASE k < n
    <3>1. dump'.records[k] = dump.records[k]
      BY <1>1, <1>8, <2>2
    <3> QED BY <1>1, <2>2, <3>1 DEF PInv, Saving
  <2> QED BY <1>1, <2>1, <2>2
<1>11. PTypeOK'
  <2>1. walk' \in [node : Nat \ {0}, val : Nat \ {0}]
    BY <1>1, <1>3
  <2>2. UNCHANGED <<saved, phase, read>> /\ PTypeOK
    BY DEF SaveNode, PInv
  <2> QED BY <1>7, <2>1, <2>2 DEF PTypeOK
<1>12. Saving'
  <2>1. cs = <<>> /\ saved = Records /\ dump.elements = length /\ saved' = saved
    BY <1>1 DEF SaveNode, PInv, Saving
  <2>2. walk'.val = 1 /\ walk'.node = Len(dump'.records) + 1 /\ Len(dump'.records) <= Len(list')
    BY <1>1, <1>3, <1>8, <1>9
  <2> QED BY <1>7, <1>9, <1>10, <2>1, <2>2, Zenon DEF Saving
<1> QED BY <1>1, <1>11, <1>12 DEF SaveNode, PInv, Dumped, Loading

(* The dump of all nodes is a dump of the records.                         *)
LEMMA EndSaveStep ==
    ASSUME PInv, IInv, Counted, Unique, EndSave
    PROVE  PInv'
<1> DEFINE n == Len(list)
<1>0. /\ DOMAIN list = 1..n /\ n \in Nat
      /\ \A i \in 1..n : /\ list[i].vals[1] \in DOMAIN ri
                         /\ mem[ri[list[i].vals[1]]] = mem[list[i].obj]
      /\ \A i, j \in 1..n : i # j => /\ mem[list[i].obj] # mem[list[j].obj]
                                    /\ list[i].vals[1] # list[j].vals[1]
      /\ \A x \in DOMAIN ri : \E i \in 1..n : list[i].vals[1] = x
  BY UniqueNodes, Zenon
<1> HIDE DEF n
<1>1. /\ dump \in Dump /\ Len(dump.records) = n /\ dump.elements = n
      /\ \A k \in 1..n : dump.records[k] = NodeRecord(k)
      /\ saved = Records
  <2>1. /\ dump \in Dump /\ walk.node = Len(dump.records) + 1 /\ walk.node \notin 1..n
        /\ Len(dump.records) <= n /\ dump.elements = length /\ saved = Records
        /\ \A k \in 1..Len(dump.records) : dump.records[k] = NodeRecord(k)
    BY <1>0 DEF EndSave, PInv, Saving, n
  <2>2. Len(dump.records) = n
    BY <1>0, <2>1, DumpTyped
  <2> QED BY <2>1, <2>2, LengthIsNodes DEF n
<1>2. \A k \in 1..n : dump.records[k].id = list[k].vals[1] /\ dump.records[k].v = mem[list[k].obj]
  <2> SUFFICES ASSUME NEW k \in 1..n
               PROVE  dump.records[k].id = list[k].vals[1] /\ dump.records[k].v = mem[list[k].obj]
    OBVIOUS
  <2>1. dump.records[k] = [id |-> list[k].vals[1], v |-> mem[list[k].obj]]
    BY <1>1 DEF NodeRecord
  <2> QED BY <2>1
<1>3. \A j, k \in 1..n : j # k => /\ dump.records[j].id # dump.records[k].id
                                  /\ dump.records[j].v # dump.records[k].v
  BY <1>0, <1>2
<1>4. Held(saved, n)
  <2>1. DOMAIN Records = {dump.records[k].id : k \in 1..n}
    <3>1. DOMAIN ri = {list[k].vals[1] : k \in 1..n}
      <4>1. \A x : x \in DOMAIN ri <=> \E k \in 1..n : x = list[k].vals[1]
        BY <1>0
      <4> QED BY <4>1
    <3>2. {list[k].vals[1] : k \in 1..n} = {dump.records[k].id : k \in 1..n}
      BY <1>2
    <3> QED BY <3>1, <3>2 DEF Records
  <2>2. ASSUME NEW k \in 1..n
        PROVE  Records[dump.records[k].id] = dump.records[k].v
    <3>1. Records[list[k].vals[1]] = mem[ri[list[k].vals[1]]]
      BY <1>0 DEF Records
    <3> QED BY <1>0, <1>2, <3>1
  <2> QED BY <1>1, <2>1, <2>2 DEF Held
<1>5. PTypeOK'
  BY DEF EndSave, PInv, PTypeOK, WalkStart
<1>6. Dumped'
  BY <1>1, <1>3, <1>4 DEF EndSave, Dumped, Held
<1> QED BY <1>5, <1>6 DEF EndSave, PInv, Saving, Loading

(* The load starts with nothing in the index.                              *)
LEMMA BeginLoadStep ==
    ASSUME PInv, BeginLoad
    PROVE  PInv'
<1>1. PTypeOK'
  BY DEF BeginLoad, PInv, PTypeOK
<1>2. dump \in Dump /\ dump' = dump /\ dump.elements \in Nat
  BY DumpTyped DEF BeginLoad, PInv, PTypeOK
<1>3. Dumped'
  <2>1. /\ phase # "save" /\ phase' # "save" /\ dump' = dump /\ saved' = saved
        /\ Dumped
    BY DEF BeginLoad, PInv
  <2> QED BY <2>1 DEF Dumped, Held
<1>4. DOMAIN Records' = {} /\ cs' = <<>>
  BY DEF BeginLoad, Drop, Records
<1>5. Held(Records, 0)'
  BY <1>4 DEF Held
<1>6. Loading'
  BY <1>2, <1>4, <1>5 DEF BeginLoad, Loading
<1> QED BY <1>1, <1>3, <1>6 DEF BeginLoad, PInv, Saving

LEMMA LoadRecordStep ==
    ASSUME PInv, LoadRecord
    PROVE  PInv'
<1>1. /\ phase = "load" /\ cs = <<>> /\ read < dump.elements /\ read' = read + 1
      /\ cs' = <<AddChange(dump.records[read'].id, dump.records[read'].v)>>
      /\ Records' = Records
      /\ UNCHANGED <<dump, saved, phase, walk>>
  BY DEF LoadRecord, Submit, index, Records
<1>2. read \in Nat /\ dump \in Dump /\ dump.elements \in Nat /\ Held(Records, read)
  <2>1. cs = <<>> /\ phase = "load"
    BY <1>1
  <2> QED BY <2>1, DumpTyped DEF PInv, PTypeOK, Loading
<1>3. PTypeOK'
  BY <1>1, <1>2 DEF PInv, PTypeOK
<1>4. Loading'
  BY <1>1, <1>2 DEF Loading, Held
<1> QED BY <1>1, <1>3, <1>4 DEF PInv, Saving, Dumped, Held

(* The record at hand is not refused, and joins those read before it.      *)
LEMMA RecordJoins ==
    ASSUME PInv, IInv, Unique, phase = "load", cs # <<>>, cs' = <<>>, Promise!Next
    PROVE  DOMAIN Records' = DOMAIN Records \cup {dump.records[read].id}
           /\ Records' = [x \in DOMAIN Records'
                             |-> IF x = dump.records[read].id THEN dump.records[read].v ELSE Records[x]]
<1> DEFINE i == dump.records[read].id
           t == dump.records[read].v
<1>1. /\ dump \in Dump /\ read \in 1..Len(dump.records) /\ Held(Records, read - 1)
      /\ cs = <<AddChange(i, t)>>
  <2>1. /\ dump \in Dump /\ read <= dump.elements /\ read > 0 /\ Held(Records, read - 1)
        /\ cs = <<AddChange(i, t)>>
    BY DEF PInv, Loading
  <2>2. dump.elements = Len(dump.records) /\ read \in Nat
    BY <2>1 DEF PInv, Dumped, PTypeOK
  <2> QED BY <2>1, <2>2, DumpTyped
<1>2. i \in Id /\ t \in Tuple
  BY <1>1, DumpTyped
<1>3. Head(cs) = AddChange(i, t)
  BY <1>1, OneHead
<1>4. \A x \in DOMAIN Records : x # i /\ Records[x] # t
  <2> SUFFICES ASSUME NEW x \in DOMAIN Records PROVE x # i /\ Records[x] # t
    OBVIOUS
  <2>1. PICK k \in 1..(read - 1) : x = dump.records[k].id /\ Records[x] = dump.records[k].v
    BY <1>1 DEF Held
  <2>2. k \in 1..Len(dump.records) /\ k # read
    BY <1>1, DumpTyped
  <2>3. dump.records[k].id # i /\ dump.records[k].v # t
    BY <1>1, <2>2 DEF PInv, Dumped
  <2> QED BY <2>1, <2>3
<1> HIDE DEF i, t
<1> USE DEF Promise!NextChange, Promise!AddChange, Promise!DelChange, AddChange
<1>5. ASSUME NEW id \in Id, NEW u \in Tuple, Promise!Put(id, u)
      PROVE  Records' = [x \in DOMAIN Records \cup {i} |-> IF x = i THEN t ELSE Records[x]]
  <2>1. id = i /\ u = t
    BY <1>3, <1>5 DEF Promise!Put
  <2> QED BY <1>5, <2>1 DEF Promise!Put
<1>6. ASSUME NEW id \in Id, NEW u \in Tuple, Promise!Refuse(id, u) PROVE FALSE
  <2>1. u = t
    BY <1>3, <1>6 DEF Promise!Refuse
  <2>2. Promise!Holders(t) = {}
    BY <1>4 DEF Promise!Holders
  <2> QED BY <1>6, <2>1, <2>2 DEF Promise!Refuse
<1>7. ASSUME NEW id \in Id, Promise!Drop(id) \/ Promise!Reject(id) PROVE FALSE
  BY <1>2, <1>3, <1>7, IndexAssumption DEF Promise!Drop, Promise!Reject
<1>8. ~Promise!Begin /\ ~Promise!Clear
  BY DEF Promise!Begin, Promise!Clear
<1>9. Records' = [x \in DOMAIN Records \cup {i} |-> IF x = i THEN t ELSE Records[x]]
  BY <1>5, <1>6, <1>7, <1>8 DEF Promise!Next
<1> QED BY <1>9 DEF i, t

(* A change applied for a command, or for the load.                        *)
LEMMA WorkStep ==
    ASSUME PInv, IInv, IInv', Unique, Work
    PROVE  PInv'
<1>1. UNCHANGED <<dump, saved, phase, walk, read>> /\ [Next]_vars
  BY DEF Work, Next
<1>2. cs # <<>> /\ cs' \in {Tail(cs), <<>>}
  BY ApplyConsumes DEF Work
<1>3. PTypeOK' /\ Dumped' /\ Saving'
  BY <1>1, <1>2 DEF PInv, PTypeOK, Dumped, Held, Saving
<1>4. ASSUME phase = "load" PROVE Loading'
  <2>1. /\ dump \in Dump /\ read <= dump.elements /\ read > 0 /\ Held(Records, read - 1)
        /\ cs = <<AddChange(dump.records[read].id, dump.records[read].v)>>
    BY <1>2, <1>4 DEF PInv, Loading
  <2>2. cs' = <<>>
    BY <1>2, <2>1, OneHead
  <2>3. Promise!Next
    BY <1>1, <1>2, <2>2, StepKeeps DEF KeepsPromise, IInv, UniqueHoldsOnePerTuple
  <2>4. /\ DOMAIN Records' = DOMAIN Records \cup {dump.records[read].id}
        /\ Records' = [x \in DOMAIN Records'
                         |-> IF x = dump.records[read].id THEN dump.records[read].v ELSE Records[x]]
    BY <1>2, <1>4, <2>2, <2>3, RecordJoins
  <2>5. read \in Nat /\ read \in 1..Len(dump.records)
    BY <1>4, <2>1, DumpTyped DEF PInv, PTypeOK, Dumped
  <2>6. Held(Records', read)
    <3>1. DOMAIN Records' = {dump.records[k].id : k \in 1..read}
      <4>1. 1..read = (1..(read - 1)) \cup {read}
        BY <2>5
      <4> QED BY <2>1, <2>4, <4>1 DEF Held
    <3>2. ASSUME NEW k \in 1..read PROVE Records'[dump.records[k].id] = dump.records[k].v
      <4>1. dump.records[k].id \in DOMAIN Records'
        BY <3>1
      <4>2. CASE k = read
        BY <2>4, <4>1, <4>2
      <4>3. CASE k < read
        <5>1. k \in 1..Len(dump.records) /\ k # read /\ k \in 1..(read - 1)
          BY <2>5, <4>3
        <5>2. dump.records[k].id # dump.records[read].id
          BY <1>4, <2>1, <2>5, <5>1 DEF PInv, Dumped
        <5>3. Records[dump.records[k].id] = dump.records[k].v
          BY <2>1, <5>1 DEF Held
        <5> QED BY <2>4, <4>1, <5>2, <5>3
      <4> QED BY <2>5, <4>2, <4>3
    <3> QED BY <3>1, <3>2 DEF Held
  <2>7. Held(Records, read)'
    BY <1>1, <2>6 DEF Held
  <2> QED BY <1>1, <2>1, <2>2, <2>7 DEF Loading
<1>5. phase # "load" => Loading'
  BY <1>1 DEF Loading
<1> QED BY <1>3, <1>4, <1>5 DEF PInv

(* Every step keeps the index and its dump right.                          *)
LEMMA NextPInv ==
    ASSUME Unique
    PROVE  IInv /\ Counted /\ PInv /\ [PNext]_pvars => IInv' /\ Counted' /\ PInv'
<1> SUFFICES ASSUME IInv, Counted, PInv, [PNext]_pvars PROVE IInv' /\ Counted' /\ PInv'
  OBVIOUS
<1>1. IInv' /\ Counted'
  BY PersistInside, NextIInv, NextCounted
<1> SUFFICES PInv'
  BY <1>1
<1>2. CASE Serve
  <2>1. phase = "serve" /\ UNCHANGED <<dump, saved, phase, walk, read>>
    BY <1>2 DEF Serve
  <2>2. PTypeOK' /\ Dumped'
    BY <2>1 DEF PInv, PTypeOK, Dumped, Held
  <2>3. Saving' /\ Loading'
    BY <2>1 DEF PInv, Saving, Loading
  <2> QED BY <2>2, <2>3 DEF PInv
<1>3. CASE Work
  BY <1>1, <1>3, WorkStep
<1>4. CASE BeginSave
  BY <1>4, BeginSaveStep
<1>5. CASE SaveNode
  BY <1>5, SaveNodeStep
<1>6. CASE EndSave
  BY <1>6, EndSaveStep
<1>7. CASE BeginLoad
  BY <1>7, BeginLoadStep
<1>8. CASE LoadRecord
  BY <1>8, LoadRecordStep
<1>9. CASE EndLoad
  <2>1. /\ phase = "load" /\ phase' = "serve" /\ read' = 0
        /\ UNCHANGED <<dump, saved, walk>>
    BY <1>9 DEF EndLoad, Loaded
  <2>2. PTypeOK'
    BY <2>1 DEF PInv, PTypeOK
  <2>3. Dumped'
    BY <2>1 DEF PInv, Dumped, Held
  <2> QED BY <2>1, <2>2, <2>3 DEF PInv, Saving, Loading
<1>10. CASE UNCHANGED pvars
  <2>1. Records' = Records
    BY <1>10 DEF pvars, Records
  <2>2. UNCHANGED <<list, mem, length, cs, dump, saved, phase, walk, read>>
    BY <1>10 DEF pvars
  <2>3. PTypeOK' /\ Dumped'
    BY <2>2 DEF PInv, PTypeOK, Dumped, Held
  <2>4. Saving'
    BY <2>1, <2>2 DEF PInv, Saving, NodeRecord
  <2>5. Loading'
    BY <2>1, <2>2 DEF PInv, Loading, Held
  <2> QED BY <2>3, <2>4, <2>5 DEF PInv
<1> QED BY <1>2, <1>3, <1>4, <1>5, <1>6, <1>7, <1>8, <1>9, <1>10 DEF PNext

LEMMA PersistInvariant ==
    ASSUME Unique
    PROVE  PSpec => [](IInv /\ Counted /\ PInv)
<1>1. PInit => IInv /\ Counted /\ PInv
  BY InitPInv, InitIInv, InitCounted DEF PInit
<1> QED BY <1>1, NextPInv, PTL DEF PSpec
-----------------------------------------------------------------------------
(* A UNIQUE index that is saved and loaded, at any moment between two      *)
(* commands, goes through no step CompoundIndex.tla does not know: what is *)
(* proved there holds across __redisIndex_SaveIndex and _LoadIndex.        *)
THEOREM ReloadInside ==
    ASSUME Unique
    PROVE  PSpec => Spec
<1>1. PInit => Init
  BY DEF PInit
<1>2. IInv /\ Counted /\ PInv /\ [PNext]_pvars => [Next]_vars
  BY PersistInside
<1> QED BY <1>1, <1>2, PersistInvariant, PTL DEF PSpec, Spec

(* Through all saves and loads of a UNIQUE index the state keeps its types *)
(* and the dump is a well-formed one (__redisIndex_SaveIndex, _LoadIndex). *)
THEOREM PersistTypeCorrect ==
    ASSUME Unique
    PROVE  PSpec => []PTypeOK
<1>1. PInv => PTypeOK
  BY DEF PInv
<1> QED BY <1>1, PersistInvariant, PTL

(* Every UNIQUE index, of any number of records, comes back from its dump  *)
(* with the records it was saved with, and its dump is read to the end.    *)
THEOREM UniqueAlwaysReloads == PSpec => []UniqueReloads
<1>1. CASE Unique
  <2>1. IInv /\ Counted /\ PInv => UniqueReloads
    <3> SUFFICES ASSUME PInv, Loaded PROVE Records = saved /\ read = Len(dump.records)
      BY DEF UniqueReloads
    <3>1. /\ dump \in Dump /\ read = Len(dump.records)
          /\ Held(Records, read) /\ Held(saved, read)
      BY DEF PInv, Loading, Dumped, Loaded
    <3>2. DOMAIN Records = DOMAIN saved /\ \A x \in DOMAIN saved : Records[x] = saved[x]
      BY <3>1 DEF Held
    <3>3. PICK D \in SUBSET Id : saved \in [D -> Tuple]
      BY DEF PInv, PTypeOK, PartialFn
    <3>4. Records = [x \in DOMAIN saved |-> Records[x]] /\ saved = [x \in DOMAIN saved |-> saved[x]]
      BY <3>2, <3>3 DEF Records
    <3> QED BY <3>1, <3>2, <3>4
  <2> QED BY <1>1, <2>1, PersistInvariant, PTL
<1>2. CASE ~Unique
  <2>1. UniqueReloads
    BY <1>2 DEF UniqueReloads
  <2> QED BY <2>1, PTL
<1> QED BY <1>1, <1>2

=============================================================================
