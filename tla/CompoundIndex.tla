---------------------------- MODULE CompoundIndex ---------------------------
(***************************************************************************)
(* The compound index of src/index.c: a skip list of nodes ordered by      *)
(* value tuple, a reverse index from ids to the tuples they are stored     *)
(* under, and the heap of key chunks (SIMultiKey) both of them point into. *)
(*                                                                         *)
(* A command hands a change set to compoundIndex_Apply, which applies its  *)
(* changes one by one; each change is a step here.  Nodes and the reverse  *)
(* index hold POINTERS: the chunk a node points at is the one of the first *)
(* id stored in it, and the code frees that chunk when that id leaves,     *)
(* whoever else is in the node.  From then on (`tainted`) the code reads   *)
(* freed memory, and the specification lets it read anything.              *)
(***************************************************************************)
EXTENDS NodeList, ChangeSet

CONSTANTS
    Id,         \* ids of indexed objects (SIId)
    Addr,       \* addresses malloc can return for keys
    Unique,     \* spec.flags & SI_INDEX_UNIQUE
    NoKey,      \* the content of a chunk that holds no key
    BadValues,  \* a value vector whose length is not numFuncs
    MaxChanges  \* bound: changes in one change set

ASSUME IndexAssumption ==
    /\ Unique \in BOOLEAN
    /\ NoKey \notin Tuple /\ BadValues \notin Tuple
    /\ MaxChanges \in Nat

Change == Changes(Id, Tuple \cup {BadValues})

VARIABLES
    list,       \* the skip list: sequence of [obj: address, vals: ids]
    ri,         \* the reverse index: id -> address of its key
    mem,        \* what each chunk holds
    live,       \* the chunks allocated
    length,     \* idx->length
    cs,         \* the changes of the change set in progress still to apply
    rc,         \* what Apply returns
    tainted,    \* history: a chunk was freed that a node still points at
    dropped     \* history: chunks [leaked, twice] freed by the last Free

index == <<list, ri, mem, live, length>>
vars == <<list, ri, mem, live, length, cs, rc, tainted, dropped>>

(* What the nodes of a list point at. *)
Deref(l, m) == [i \in DOMAIN l |-> m[l[i].obj]]

PointsAt(l, a) == \E i \in DOMAIN l : l[i].obj = a

CleanDrop == [leaked |-> {}, twice |-> {}]

(* SI_NewCompoundIndex *)
NoKeys == [a \in Addr |-> NoKey]

Init ==
    /\ list = <<>> /\ ri = <<>> /\ mem = NoKeys /\ live = {} /\ length = 0
    /\ cs = <<>> /\ rc = OK /\ tainted = FALSE /\ dropped = CleanDrop
-----------------------------------------------------------------------------
(* A command calls compoundIndex_Apply.  Bound: a program that has read    *)
(* freed memory is not followed into another command.                      *)
Submit(changes) ==
    /\ cs = <<>> /\ ~tainted
    /\ cs' = changes /\ rc' = OK /\ dropped' = CleanDrop
    /\ UNCHANGED <<index, tainted>>

(* The loop of compoundIndex_Apply: go on after OK and NOTFOUND, give up   *)
(* at anything else.                                                       *)
GoOn == cs' = Tail(cs) /\ UNCHANGED <<rc, dropped>>
GiveUp(code) == cs' = <<>> /\ rc' = code /\ UNCHANGED <<index, tainted, dropped>>

(* The change set at hand starts with this change. *)
Adding(id, v) == cs # <<>> /\ Head(cs) = AddChange(id, v)
Deleting(id) == cs # <<>> /\ Head(cs) = DelChange(id)

AddRejected(id) == Adding(id, BadValues) /\ GiveUp(ERROR)

(* Mutant of AddUnchanged: the strcmp with the id in the node is dropped.  *)
MutantAnyonesTuple(id, t) ==
    /\ Adding(id, t) /\ Unique
    /\ \E p \in Landings(Deref(list, mem), t) : Hit(Deref(list, mem), p, t)
    /\ GoOn /\ UNCHANGED <<index, tainted>>

(* applyAdd on a UNIQUE index, the tuple is there: the id's own...         *)
AddUnchanged(id, t) ==
    /\ Adding(id, t) /\ Unique
    /\ \E p \in Landings(Deref(list, mem), t) :
         Hit(Deref(list, mem), p, t) /\ list[p].vals[1] = id
    /\ GoOn /\ UNCHANGED <<index, tainted>>

(* ... or another's. *)
AddDuplicate(id, t) ==
    /\ Adding(id, t) /\ Unique
    /\ \E p \in Landings(Deref(list, mem), t) :
         Hit(Deref(list, mem), p, t) /\ list[p].vals[1] # id
    /\ GiveUp(DUPLICATE_KEY)

(* Mutant of Admitted: the duplicate check is not made.                    *)
MutantNoDuplicateCheck(t) == t \in Tuple

Admitted(t) ==
    Unique => \E p \in Landings(Deref(list, mem), t) : ~Hit(Deref(list, mem), p, t)

(* Mutant of Bind: kh_put finds the id and its old value is kept.          *)
MutantKeepOldKey(r, id, a) ==
    [x \in DOMAIN r \cup {id} |-> IF x \in DOMAIN r THEN r[x] ELSE a]

(* Mutant of Forget: the id stays in the reverse index.                    *)
MutantRemember(r, id) == Restrict(r, DOMAIN r \cup {id})

(* SIReverseIndex_Insert and SIReverseIndex_Delete. *)
Bind(r, id, a) == [x \in DOMAIN r \cup {id} |-> IF x = id THEN a ELSE r[x]]
Forget(r, id) == Restrict(r, DOMAIN r \ {id})

(* skiplistInsert of the key at address a, which holds t in memory m. *)
InsertKey(l, m, a, t, id) ==
    \E p \in Landings(Deref(l, m), t) :
        list' = ListInsert(l, Deref(l, m), p, t, a, id)

(* applyAdd of an id the reverse index does not know. *)
AddNew(id, t) ==
    /\ Adding(id, t) /\ Admitted(t) /\ id \notin DOMAIN ri
    /\ \E a \in Addr \ live :
         /\ mem' = [mem EXCEPT ![a] = t]
         /\ live' = live \cup {a}
         /\ ri' = Bind(ri, id, a)
         /\ InsertKey(list, mem', a, t, id)
    /\ length' = length + 1
    /\ GoOn /\ UNCHANGED tainted

(* The lists skiplistDelete(idx->sl, oldkey, id) can leave behind. *)
Unlinked(id) ==
    LET keys == Deref(list, mem)
        old == mem[ri[id]]
    IN  {ListDelete(list, keys, p, old, id) : p \in Landings(keys, old)}

(* free(oldkey): a chunk nobody points at is forgotten; a chunk a node     *)
(* still points at may read as anything from here on.                      *)
FreedContent(l, a) == IF PointsAt(l, a) THEN Tuple ELSE {NoKey}

(* applyAdd of an id under another tuple (or, when the index is not        *)
(* UNIQUE, under the same one): delete the old entry, free its key, store  *)
(* the new one.  A UNIQUE index allocates the new key before the free, any *)
(* other after it, where malloc may return the chunk just freed.           *)
AddMove(id, t) ==
    /\ Adding(id, t) /\ Admitted(t) /\ id \in DOMAIN ri
    /\ \E l \in Unlinked(id) : \E a \in Addr, junk \in FreedContent(l, ri[id]) :
         /\ a \notin (IF Unique THEN live ELSE live \ {ri[id]})
         /\ mem' = [mem EXCEPT ![ri[id]] = junk, ![a] = t]
         /\ live' = (live \ {ri[id]}) \cup {a}
         /\ ri' = Bind(ri, id, a)
         /\ tainted' = (tainted \/ PointsAt(l, ri[id]))
         /\ InsertKey(l, mem', a, t, id)
    /\ GoOn /\ UNCHANGED length

(* Mutant of DelRecord: free(oldkey) is forgotten.                         *)
MutantDelLeaks(id) ==
    /\ Deleting(id) /\ id \in DOMAIN ri
    /\ list' \in Unlinked(id)
    /\ ri' = Forget(ri, id)
    /\ length' = length - 1
    /\ GoOn /\ UNCHANGED <<mem, live, tainted>>

(* Mutant of DelRecord: --idx->length is forgotten.                        *)
MutantDelUncounted(id) ==
    /\ Deleting(id) /\ id \in DOMAIN ri
    /\ \E l \in Unlinked(id) : \E junk \in FreedContent(l, ri[id]) :
         /\ list' = l
         /\ mem' = [mem EXCEPT ![ri[id]] = junk]
         /\ tainted' = (tainted \/ PointsAt(l, ri[id]))
    /\ live' = live \ {ri[id]}
    /\ ri' = Forget(ri, id)
    /\ GoOn /\ UNCHANGED length

(* applyDel *)
DelRecord(id) ==
    /\ Deleting(id) /\ id \in DOMAIN ri
    /\ \E l \in Unlinked(id) : \E junk \in FreedContent(l, ri[id]) :
         /\ list' = l
         /\ mem' = [mem EXCEPT ![ri[id]] = junk]
         /\ tainted' = (tainted \/ PointsAt(l, ri[id]))
    /\ live' = live \ {ri[id]}
    /\ ri' = Forget(ri, id)
    /\ length' = length - 1
    /\ GoOn

(* Mutant of DelMissing: Apply gives up at NOTFOUND too.                   *)
MutantStopAtMissing(id) ==
    Deleting(id) /\ id \notin DOMAIN ri /\ GiveUp("NOTFOUND")

DelMissing(id) ==
    /\ Deleting(id) /\ id \notin DOMAIN ri
    /\ GoOn /\ UNCHANGED <<index, tainted>>

(* Mutant of Drop: the loop of Free moves on before it frees.              *)
MutantDropSkipsFirst ==
    LET freed == {list[i].obj : i \in DOMAIN list \ {1}}
    IN  /\ cs = <<>>
        /\ dropped' = [leaked |-> live \ freed, twice |-> freed \ live]
        /\ list' = <<>> /\ ri' = <<>> /\ mem' = NoKeys /\ live' = {} /\ length' = 0
        /\ tainted' = FALSE /\ UNCHANGED <<cs, rc>>

(* compoundIndex_Free, when redis drops the index key, and a new index in  *)
(* its place.  The loop of Free meets a node once per value it holds, and  *)
(* frees the node's key each time.                                         *)
Drop ==
    LET freed == {list[i].obj : i \in DOMAIN list}
        metAgain(a) == \E i, j \in DOMAIN list :
                           /\ list[i].obj = a /\ list[j].obj = a
                           /\ i # j \/ Len(list[i].vals) > 1
    IN  /\ cs = <<>>
        /\ dropped' = [leaked |-> live \ freed,
                       twice |-> {a \in freed : a \notin live \/ metAgain(a)}]
        /\ list' = <<>> /\ ri' = <<>> /\ mem' = NoKeys /\ live' = {} /\ length' = 0
        /\ tainted' = FALSE /\ UNCHANGED <<cs, rc>>

Apply(id) ==
    \/ AddRejected(id) \/ DelRecord(id) \/ DelMissing(id)
    \/ \E t \in Tuple : AddUnchanged(id, t) \/ AddDuplicate(id, t) \/ AddNew(id, t) \/ AddMove(id, t)

Next ==
    \/ \E n \in 1..MaxChanges : \E changes \in [1..n -> Change] : Submit(changes)
    \/ \E id \in Id : Apply(id)
    \/ Drop

Spec == Init /\ [][Next]_vars
-----------------------------------------------------------------------------
Node == [obj : Addr, vals : Seq(Id)]
PartialFn(S, T) == UNION {[D -> T] : D \in SUBSET S}

TypeOK ==
    /\ list \in Seq(Node)
    /\ ri \in PartialFn(Id, Addr)
    /\ mem \in [Addr -> Tuple \cup {NoKey}]
    /\ live \in SUBSET Addr
    /\ length \in Int
    /\ cs \in Seq(Change)
    /\ rc \in {OK, ERROR, DUPLICATE_KEY}
    /\ tainted \in BOOLEAN
    /\ dropped \in [leaked : SUBSET Addr, twice : SUBSET Addr]

(* Key chunks are owned by the reverse index: each id has a chunk of its   *)
(* own, and every allocated chunk belongs to some id.  Nothing is leaked   *)
(* and free() is never called on a chunk twice by the adds and deletes,    *)
(* in whatever order they come (the free(oldkey) of applyAdd and applyDel).*)
KeysOwned ==
    /\ Range(ri) = live
    /\ IsInjective(ri)
    /\ \A id \in DOMAIN ri : mem[ri[id]] \in Tuple

(* idx->length, which IDX.CARD reports, counts the ids, although applyAdd  *)
(* and applyDel change it on four paths and never recompute it.            *)
LengthCounts == length = Cardinality(DOMAIN ri)

(* The nodes of l are in strictly ascending order of the tuples they point *)
(* at in m, so that skiplistFind can find each of them.                    *)
Sorted(l, m) == \A i, j \in DOMAIN l : i < j => Lt(m[l[i].obj], m[l[j].obj])

(* A node holds ids, each once, and points at the chunk of one of them.    *)
NodesOwned(l, r) ==
    \A i \in DOMAIN l :
        /\ IsInjective(l[i].vals)
        /\ \E id \in ToSet(l[i].vals) : id \in DOMAIN r /\ r[id] = l[i].obj

(* An id is in a node exactly when the reverse index r knows it, and the   *)
(* node's tuple is the id's: the two structures applyAdd and applyDel      *)
(* update one after the other tell the same story.                         *)
Agreement(l, m, r) ==
    /\ \A id \in DOMAIN r : \E i \in DOMAIN l : id \in ToSet(l[i].vals)
    /\ \A i \in DOMAIN l : \A id \in ToSet(l[i].vals) :
         id \in DOMAIN r /\ m[r[id]] = m[l[i].obj]

Consistent(l, m, r) == Sorted(l, m) /\ NodesOwned(l, r) /\ Agreement(l, m, r)

(* Reverse index, node order and node contents are right in every state    *)
(* reached without freeing a chunk some node points at, over all sequences *)
(* of adds, moves and deletes (compoundIndex_applyAdd, _applyDel).         *)
ConsistentUntilTainted == ~tainted => Consistent(list, mem, ri)

(* A UNIQUE index holds one id per tuple (docs/Commands.md:19), whatever   *)
(* order of adds, moves and deletes brought it here; and as its nodes are  *)
(* never shared, it never frees a chunk a node points at.                  *)
UniqueHoldsOnePerTuple ==
    Unique => /\ \A i \in DOMAIN list : Len(list[i].vals) = 1
              /\ \A x, y \in DOMAIN ri : mem[ri[x]] = mem[ri[y]] => x = y
              /\ ~tainted

(* compoundIndex_Free releases every key chunk of a UNIQUE index, once.    *)
UniqueDropReleases == Unique => dropped = CleanDrop

(* The promise an index makes to the commands (SecondaryIndex.tla).        *)
Records == [id \in DOMAIN ri |-> mem[ri[id]]]

Promise == INSTANCE SecondaryIndex WITH records <- Records, todo <- cs

ImplementsSecondaryIndex == Promise!Spec

(* Every step up to the first one that taints applies the change at hand   *)
(* to the records as promised, also on an index where ids share tuples.    *)
StepsKeepPromise == [][~tainted' => (Promise!Next \/ UNCHANGED <<Records, cs, rc>>)]_vars
-----------------------------------------------------------------------------
(* What the repository says and the code does not do.                      *)

(* src/reverse_index.h:7 "keeps track of the ids and value tuples the      *)
(* index holds": every id is found in the index under the tuple the        *)
(* reverse index has for it.                                               *)
ReverseIndexTracks ==
    \A id \in DOMAIN ri :
        \E i \in DOMAIN list :
            id \in ToSet(list[i].vals) /\ mem[list[i].obj] = mem[ri[id]]

=============================================================================
