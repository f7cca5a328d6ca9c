------------------------------- MODULE Skiplist -----------------------------
(***************************************************************************)
(* The skip list of src/skiplist/skiplist.c with its pointers: towers of   *)
(* forward links, the span each link crosses, back pointers, the tail, the *)
(* length and the current height.  Levels are counted from 1 (level[i-1]   *)
(* of the C code).  Each call is one action: redis runs them one at a time.*)
(***************************************************************************)
EXTENDS NodeList

CONSTANTS
    Val,        \* the values (ids) stored under keys
    Nil,        \* NULL
    Header,     \* the header node
    NodeId,     \* addresses malloc can return for nodes
    MaxLevel    \* SKIPLIST_MAXLEVEL

ASSUME SkiplistAssumption ==
    /\ MaxLevel \in Nat \ {0}
    /\ Nil \notin Tuple \cup Val \cup NodeId
    /\ Header \notin NodeId \cup {Nil}

VARIABLES
    node,       \* the allocated nodes: address -> [obj, vals, backward, level]
    tail,       \* the last node or Nil
    length,     \* number of nodes
    level,      \* number of levels in use
    ret         \* what the last call returned: the key it found or made, or Nil

vars == <<node, tail, length, level, ret>>

(* skiplistCreate *)
Init ==
    /\ node = [x \in {Header} |->
                   [obj |-> Nil, vals |-> <<>>, backward |-> Nil,
                    level |-> [i \in 1..MaxLevel |-> [forward |-> Nil, span |-> 0]]]]
    /\ tail = Nil /\ length = 0 /\ level = 1 /\ ret = Nil

Forward(x, i) == node[x].level[i].forward

(* The nodes whose tower reaches level i. *)
OnLevel(i) == {x \in DOMAIN node : i \in DOMAIN node[x].level}

(* Mutant of Past: the loop also passes the key it looks for.              *)
MutantPassEqual(key, k, exclusive) == Lt(key, k) \/ key = k

(* The condition of the search loops: stay on the level while the next key *)
(* is below k or, for an exclusive lower bound, equal to it.               *)
Past(key, k, exclusive) == Lt(key, k) \/ (exclusive /\ key = k)

(* The inner search loop on level i from x: the node it stops at and the   *)
(* sum of the spans it crosses.                                            *)
Walk(k, exclusive, x, i) ==
    LET w[y \in OnLevel(i)] ==
            LET f == Forward(y, i)
            IN  IF f # Nil /\ Past(node[f].obj, k, exclusive)
                THEN [w[f] EXCEPT !.rank = @ + node[y].level[i].span]
                ELSE [at |-> y, rank |-> 0]
    IN  w[x]

(* The outer loop: update[] and rank[] of the C code, one entry per level. *)
Path(k, exclusive) ==
    LET p[i \in 1..level] ==
            LET from == IF i = level THEN [at |-> Header, rank |-> 0] ELSE p[i + 1]
                stop == Walk(k, exclusive, from.at, i)
            IN  [at |-> stop.at, rank |-> from.rank + stop.rank]
    IN  p

FindAtLeast(k, exclusive) == Forward(Path(k, exclusive)[1].at, 1)

Found(x, k) == x # Nil /\ node[x].obj = k

Find(k) ==
    LET x == FindAtLeast(k, FALSE)
    IN  IF Found(x, k) THEN x ELSE Nil

(* Mutant of Beyond: the upper bound is always taken as inclusive.         *)
MutantMaxInclusive(x, max, maxExclusive) == max # Nil /\ Lt(max, node[x].obj)

(* An iterator is at a value of a node.  It stops (at = Nil) behind max;   *)
(* max = Nil means no upper bound.                                         *)
Beyond(x, max, maxExclusive) ==
    max # Nil /\ (Lt(max, node[x].obj) \/ (maxExclusive /\ node[x].obj = max))

Clip(x, max, maxExclusive) ==
    IF x # Nil /\ Beyond(x, max, maxExclusive) THEN Nil ELSE x

(* skiplistIterateRange followed by skiplistIterator_Next until the end:   *)
(* the values returned, in order.                                          *)
Scan(min, minExclusive, max, maxExclusive) ==
    LET values[x \in DOMAIN node \cup {Nil}] ==
            IF x = Nil THEN <<>>
            ELSE node[x].vals \o values[Clip(Forward(x, 1), max, maxExclusive)]
    IN  values[Clip(FindAtLeast(min, minExclusive), max, maxExclusive)]
-----------------------------------------------------------------------------
(* Mutant of InsertAppend: no check for a value that is there already.     *)
MutantAppendAgain(k, v) ==
    LET x == FindAtLeast(k, FALSE)
    IN  /\ Found(x, k)
        /\ node' = [node EXCEPT ![x].vals = Append(@, v)]
        /\ ret' \in {k, Nil}
        /\ UNCHANGED <<tail, length, level>>

(* skiplistInsert on a key that is there: skiplistNodeAppendValue, which   *)
(* returns NULL for a duplicate and nothing at all after an append.        *)
InsertAppend(k, v) ==
    LET x == FindAtLeast(k, FALSE)
    IN  /\ Found(x, k)
        /\ node' = [node EXCEPT ![x].vals = AppendValue(@, v)]
        /\ ret' \in IF v \in ToSet(node[x].vals) THEN {Nil} ELSE {k, Nil}
        /\ UNCHANGED <<tail, length, level>>

(* Mutant of Splice: the spans of the untouched levels are not increased.  *)
MutantSpanKept(link, i, h, x, rank, found) ==
    IF i <= h THEN [forward |-> x, span |-> found - rank + 1] ELSE link

(* Mutant of Splice: level 1 alone is linked to the new node.              *)
MutantLowTower(link, i, h, x, rank, found) ==
    IF i = 1 THEN [forward |-> x, span |-> found - rank + 1]
             ELSE [link EXCEPT !.span = @ + 1]

(* The links of level i are spliced around the new node x of height h; the *)
(* search stopped at `at` after crossing `rank` nodes, `found` of them on  *)
(* level 1.  Levels above the tower only cross one more node.              *)
Splice(link, i, h, x, rank, found) ==
    IF i <= h THEN [forward |-> x, span |-> found - rank + 1]
              ELSE [link EXCEPT !.span = @ + 1]

(* skiplistInsert of a new key, with a tower of h levels, in a new chunk x.*)
InsertNode(k, v, h, x) ==
    LET path == Path(k, FALSE)
        next == Forward(path[1].at, 1)
        at(i) == IF i <= level THEN path[i].at ELSE Header
        rank(i) == IF i <= level THEN path[i].rank ELSE 0
        before(i) == IF i <= level THEN node[at(i)].level[i].span ELSE length
        top == IF h > level THEN h ELSE level
        new == [obj |-> k, vals |-> <<v>>,
                backward |-> IF at(1) = Header THEN Nil ELSE at(1),
                level |-> [i \in 1..h |->
                              [forward |-> Forward(at(i), i),
                               span |-> before(i) - (rank(1) - rank(i))]]]
        old(y) == [node[y] EXCEPT
                      !.backward = IF y = next THEN x ELSE @,
                      !.level = [i \in DOMAIN @ |->
                                    IF i <= top /\ at(i) = y
                                    THEN Splice(@[i], i, h, x, rank(i), rank(1))
                                    ELSE @[i]]]
    IN  /\ ~Found(next, k)
        /\ node' = [y \in DOMAIN node \cup {x} |-> IF y = x THEN new ELSE old(y)]
        /\ tail' = IF next = Nil THEN x ELSE tail
        /\ length' = length + 1
        /\ level' = top
        /\ ret' = k

Insert(k, v) ==
    \/ InsertAppend(k, v)
    \/ \E h \in 1..MaxLevel, x \in NodeId \ DOMAIN node : InsertNode(k, v, h, x)

(* Mutant of Unlink: back pointers and tail are left alone.                *)
MutantUnlinkForwardOnly(x, path) ==
    LET at(i) == path[i].at
        gone(link, i) ==
            IF link.forward = x
            THEN [forward |-> Forward(x, i), span |-> link.span + node[x].level[i].span - 1]
            ELSE [link EXCEPT !.span = @ - 1]
        left == [y \in DOMAIN node \ {x} |->
                    [node[y] EXCEPT !.level =
                        [i \in DOMAIN @ |-> IF i <= level /\ at(i) = y THEN gone(@[i], i) ELSE @[i]]]]
        used == {1} \cup {i \in 2..level : left[Header].level[i].forward # Nil}
    IN  node' = left /\ level' = Max(used) /\ length' = length - 1 /\ UNCHANGED tail

(* skiplistDeleteNode and skiplistFreeNode: unlink x from every level,     *)
(* drop the levels that became empty, free the node.                       *)
Unlink(x, path) ==
    LET at(i) == path[i].at
        gone(link, i) ==
            IF link.forward = x
            THEN [forward |-> Forward(x, i), span |-> link.span + node[x].level[i].span - 1]
            ELSE [link EXCEPT !.span = @ - 1]
        rest(y) == [node[y] EXCEPT
                       !.backward = IF y = Forward(x, 1) THEN node[x].backward ELSE @,
                       !.level = [i \in DOMAIN @ |->
                                     IF i <= level /\ at(i) = y THEN gone(@[i], i) ELSE @[i]]]
        left == [y \in DOMAIN node \ {x} |-> rest(y)]
        used == {1} \cup {i \in 2..level : left[Header].level[i].forward # Nil}
    IN  /\ node' = left
        /\ tail' = IF Forward(x, 1) = Nil THEN node[x].backward ELSE tail
        /\ level' = Max(used)
        /\ length' = length - 1

(* skiplistDelete: v = Nil deletes the whole node. *)
Delete(k, v) ==
    LET path == Path(k, FALSE)
        x == Forward(path[1].at, 1)
        rest == RemoveValue(node[x].vals, v)
    IN  \/ /\ ~Found(x, k)
           /\ ret' = Nil
           /\ UNCHANGED <<node, tail, length, level>>
        \/ /\ Found(x, k) /\ v # Nil /\ rest # <<>>
           /\ node' = [node EXCEPT ![x].vals = rest]
           /\ ret' = k
           /\ UNCHANGED <<tail, length, level>>
        \/ /\ Found(x, k) /\ (v = Nil \/ rest = <<>>)
           /\ Unlink(x, path)
           /\ ret' = k

PopEmpty(x) == x = Nil /\ ret' = Nil /\ UNCHANGED <<node, tail, length, level>>

(* skiplistPopHead, skiplistPopTail *)
PopHead ==
    LET x == Forward(Header, 1)
    IN  PopEmpty(x) \/ (x # Nil /\ Delete(node[x].obj, Nil))

PopTail == PopEmpty(tail) \/ (tail # Nil /\ Delete(node[tail].obj, Nil))

Next ==
    \/ \E k \in Tuple, v \in Val : Insert(k, v) \/ Delete(k, v)
    \/ \E k \in Tuple : Delete(k, Nil)
    \/ PopHead \/ PopTail

Spec == Init /\ [][Next]_vars
-----------------------------------------------------------------------------
Link == [forward : NodeId \cup {Nil}, span : Nat]
NodeRecord(h) ==
    [obj : Tuple \cup {Nil}, vals : Seq(Val), backward : NodeId \cup {Nil},
     level : [1..h -> Link]]

(* No pointer in use leads to a node that has been freed. *)
TypeOK ==
    /\ Header \in DOMAIN node /\ DOMAIN node \subseteq NodeId \cup {Header}
    /\ \A x \in DOMAIN node : \E h \in 1..MaxLevel : node[x] \in NodeRecord(h)
    /\ DOMAIN node[Header].level = 1..MaxLevel
    /\ \A x \in DOMAIN node :
         /\ x # Header => node[x].obj \in Tuple /\ node[x].vals # <<>>
         /\ node[x].backward \in DOMAIN node \cup {Nil}
         /\ \A i \in DOMAIN node[x].level : Forward(x, i) \in DOMAIN node \cup {Nil}
    /\ tail \in (DOMAIN node \ {Header}) \cup {Nil}
    /\ length \in Nat /\ level \in 1..MaxLevel /\ ret \in Tuple \cup {Nil}

(* The nodes met on level i from the header, and their place on level 1.   *)
Chain(i) ==
    LET c[x \in OnLevel(i) \cup {Nil}] ==
            IF x = Nil THEN <<>> ELSE <<x>> \o c[Forward(x, i)]
    IN  c[Forward(Header, i)]

Position(x) ==
    CASE x = Header -> 0
      [] x = Nil -> length
      [] OTHER -> CHOOSE j \in DOMAIN Chain(1) : Chain(1)[j] = x

(* Level 1 holds every node in strictly ascending key order, each link     *)
(* leads to the next node whose tower reaches its level, and `level` is    *)
(* the height of the tallest tower (skiplistInsert, skiplistDeleteNode).   *)
LevelsNested ==
    /\ ToSet(Chain(1)) = DOMAIN node \ {Header}
    /\ \A i, j \in DOMAIN Chain(1) :
         i < j => Lt(node[Chain(1)[i]].obj, node[Chain(1)[j]].obj)
    /\ \A x \in DOMAIN node : \A i \in DOMAIN node[x].level :
         LET f == Forward(x, i)
         IN  /\ f # Nil => f \in OnLevel(i) /\ Position(x) < Position(f)
             /\ \A y \in OnLevel(i) :
                   Position(x) < Position(y) => f # Nil /\ Position(f) <= Position(y)
    /\ \A x \in DOMAIN node \ {Header} : DOMAIN node[x].level \subseteq 1..level
    /\ level > 1 => OnLevel(level) # {Header}

(* Every link in use crosses exactly `span` nodes, a last link the nodes   *)
(* to the end of the list: what the rank arithmetic of insert and delete   *)
(* maintains over towers of all heights.                                   *)
SpansExact ==
    \A x \in DOMAIN node : \A i \in DOMAIN node[x].level :
        i <= level => node[x].level[i].span = Position(Forward(x, i)) - Position(x)

(* The back pointers and the tail mirror level 1, and the length counts it:*)
(* skiplistPopTail and skiplistLength depend on them after any mixture of  *)
(* inserts and deletes.                                                    *)
BackLinksMirror ==
    LET c == Chain(1)
    IN  /\ length = Len(c)
        /\ tail = IF c = <<>> THEN Nil ELSE Last(c)
        /\ \A j \in DOMAIN c : node[c[j]].backward = IF j = 1 THEN Nil ELSE c[j - 1]

(* A scan returns every value stored under a key of the range, once, in    *)
(* key order and then insertion order, and nothing else, whatever towers   *)
(* the search for its start goes through (skiplistIterateRange).           *)
ScanExact ==
    \A min \in Tuple, max \in Tuple \cup {Nil}, lo, hi \in BOOLEAN :
        LET inRange(x) ==
                /\ Lt(min, node[x].obj) \/ (node[x].obj = min /\ ~lo)
                /\ max # Nil => Lt(node[x].obj, max) \/ (node[x].obj = max /\ ~hi)
            c == Chain(1)
        IN  Scan(min, lo, max, hi) =
                FlattenSeq([j \in DOMAIN c |-> IF inRange(c[j]) THEN node[c[j]].vals ELSE <<>>])

(* skiplistFind returns the node of a key exactly when there is one.       *)
FindExact ==
    \A k \in Tuple :
        IF \E x \in DOMAIN node \ {Header} : node[x].obj = k
        THEN Find(k) # Nil /\ node[Find(k)].obj = k
        ELSE Find(k) = Nil

(* The list the nodes stand for, and the promise they keep.                *)
AsList == [j \in DOMAIN Chain(1) |->
              [obj |-> node[Chain(1)[j]].obj, vals |-> node[Chain(1)[j]].vals]]

Promise == INSTANCE OrderedList WITH list <- AsList

(* Every call does to the list of nodes exactly what NodeList.tla says and *)
(* returns what it says.                                                   *)
ImplementsOrderedList == Promise!Spec

=============================================================================
