----------------------------- MODULE QueryCursor ----------------------------
(***************************************************************************)
(* A query against an index that is not written to meanwhile: IDX.SELECT   *)
(* and IDX.FROM parse the WHERE clause, ask compoundIndex_Find for a       *)
(* cursor, advance it with scan_next until it is at its end and release    *)
(* everything.  One turn of scan_next's inner loop is a step.              *)
(***************************************************************************)
EXTENDS QueryPlan

CONSTANTS
    Queries,    \* the clauses tried: query trees over condition nodes
    Contents    \* the lists tried: sequences of [key, vals] in key order

Value == Int \cup {Null}

(* A condition of the language (parser.y): numbers are compared, IN has a  *)
(* list, here of different values, and LIKE a prefix.                      *)
Condition(c) ==
    /\ c.prop \in Nat \ {0}
    /\ \/ c.op \in {"=", ">", ">=", "<", "<="} /\ c.arg \in Int
       \/ c.op = "LIKE" /\ {c.arg, PrefixEnd(c.arg)} \subseteq Int
       \/ c.op = "IN" /\ c.arg \in Seq(Int) \ {<<>>} /\ IsInjective(c.arg)
       \/ c.op = "IS NULL" /\ c.arg = Null

Children(q, n) == IF q[n].type = "PRED" THEN {} ELSE {q[n].left, q[n].right}

(* A query tree as traverseNode builds it: every node but the first is the *)
(* child of one other, which has a smaller number.                         *)
Clause(q) ==
    /\ Len(q) \in Nat \ {0} /\ DOMAIN q = 1..Len(q)
    /\ \A n \in DOMAIN q :
         \/ q[n].type = "PRED" /\ Condition(q[n].cond) /\ q[n] = PredicateNode(q[n].cond)
         \/ /\ q[n].type = "LOGIC" /\ q[n].op \in {"AND", "OR"}
            /\ q[n] = LogicNode(q[n].op, q[n].left, q[n].right)
            /\ Children(q, n) \subseteq (n + 1)..Len(q) /\ q[n].left # q[n].right
    /\ \A m \in 2..Len(q) : \E n \in DOMAIN q :
         m \in Children(q, n) /\ \A o \in DOMAIN q \ {n} : m \notin Children(q, o)

(* The list of an index: ascending keys, no node empty, each id once.      *)
Listing(l) ==
    LET ids == UNION {ToSet(l[i].vals) : i \in DOMAIN l}
    IN  /\ l \in Seq([key : [1..NumProps -> Value], vals : Seq(ids) \ {<<>>}])
        /\ \A i, j \in DOMAIN l : i < j => LessKey(l[i].key, l[j].key)
        /\ \A i, j \in DOMAIN l : \A a \in DOMAIN l[i].vals, b \in DOMAIN l[j].vals :
               l[i].vals[a] = l[j].vals[b] => i = j /\ a = b

ASSUME CursorAssumption ==
    (\A q \in Queries : Clause(q)) /\ (\A l \in Contents : Listing(l))

VARIABLES
    clause,     \* the query tree as it was parsed
    list,       \* the nodes of the index's skip list
    tree, root, \* the query tree as planning leaves it
    ranges,     \* the plan's scan ranges
    filter,     \* the plan's filter tree: its root or NoNode
    at,         \* the cursor: [range, node, val]; node 0 is NULL
    got,        \* the ids the cursor has returned
    freed,      \* how often each node of the query tree was freed
    phase       \* "parsed", "scanning", "refused", "done", "released"
                \* or "crashed"

vars == <<clause, list, tree, root, ranges, filter, at, got, freed, phase>>

(* SI_ParseQuery; the root is the first node. *)
Init ==
    /\ clause \in Queries /\ list \in Contents
    /\ tree = clause /\ root = 1
    /\ ranges = <<>> /\ filter = NoNode /\ at = [range |-> 1, node |-> 0, val |-> 1]
    /\ got = <<>> /\ freed = [n \in DOMAIN clause |-> 0] /\ phase = "parsed"

Free(nodes) == [n \in DOMAIN freed |-> IF n \in nodes THEN freed[n] + 1 ELSE freed[n]]

(* skiplistIterateRange *)
FirstOf(rng) ==
    LET skipped(i) == \/ LessKey(list[i].key, rng.min)
                      \/ rng.minExclusive /\ SameKey(list[i].key, rng.min)
        candidates == {i \in DOMAIN list : ~skipped(i)}
    IN  IF candidates = {} THEN 0 ELSE Min(candidates)

Past(rng, i) ==
    \/ AboveKey(list[i].key, rng.max)
    \/ rng.maxExclusive /\ SameKey(list[i].key, rng.max)

(* Mutant of Clipped: the iterator does not look at the end it runs into.  *)
MutantUnclipped(rng, i) == IF i = 0 THEN 0 ELSE i

Clipped(rng, i) == IF i \notin DOMAIN list \/ Past(rng, i) THEN 0 ELSE i

Start(r, rngs) ==
    [range |-> r, val |-> 1,
     node |-> IF r \in DOMAIN rngs THEN Clipped(rngs[r], FirstOf(rngs[r])) ELSE 0]

(* SI_BuildQueryPlan and compoundIndex_Find. *)
Find ==
    LET taken == Taken(tree, root)
        marked == Mark(tree, ToSet(taken))
        cleaned == Clean(marked, root)
        rngs == Ranges([i \in DOMAIN taken |-> RangeKeys(tree[taken[i]].pred)])
    IN  /\ phase = "parsed" /\ taken # <<>>
        /\ ranges' = rngs /\ at' = Start(1, rngs)
        /\ \/ /\ marked[root].passthru
              /\ filter' = NoNode /\ tree' = marked /\ UNCHANGED <<root, freed>>
           \/ /\ ~marked[root].passthru
              /\ filter' = cleaned.root /\ root' = cleaned.root
              /\ tree' = cleaned.tree /\ freed' = Free(cleaned.freed)
        /\ phase' = "scanning"
        /\ UNCHANGED <<clause, list, got>>

(* SI_BuildQueryPlan finds nothing to scan by: the cursor is an error.     *)
Refuse ==
    /\ phase = "parsed" /\ Taken(tree, root) = <<>>
    /\ phase' = "refused"
    /\ UNCHANGED <<clause, list, tree, root, ranges, filter, at, got, freed>>

(* skiplistIterator_Next *)
Advanced ==
    IF at.val < Len(list[at.node].vals) THEN [at EXCEPT !.val = @ + 1]
    ELSE [at EXCEPT !.val = 1, !.node = Clipped(ranges[at.range], at.node + 1)]

Passes == filter # NoNode => EvalKey(tree, filter, list[at.node].key)

(* scan_next: the value at hand passes the filter and is returned, or it   *)
(* does not and the loop goes on.                                          *)
Return ==
    /\ phase = "scanning" /\ at.node # 0 /\ Passes
    /\ got' = Append(got, list[at.node].vals[at.val]) /\ at' = Advanced
    /\ UNCHANGED <<clause, list, tree, root, ranges, filter, freed, phase>>

Skip ==
    /\ phase = "scanning" /\ at.node # 0 /\ ~Passes
    /\ at' = Advanced
    /\ UNCHANGED <<clause, list, tree, root, ranges, filter, got, freed, phase>>

NextRange ==
    /\ phase = "scanning" /\ at.node = 0
    /\ at' = Start(at.range + 1, ranges)
    /\ phase' = IF at.range + 1 \in DOMAIN ranges THEN phase ELSE "done"
    /\ UNCHANGED <<clause, list, tree, root, ranges, filter, got, freed>>

(* Mutant of Release: the tree is freed from the node it was parsed to.    *)
MutantReleaseClause ==
    /\ phase \in {"done", "refused"}
    /\ freed' = Free(Under(clause, 1))
    /\ phase' = "released"
    /\ UNCHANGED <<clause, list, tree, root, ranges, filter, at, got>>

(* SIQuery_Free and SICursor_Free.  The cursor of a refused query has no   *)
(* release function: SI_NewCursor leaves the field as malloc returned it,  *)
(* and calling it may end the program.                                     *)
Release ==
    /\ phase \in {"done", "refused"}
    /\ freed' = Free(Under(tree, root))
    /\ phase' \in {"released"} \cup IF phase = "refused" THEN {"crashed"} ELSE {}
    /\ UNCHANGED <<clause, list, tree, root, ranges, filter, at, got>>

Next == Find \/ Refuse \/ Return \/ Skip \/ NextRange \/ Release

Spec == Init /\ [][Next]_vars
-----------------------------------------------------------------------------
(* What a clause means, from its conditions alone.                         *)
MeetsCondition(c, key) ==
    /\ c.prop \in DOMAIN key
    /\ LET v == key[c.prop]
       IN  CASE c.op \in {"=", "IS NULL"} -> v = c.arg
             [] c.op = "IN" -> v \in ToSet(c.arg)
             [] c.op = ">" -> v # Null /\ v > c.arg
             [] c.op = ">=" -> v # Null /\ v >= c.arg
             [] c.op = "<" -> v # Null /\ v < c.arg
             [] c.op = "<=" -> v # Null /\ v <= c.arg
             [] c.op = "LIKE" -> v # Null /\ c.arg <= v /\ v <= PrefixEnd(c.arg)

Meets(key) ==
    LET m[n \in DOMAIN clause] ==
            IF clause[n].type = "PRED" THEN MeetsCondition(clause[n].cond, key)
            ELSE IF clause[n].op = "OR" THEN m[clause[n].left] \/ m[clause[n].right]
            ELSE m[clause[n].left] /\ m[clause[n].right]
    IN  m[1]

Answer == FlattenSeq([i \in DOMAIN list |-> IF Meets(list[i].key) THEN list[i].vals ELSE <<>>])

(* Conditions left to the filter, and those the filter can evaluate.       *)
Residual == IF filter = NoNode THEN {}
            ELSE {n \in Under(tree, filter) : tree[n].type = "PRED" /\ ~tree[n].passthru}
Evaluable == \A n \in Residual : tree[n].pred.t \in {"EQ", "RNG"}

TypeOK ==
    /\ DOMAIN tree = DOMAIN clause /\ root \in DOMAIN tree
    /\ filter \in DOMAIN tree \cup {NoNode}
    /\ at \in [range : 1..(Len(ranges) + 1), node : 0..Len(list), val : Nat \ {0}]
    /\ at.node # 0 => at.range \in DOMAIN ranges /\ at.val \in DOMAIN list[at.node].vals
    /\ freed \in [DOMAIN clause -> Nat]
    /\ phase \in {"parsed", "scanning", "refused", "done", "released", "crashed"}

(* Whatever part of a clause becomes ranges and whatever part a filter,    *)
(* however AND and OR are nested, the cursor returns every id whose key    *)
(* satisfies the clause, once, and no other; in index order if it scans a  *)
(* single range (SI_BuildQueryPlan, scan_next).  IN and IS NULL are        *)
(* excepted when they end up in the filter.                                *)
AnswerExact ==
    phase = "done" /\ Evaluable =>
        /\ ToSet(got) = ToSet(Answer)
        /\ Len(got) = Len(Answer)
        /\ Len(ranges) = 1 => got = Answer

(* The ranges are disjoint and hold exactly the keys that satisfy the      *)
(* conditions taken out of the clause: dropping those from the filter      *)
(* loses nothing (predicateToRanges, buildKey).                            *)
InRange(key, rng) ==
    /\ ~LessKey(key, rng.min) /\ ~(rng.minExclusive /\ SameKey(key, rng.min))
    /\ ~AboveKey(key, rng.max) /\ ~(rng.maxExclusive /\ SameKey(key, rng.max))

RangesExact ==
    phase = "scanning" =>
        \A i \in DOMAIN list :
            Cardinality({r \in DOMAIN ranges : InRange(list[i].key, ranges[r])}) =
                IF \A n \in DOMAIN clause :
                       clause[n].type = "PRED" /\ tree[n].passthru
                           => MeetsCondition(clause[n].cond, list[i].key)
                THEN 1 ELSE 0

(* A clause is refused exactly when no condition on the first property     *)
(* binds the whole of it (docs/WHERE.md:69: no full scans).                *)
Binding(n) ==
    /\ clause[n].type = "PRED" /\ clause[n].pred.prop = 1
    /\ \A b \in DOMAIN clause :
         clause[b].type = "LOGIC" /\ clause[b].op = "OR" => n \notin Under(clause, b)

RefusedOnlyUnbound ==
    phase # "parsed" => (ranges = <<>>) = ~(\E n \in DOMAIN clause : Binding(n))

(* Cleaning frees parts of the tree while the query and the plan share the *)
(* rest: the filter never reaches a node freed, and each node has been     *)
(* freed once when the command is over (cleanQueryNode, SIQuery_Free).     *)
NodesFreedOnce ==
    /\ phase = "scanning" /\ filter # NoNode =>
           \A n \in Under(tree, filter) : freed[n] = 0
    /\ phase = "released" => \A n \in DOMAIN clause : freed[n] = 1
-----------------------------------------------------------------------------
(* docs/WHERE.md:6 lists IN and IS NULL among the supported predicates,    *)
(* wherever they stand in a clause.                                        *)
AnswersEveryClause == phase = "done" => ToSet(got) = ToSet(Answer)

=============================================================================
