------------------------------ MODULE QueryPlan -----------------------------
(***************************************************************************)
(* From a WHERE clause to scan ranges and a filter: the comparators of     *)
(* src/key.c, the predicates of src/query_parse.c, the plan of             *)
(* src/query_plan.c and the filter evaluation of src/index.c.              *)
(*                                                                         *)
(* A query tree is a function from node addresses to nodes; marking a node *)
(* as a pass-through (QN_PASSTHRU) and cutting it out change the function. *)
(* Properties are counted from 1, as in the WHERE language.                *)
(***************************************************************************)
EXTENDS Integers, FiniteSets, SequencesExt

CONSTANTS
    NumProps,               \* spec->numProps
    Null, Inf, NegInf,      \* NULL and the two infinities of open ranges
    NoNode,                 \* the NULL node pointer
    PrefixEnd(_)            \* the text of LIKE 'v%' with the % turned to \xff

ASSUME QueryAssumption ==
    /\ NumProps \in Nat \ {0} /\ NoNode \notin Nat
    /\ {Null, Inf, NegInf} \cap Int = {}
    /\ Null \notin {Inf, NegInf} /\ Inf # NegInf

(* The comparators of key.h: below and equal.  NULL is above everything;   *)
(* an infinity never meets itself, it is only in queries.                  *)
Less(v, w) ==
    /\ v # Null
    /\ \/ w = Null
       \/ /\ v # Inf /\ w # NegInf
          /\ w = Inf \/ v = NegInf \/ v < w

Same(v, w) == v = w /\ v \notin {Inf, NegInf}
Above(v, w) == ~Less(v, w) /\ ~Same(v, w)

(* SICmpMultiKey: only as many values as both keys have are compared.      *)
Common(k, l) == 1..Min({Len(k), Len(l)})
LessKey(k, l) ==
    \E i \in Common(k, l) : Less(k[i], l[i]) /\ \A j \in 1..(i - 1) : Same(k[j], l[j])
SameKey(k, l) == \A i \in Common(k, l) : Same(k[i], l[i])
AboveKey(k, l) == ~LessKey(k, l) /\ ~SameKey(k, l)
-----------------------------------------------------------------------------
Between(prop, min, minExclusive, max, maxExclusive) ==
    [t |-> "RNG", prop |-> prop, min |-> min, minExclusive |-> minExclusive,
     max |-> max, maxExclusive |-> maxExclusive]

(* toQueryNode: the predicate of a condition [op, prop, arg]; the argument *)
(* of IN is a sequence of values.                                          *)
Predicate(c) ==
    CASE c.op = "=" -> [t |-> "EQ", prop |-> c.prop, v |-> c.arg]
      [] c.op \in {">", ">="} -> Between(c.prop, c.arg, c.op = ">", Inf, FALSE)
      [] c.op \in {"<", "<="} -> Between(c.prop, NegInf, FALSE, c.arg, c.op = "<")
      [] c.op = "IN" -> [t |-> "IN", prop |-> c.prop, vals |-> c.arg]
      [] c.op = "LIKE" -> Between(c.prop, c.arg, FALSE, PrefixEnd(c.arg), FALSE)
      [] c.op = "IS NULL" -> [t |-> "ISNULL", prop |-> c.prop, v |-> Null]

(* traverseNode; the condition is kept for the properties alone. *)
PredicateNode(c) ==
    [type |-> "PRED", pred |-> Predicate(c), passthru |-> FALSE, cond |-> c]
LogicNode(op, left, right) ==
    [type |-> "LOGIC", op |-> op, left |-> left, right |-> right, passthru |-> FALSE]
-----------------------------------------------------------------------------
(* Mutant of GetPredicate: conditions under OR are taken as well.          *)
MutantTakeUnderOr(tree, root, prop) ==
    LET g[n \in DOMAIN tree] ==
            IF tree[n].passthru THEN NoNode
            ELSE IF tree[n].type = "PRED"
            THEN IF tree[n].pred.prop = prop THEN n ELSE NoNode
            ELSE IF g[tree[n].left] # NoNode THEN g[tree[n].left] ELSE g[tree[n].right]
    IN  g[root]

(* getPredicate: the leftmost condition on this property that is reached   *)
(* through AND nodes only and is not taken yet.                            *)
GetPredicate(tree, root, prop) ==
    LET g[n \in DOMAIN tree] ==
            IF tree[n].passthru THEN NoNode
            ELSE IF tree[n].type = "PRED"
            THEN IF tree[n].pred.prop = prop THEN n ELSE NoNode
            ELSE IF tree[n].op # "AND" THEN NoNode
            ELSE IF g[tree[n].left] # NoNode THEN g[tree[n].left] ELSE g[tree[n].right]
    IN  g[root]

Mark(tree, nodes) == [n \in DOMAIN tree |-> [tree[n] EXCEPT !.passthru = @ \/ n \in nodes]]

(* Mutant of Closes: planning goes on after a range.                       *)
MutantNeverClosed(pred) == FALSE

(* isLast of predicateToRanges: no key can be extended after a range.      *)
Closes(pred) == pred.t = "RNG"

(* The planning loop of SI_BuildQueryPlan: the conditions turned into scan *)
(* keys, one per property from the first on, until there is none for the   *)
(* next property or a range has been taken.                                *)
Taken(tree, root) ==
    LET t[p \in 0..NumProps] ==
            IF p = 0 THEN <<>>
            ELSE LET prev == t[p - 1]
                     next == GetPredicate(Mark(tree, ToSet(prev)), root, p)
                 IN  IF \/ Len(prev) < p - 1
                        \/ p > 1 /\ Closes(tree[Last(prev)].pred)
                        \/ next = NoNode
                     THEN prev ELSE Append(prev, next)
    IN  t[NumProps]

(* predicateToRanges: the alternatives a predicate gives a scan key.       *)
Point(v) == [min |-> v, max |-> v, minExclusive |-> FALSE, maxExclusive |-> FALSE]
RangeKeys(pred) ==
    CASE pred.t \in {"EQ", "ISNULL"} -> <<Point(pred.v)>>
      [] pred.t = "IN" -> [i \in DOMAIN pred.vals |-> Point(pred.vals[i])]
      [] pred.t = "RNG" -> <<[min |-> pred.min, max |-> pred.max,
                              minExclusive |-> pred.minExclusive,
                              maxExclusive |-> pred.maxExclusive]>>

(* Mutant of ScanRange: the first key decides whether the ends belong.     *)
MutantFirstKeyDecides(stack) ==
    [min |-> [i \in DOMAIN stack |-> stack[i].min],
     max |-> [i \in DOMAIN stack |-> stack[i].max],
     minExclusive |-> Head(stack).minExclusive,
     maxExclusive |-> Head(stack).maxExclusive]

(* The end of buildKey's recursion: the range of one choice of             *)
(* alternatives; the last key decides whether the ends belong to it.       *)
ScanRange(stack) ==
    [min |-> [i \in DOMAIN stack |-> stack[i].min],
     max |-> [i \in DOMAIN stack |-> stack[i].max],
     minExclusive |-> Last(stack).minExclusive,
     maxExclusive |-> Last(stack).maxExclusive]

(* buildKey: the cartesian product of the alternatives, first key slowest. *)
Extended(stacks, alternatives) ==
    FlattenSeq([s \in DOMAIN stacks |->
                   [a \in DOMAIN alternatives |-> Append(stacks[s], alternatives[a])]])

Ranges(keys) ==
    LET stacks[k \in 0..Len(keys)] ==
            IF k = 0 THEN << <<>> >> ELSE Extended(stacks[k - 1], keys[k])
        all == stacks[Len(keys)]
    IN  [s \in DOMAIN all |-> ScanRange(all[s])]
-----------------------------------------------------------------------------
Under(tree, root) ==
    LET u[n \in DOMAIN tree] ==
            {n} \cup IF tree[n].type = "PRED" THEN {} ELSE u[tree[n].left] \cup u[tree[n].right]
    IN  u[root]

(* cleanQueryNode: a logic node with one pass-through child gives its      *)
(* place to the other child and is freed with the pass-through; one with   *)
(* two becomes a pass-through.  Result: the node that takes root's place,  *)
(* the tree, the nodes freed.                                              *)
Clean(tree, root) ==
    LET done[n \in DOMAIN tree] ==
            \/ tree[n].passthru
            \/ tree[n].type = "LOGIC" /\ done[tree[n].left] /\ done[tree[n].right]
        for[n \in DOMAIN tree] ==
            IF tree[n].type = "PRED" \/ done[n] THEN n
            ELSE IF done[tree[n].left] THEN for[tree[n].right]
            ELSE IF done[tree[n].right] THEN for[tree[n].left]
            ELSE n
        clean(n) ==
            IF tree[n].type = "PRED" THEN tree[n]
            ELSE [tree[n] EXCEPT !.left = for[@], !.right = for[@], !.passthru = done[n]]
        cleaned == [n \in DOMAIN tree |-> clean(n)]
    IN  [root |-> for[root], tree |-> cleaned,
         freed |-> Under(tree, root) \ Under(cleaned, for[root])]

(* evalPredicate *)
EvalPredicate(pred, key) ==
    /\ pred.prop \in DOMAIN key
    /\ LET v == key[pred.prop]
       IN  CASE pred.t = "EQ" -> Same(v, pred.v)
             [] pred.t = "IN" -> /\ pred.vals # <<>>
                                 /\ \A i \in DOMAIN pred.vals : Same(v, pred.vals[i])
             [] pred.t = "RNG" -> /\ ~Less(v, pred.min)
                                  /\ ~(Same(v, pred.min) /\ pred.minExclusive)
                                  /\ ~Above(v, pred.max)
                                  /\ ~(Same(v, pred.max) /\ pred.maxExclusive)
             [] OTHER -> FALSE

(* evalKey *)
EvalKey(tree, root, key) ==
    LET e[n \in DOMAIN tree] ==
            \/ tree[n].passthru
            \/ tree[n].type = "PRED" /\ EvalPredicate(tree[n].pred, key)
            \/ /\ tree[n].type = "LOGIC"
               /\ IF tree[n].op = "OR" THEN e[tree[n].left] \/ e[tree[n].right]
                                       ELSE e[tree[n].left] /\ e[tree[n].right]
    IN  e[root]

=============================================================================
