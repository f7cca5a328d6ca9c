----------------------------- MODULE WhereQuery -----------------------------
(***************************************************************************)
(* SI_ParseQuery (src/query_parse.c) and what becomes of its result: the   *)
(* tree of ParseNodes is turned into the nodes of an SIQuery, the tree is  *)
(* freed, SIQuery_Normalize may adapt the query to the index's properties, *)
(* SIQuery_Free ends it.  The values of the query share the strings of the *)
(* tree by reference count, so who frees what is told by `heap`.           *)
(*                                                                         *)
(* What a property is called or numbered, which LIKE ends in a percent     *)
(* sign and which strings read as a number are choices, not characters.    *)
(***************************************************************************)
EXTENDS WhereParser, WhereGrammar

CONSTANT Specs      \* property types of the indexes that are tried

ASSUME SpecsAssumption ==
    \A s \in Specs : s \in Seq({"T_STRING", "T_INT32", "T_INT64", "T_UINT", "T_BOOL",
                                "T_FLOAT", "T_DOUBLE", "T_TIME"})

VARIABLES
    spec,       \* property types, spec[i + 1] that of propId i
    query,      \* root, numPredicates and the SIQueryNodes by their place in the text
    verdict     \* what SIQuery_Normalize returned, "none" before

vars == <<style, text, stack, look, ctx, node, heap, freedTwice, restart, phase, spec, query, verdict>>

NoQuery == [root |-> NoNode, numPredicates |-> 0, nodes |-> <<>>]

Init == ParserInit /\ spec \in Specs /\ query = NoQuery /\ verdict = "none"

Below(tree, root) ==
    LET b[n \in DOMAIN tree] == {n} \cup IF tree[n].t = "N_COND" THEN b[tree[n].left] \cup b[tree[n].right] ELSE {}
    IN  b[root]
-----------------------------------------------------------------------------
Inf == [type |-> "T_INF", at |-> 0]
NegativeInf == [type |-> "T_NEGINF", at |-> 0]
Between(min, max, minExclusive, maxExclusive) ==
    [t |-> "PRED_RNG", vals |-> <<min, max>>, exclusive |-> <<minExclusive, maxExclusive>>]

(* toQueryNode; wild are the string literals that end in a percent sign.   *)
(* The two ends of such a LIKE share the text, the maximum's last byte     *)
(* overwritten.                                                            *)
ToPredicate(pn, wild) ==
    LET val == pn.vals[1]
        prefix == pn.op = "LIKE" /\ val.at \in wild
    IN  CASE prefix -> Between(val, val, FALSE, FALSE)
          [] pn.op \in {"EQ", "LIKE"} /\ ~prefix -> [t |-> "PRED_EQ", vals |-> <<val>>]
          [] pn.op \in {"GT", "GE"} -> Between(val, Inf, pn.op = "GT", FALSE)
          [] pn.op \in {"LT", "LE"} -> Between(NegativeInf, val, FALSE, pn.op = "LT")
          [] pn.op = "IN" -> [t |-> "PRED_IN", vals |-> pn.vals]
          [] pn.op = "IS" -> [t |-> "PRED_ISNULL", vals |-> <<val>>]

ToQueryNode(n, ids, wild) ==
    IF node[n].t = "N_COND"
    THEN [t |-> "N_COND", left |-> node[n].left, right |-> node[n].right,
          op |-> IF node[n].op = "OR" THEN "OP_OR" ELSE "OP_AND", propId |-> -1]
    ELSE [t |-> "N_PRED", propId |-> ids[n], pred |-> ToPredicate(node[n], wild)]

(* How many values of a query hold a block.                                *)
Values(nodes) == {s \in {<<n, i>> : n \in DOMAIN nodes, i \in 1..Len(text)} :
                     nodes[s[1]].t = "N_PRED" /\ s[2] \in DOMAIN nodes[s[1]].pred.vals}
ValueAt(nodes, s) == nodes[s[1]].pred.vals[s[2]]
Held(v) == IF v.type # "T_STRING" THEN {} ELSE {IF "cast" \in DOMAIN v THEN v.cast ELSE <<"string", v.at>>}
Holders(nodes, b) == Cardinality({s \in Values(nodes) : b \in Held(ValueAt(nodes, s))})

QueryBlocks(nodes) ==
    (UNION {Held(ValueAt(nodes, s)) : s \in Values(nodes)})
        \cup {<<"qnode", n>> : n \in DOMAIN nodes}
        \cup {<<"invals", n>> : n \in {m \in DOMAIN nodes : nodes[m].t = "N_PRED" /\ nodes[m].pred.t = "PRED_IN"}}
-----------------------------------------------------------------------------
(* ParseQuery has returned no tree.                                        *)
Refused ==
    /\ phase = "parsed" /\ ctx.root = NoNode
    /\ phase' = "refused"
    /\ UNCHANGED <<style, text, stack, look, ctx, node, heap, freedTwice, restart, spec, query, verdict>>

(* toQueryNode answers NULL for an operator it does not know, and          *)
(* traverseNode writes the property's id through that pointer.             *)
Unsupported ==
    /\ phase = "parsed" /\ ctx.root # NoNode
    /\ \E n \in Below(node, ctx.root) : node[n].t = "N_PRED" /\ node[n].op = "NE"
    /\ phase' = "crashed"
    /\ UNCHANGED <<style, text, stack, look, ctx, node, heap, freedTwice, restart, spec, query, verdict>>

(* Mutant of Referenced: the ends of a LIKE are not counted as two.        *)
MutantSharedLike(nodes) ==
    [b \in DOMAIN heap \cup QueryBlocks(nodes) |->
        CASE b \notin DOMAIN heap -> 1
          [] b \in QueryBlocks(nodes) -> heap[b] + 1
          [] OTHER -> heap[b]]

(* SIValue_Copy and SIValue_IncRef of each value that is taken over.       *)
Referenced(nodes) ==
    [b \in DOMAIN heap \cup QueryBlocks(nodes) |->
        IF b \in DOMAIN heap THEN heap[b] + Holders(nodes, b) ELSE 1]

(* traverseNode; ids are what the names and numbers in the text stand for, *)
(* -1 when the index has no such name and too high when the number is.     *)
Convert ==
    LET tree == Below(node, ctx.root)
        preds == {n \in tree : node[n].t = "N_PRED"}
        likes == {node[n].vals[1].at : n \in {m \in preds : node[m].op = "LIKE"}}
    IN  /\ phase = "parsed" /\ ctx.root # NoNode
        /\ \A n \in preds : node[n].op # "NE"
        /\ \E ids \in [preds -> -1..Len(spec)], wild \in SUBSET likes :
              query' = [root |-> ctx.root, numPredicates |-> Cardinality(preds),
                        nodes |-> [n \in tree |-> ToQueryNode(n, ids, wild)]]
        /\ heap' = Referenced(query'.nodes)
        /\ phase' = "converted"
        /\ UNCHANGED <<style, text, stack, look, ctx, node, freedTwice, restart, spec, verdict>>

(* ParseNode_Free(root)                                                    *)
FreeTree ==
    /\ phase = "converted"
    /\ FreeBlocks([b \in TreeBlocks(ctx.root) |-> 1])
    /\ phase' = "ready"
    /\ UNCHANGED <<style, text, stack, look, ctx, node, restart, spec, query, verdict>>
-----------------------------------------------------------------------------
(* Mutant of MarkSameProperty: the left operand decides.                   *)
MutantMarkLeft(nodes) ==
    LET id[n \in DOMAIN nodes] == IF nodes[n].t = "N_PRED" THEN nodes[n].propId ELSE id[nodes[n].left]
    IN  [n \in DOMAIN nodes |-> [nodes[n] EXCEPT !.propId = id[n]]]

(* markSamePropertyLogicNodes; a query that was not planned yet has no     *)
(* pass-through.                                                           *)
MarkSameProperty(nodes) ==
    LET id[n \in DOMAIN nodes] ==
            IF nodes[n].t = "N_PRED" THEN nodes[n].propId
            ELSE IF id[nodes[n].left] = id[nodes[n].right] THEN id[nodes[n].left] ELSE -1
    IN  [n \in DOMAIN nodes |-> [nodes[n] EXCEPT !.propId = id[n]]]

(* castPredicateValue, given whether a string literal reads as the type.   *)
Castable(v, type, readable) ==
    \/ v.type \in {"T_INF", "T_NEGINF", "T_INT64", "T_BOOL", "T_DOUBLE"}
    \/ v.type = "T_STRING" /\ (type = "T_STRING" \/ readable)

(* The value after the cast; a number that becomes text is a new string.   *)
CastTo(v, type, slot) ==
    IF v.type \in {"T_INF", "T_NEGINF", "T_BOOL", type} THEN v
    ELSE IF type = "T_STRING" THEN [type |-> type, at |-> v.at, cast |-> <<"cast", slot[1], slot[2]>>]
    ELSE [v EXCEPT !.type = type]

(* validateNode reaches the predicates in the order of the text and stops  *)
(* at the first that fails, its earlier values cast.  IS NULL fails: its   *)
(* predicate is none of those validatePredicate matches.                   *)
Before(s, f) == s[1] < f[1] \/ (s[1] = f[1] /\ s[2] < f[2])

(* Mutant of Reached: of a list only the first value is cast.              *)
MutantCastFirst(failing) == {s \in Values(query.nodes) : s[2] = 1 /\ \A f \in failing : Before(s, f)}

Reached(failing) == {s \in Values(query.nodes) : \A f \in failing : Before(s, f)}

Unbound(n) == query.nodes[n].propId \notin 0..(Len(spec) - 1)
PropType(s) == spec[query.nodes[s[1]].propId + 1]

(* SIQuery_Normalize                                                       *)
Normalize ==
    /\ phase = "ready" /\ verdict = "none"
    /\ LET slots == Values(query.nodes)
           strings == {s \in slots : ValueAt(query.nodes, s).type = "T_STRING"}
           marked == MarkSameProperty(query.nodes)
       IN \E readable \in SUBSET strings :
             LET unbound == {s \in slots : Unbound(s[1])}
                 failing == unbound \cup
                     {s \in slots \ unbound :
                         \/ query.nodes[s[1]].pred.t = "PRED_ISNULL"
                         \/ ~Castable(ValueAt(query.nodes, s), PropType(s), s \in readable)}
                 first == CHOOSE f \in failing : \A g \in failing \ {f} : Before(f, g)
                 cast(n) == [i \in DOMAIN marked[n].pred.vals |->
                                IF <<n, i>> \in Reached(failing)
                                THEN CastTo(marked[n].pred.vals[i], PropType(<<n, i>>), <<n, i>>)
                                ELSE marked[n].pred.vals[i]]
                 nodes == [n \in DOMAIN marked |->
                              IF marked[n].t = "N_COND" THEN marked[n]
                              ELSE [marked[n] EXCEPT !.pred.vals = cast(n)]]
             IN  /\ verdict' = CASE failing = {} -> "QE_OK"
                                 [] failing # {} /\ first \in unbound -> "QE_INVALID_PROPERTY"
                                 [] OTHER -> "QE_INVALID_VALUE"
                 /\ query' = [query EXCEPT !.nodes = nodes]
                 /\ heap' = Alloc(QueryBlocks(query'.nodes) \ DOMAIN heap)
    /\ UNCHANGED <<style, text, stack, look, ctx, node, freedTwice, restart, phase, spec>>

(* SIQuery_Free                                                            *)
FreeQuery ==
    /\ phase = "ready"
    /\ FreeBlocks([b \in QueryBlocks(query.nodes) |->
                      IF b[1] \in {"string", "cast"} THEN Holders(query.nodes, b) ELSE 1])
    /\ query' = NoQuery
    /\ phase' = "done"
    /\ UNCHANGED <<style, text, stack, look, ctx, node, restart, spec, verdict>>
-----------------------------------------------------------------------------
Parsing == (Engine \/ ReadText) /\ UNCHANGED <<spec, query, verdict>>
Next == Parsing \/ Refused \/ Unsupported \/ Convert \/ FreeTree \/ Normalize \/ FreeQuery

(* A clause is parsed by one call that nothing interrupts.                 *)
Spec == Init /\ [][Next]_vars /\ WF_vars(Next)
-----------------------------------------------------------------------------
(* The tree that ParseQuery hands over is the one the grammar gives the    *)
(* text since the parser was last set up, and there is none exactly when   *)
(* that text is not a clause.  The parser is set up once unless its stack  *)
(* overflows: what was read until then is dropped without an error.        *)
AnswerExact ==
    phase = "parsed" =>
        LET g == Grammar(text, restart + 1)
        IN  /\ ctx.root = g.root
            /\ g.root # NoNode => [n \in Below(node, g.root) |-> node[n]] = g.nodes

(* Texts on the stack that belong to no symbol with a destructor: names    *)
(* the lexer has copied, literals that are single values.                  *)
Unclaimed ==
    {<<"string", stack[i].minor.at>> :
            i \in {j \in DOMAIN stack : \/ stack[j].major = Code("IDENT")
                                       \/ /\ "type" \in DOMAIN stack[j].minor
                                          /\ stack[j].minor.type = "T_STRING"}}
        \cup (IF look = Code("IDENT") THEN {<<"string", Len(text)>>} ELSE {})

Owners(b) ==
    Cardinality({i \in DOMAIN stack : b \in Destroyed(stack[i])})
        + (IF b \in Unclaimed THEN 1 ELSE 0)
        + (IF phase \in {"parsed", "crashed", "converted"} /\ ctx.root # NoNode /\ b \in TreeBlocks(ctx.root) THEN 1 ELSE 0)
        + (IF b \in QueryBlocks(query.nodes)
           THEN IF b[1] \in {"string", "cast"} THEN Holders(query.nodes, b) ELSE 1
           ELSE 0)

(* What may be lost: a text dropped with the stack before a rule had put   *)
(* it into a symbol with a destructor, a text overwritten by the number it *)
(* was cast to.                                                            *)
Lost(b) ==
    /\ b[1] = "string"
    /\ restart >= b[2] \/ (stack = <<>> /\ ctx.root = NoNode) \/ verdict # "none"

(* Every block has as many references as there are owners on the parser's  *)
(* stack, in the tree and in the query: nothing is freed twice or while it *)
(* is in use, and nothing but lost strings outlives the command.           *)
MemoryAccounted ==
    /\ ~freedTwice
    /\ \A n \in DOMAIN query.nodes : QueryBlocks(query.nodes) \subseteq DOMAIN heap
    /\ \A b \in DOMAIN heap : heap[b] >= Owners(b) /\ (heap[b] = Owners(b) \/ Lost(b))

(* SIQuery_Normalize marks a logic node with a property exactly when every *)
(* condition under it is on that property.                                 *)
MarkedAlike ==
    verdict # "none" =>
        \A n \in DOMAIN query.nodes :
            LET ids == {query.nodes[m].propId : m \in {k \in Below(query.nodes, n) : query.nodes[k].t = "N_PRED"}}
            IN  query.nodes[n].propId = IF Cardinality(ids) = 1 THEN CHOOSE i \in ids : TRUE ELSE -1

(* The value a property's conditions are compared with: infinite, or of    *)
(* the property's type and no time function.                               *)
Comparable(s) ==
    /\ "shifts" \notin DOMAIN ValueAt(query.nodes, s)
    /\ ValueAt(query.nodes, s).type \in {"T_INF", "T_NEGINF", PropType(s)}

(* castPredicateValue passes a bool, which stays one.                      *)
UncastBool(s) == ValueAt(query.nodes, s).type = "T_BOOL"

(* QE_OK means that each condition is on a property of the index and that  *)
(* each of its values is one the property's comparator can read, or else a *)
(* bool, of which this says nothing (CastsComparable does).  A refused     *)
(* query has a condition on no property or a value that is neither, that   *)
(* of a time function, which no property takes, one of times neither.      *)
NormalizeExact ==
    LET taken == \A s \in Values(query.nodes) : ~Unbound(s[1]) /\ (Comparable(s) \/ UncastBool(s))
    IN  phase = "ready" => /\ verdict = "QE_OK" => taken
                           /\ verdict \in {"QE_INVALID_PROPERTY", "QE_INVALID_VALUE"} => ~taken

(* What castPredicateValue says it does, "convert predicate values to the  *)
(* ones specified in the schema so that they can be compared": after QE_OK *)
(* the comparator of the property can read each value of its conditions.   *)
CastsComparable ==
    phase = "ready" /\ verdict = "QE_OK" => \A s \in Values(query.nodes) : Comparable(s)

(* Every clause gets an answer: the parser does not go round in a state it *)
(* cannot leave, whatever the text, and the query is freed.                *)
Answered == <>(phase \in {"refused", "crashed", "done"})
=============================================================================
