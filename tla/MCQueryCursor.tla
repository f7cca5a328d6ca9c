--------------------------- MODULE MCQueryCursor ----------------------------
(* Small instances: two properties (and one the index does not have) with  *)
(* values 1..MaxValue and NULL, clauses of up to three conditions.         *)
EXTENDS QueryCursor

CONSTANTS
    MaxValue,
    Ops,        \* operators of clauses of up to two conditions
    DeepOps     \* operators of clauses of three

MCPrefixEnd(v) == v + 1

(* Scalar conditions, each with the arguments that split the values. *)
Args(op) == IF op \in {">", "<=", "LIKE"} THEN {1} ELSE IF op = "=" THEN 1..MaxValue ELSE {2}

Conditions(ops) ==
    UNION {[op : {o}, prop : 1..NumProps, arg : Args(o)] : o \in ops \ {"IN", "IS NULL"}}
        \cup [op : ops \cap {"IN"}, prop : 1..NumProps, arg : {<<1, 2>>}]
        \cup [op : ops \cap {"IS NULL"}, prop : 1..NumProps, arg : {Null}]
        \cup [op : {"="}, prop : {NumProps + 1}, arg : {1}]

Leaf == {PredicateNode(c) : c \in Conditions(Ops)}
DeepLeaf == {PredicateNode(c) : c \in Conditions(DeepOps)}
Op == {"AND", "OR"}

Alone == {<<p>> : p \in Leaf}
Pair == {<<LogicNode(o, 2, 3), p, q>> : o \in Op, p, q \in Leaf}
LeftDeep ==
    {<<LogicNode(o, 2, 5), LogicNode(u, 3, 4), p, q, r>> : o, u \in Op, p, q, r \in DeepLeaf}
RightDeep ==
    {<<LogicNode(o, 2, 3), p, LogicNode(u, 4, 5), q, r>> : o, u \in Op, p, q, r \in DeepLeaf}

MCQueries == Alone \cup Pair \cup IF DeepOps = {} THEN {} ELSE LeftDeep \cup RightDeep

Values == (1..MaxValue) \cup {Null}

(* Every key but one, so that ranges also begin and end between keys; the *)
(* first node holds two ids.                                               *)
Keys == [1..NumProps -> Values] \ {[p \in 1..NumProps |-> 2]}
SortedKeys == [i \in 1..Cardinality(Keys) |->
                  CHOOSE k \in Keys : Cardinality({l \in Keys : LessKey(l, k)}) = i - 1]
MCContents == {[i \in DOMAIN SortedKeys |->
                   [key |-> SortedKeys[i], vals |-> IF i = 1 THEN <<0, 1>> ELSE <<i>>]]}

=============================================================================
