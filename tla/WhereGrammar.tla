----------------------------- MODULE WhereGrammar ---------------------------
(***************************************************************************)
(* The grammar of src/parser/parser.y as a definition of which texts are   *)
(* clauses and how they group, written on the text and not on a stack: the *)
(* reference the table automaton of WhereParser is checked against.        *)
(***************************************************************************)
EXTENDS Integers, Sequences, FiniteSetsExt, TLC

Connectives == {"AND", "OR"}
Comparisons == {"EQ", "NE", "GT", "GE", "LT", "LE"}
Properties == {"ENUMERATOR", "IDENT"}
Durations == {"DAYS", "HOURS", "MINUTES", "SECONDS"}
LiteralType ==
    [INTEGER |-> "T_INT64", STRING |-> "T_STRING", FLOAT |-> "T_DOUBLE", TRUE |-> "T_BOOL", FALSE |-> "T_BOOL"]

NoClause == [root |-> 0, nodes |-> <<>>]
NoValue == [type |-> "none", at |-> 0]
NoTime == [at |-> 0, shifts |-> <<>>]

Leaf(w, i, op, vals) ==
    [root |-> i,
     nodes |-> i :> [t |-> "N_PRED", prop |-> [named |-> w[i] = "IDENT", at |-> i], op |-> op, vals |-> vals]]

Join(left, w, k, right) ==
    IF left = NoClause \/ right = NoClause THEN NoClause
    ELSE [root |-> k,
          nodes |-> k :> [t |-> "N_COND", left |-> left.root, op |-> w[k], right |-> right.root]
                        @@ left.nodes @@ right.nodes]

(* The grouping of i..j: the connective that is applied last is the last   *)
(* one outside parentheses, of the kind in `loose`; failing that, of the   *)
(* other kind.  parser.y gives AND the lower precedence (the first %left). *)
Grouping(w, first, loose) ==
    LET Depth(i, k) == Cardinality({p \in i..k : w[p] = "LP"}) - Cardinality({p \in i..k : w[p] = "RP"})
        Outer(i, j, op) == {k \in i..j : w[k] = op /\ Depth(i, k) = 0}
        Is(i, words) == SubSeq(w, i, i + Len(words) - 1) = words

        (* timestamp *)
        Time[i \in first..Len(w), j \in 0..Len(w)] ==
            CASE j < i -> NoTime
              [] j = i /\ w[i] \in {"NOW", "TODAY"} -> [at |-> i, shifts |-> <<>>]
              [] j = i + 3 /\ w[i] \in {"TIME", "UNIXTIME"} /\ Is(i + 1, <<"LP", "INTEGER", "RP">>) ->
                     [at |-> i + 2, shifts |-> <<>>]
              [] j >= i + 8 /\ w[i] \in {"TIME_ADD", "TIME_SUB"} /\ w[i + 1] = "LP"
                     /\ w[j - 5] = "COMMA" /\ w[j - 4] \in Durations /\ Is(j - 3, <<"LP", "INTEGER", "RP", "RP">>) ->
                     LET t == Time[i + 2, j - 6]
                     IN  IF t = NoTime THEN NoTime
                         ELSE [t EXCEPT !.shifts =
                                  Append(@, <<IF w[i] = "TIME_ADD" THEN 1 ELSE -1, w[j - 4], j - 2>>)]
              [] OTHER -> NoTime

        Val(i, j) ==
            IF i = j /\ w[i] \in DOMAIN LiteralType THEN [type |-> LiteralType[w[i]], at |-> i]
            ELSE LET t == IF i <= j THEN Time[i, j] ELSE NoTime
                 IN  IF t = NoTime THEN NoValue ELSE [type |-> "T_TIME", at |-> t.at, shifts |-> t.shifts]

        (* two or more values between commas, up to the parenthesis at j *)
        List[i \in first..Len(w) + 1, j \in 0..Len(w)] ==
            LET commas == {k \in i..j : w[k] = "COMMA" /\ Depth(i, k) = 0}
                k == Min(commas)
            IN  IF i > j THEN <<NoValue>>
                ELSE IF commas = {} THEN <<Val(i, j)>>
                ELSE <<Val(i, k - 1)>> \o List[k + 1, j]

        Pred(i, j) ==
            CASE w[i] \notin Properties \/ j < i + 2 -> NoClause
              [] w[i + 1] \in Comparisons /\ Val(i + 2, j) # NoValue -> Leaf(w, i, w[i + 1], <<Val(i + 2, j)>>)
              [] j = i + 2 /\ Is(i + 1, <<"LIKE", "STRING">>) ->
                     Leaf(w, i, "LIKE", <<[type |-> "T_STRING", at |-> j]>>)
              [] j = i + 2 /\ Is(i + 1, <<"IS", "TK_NULL">>) -> Leaf(w, i, "IS", <<[type |-> "T_NULL", at |-> 0]>>)
              [] j > i + 4 /\ Is(i + 1, <<"IN", "LP">>) /\ w[j] = "RP" ->
                     LET l == List[i + 3, j - 1]
                     IN  IF Len(l) < 2 \/ \E v \in DOMAIN l : l[v] = NoValue THEN NoClause
                         ELSE Leaf(w, i, "IN", l)
              [] OTHER -> NoClause

        Tree[i \in first..Len(w) + 1, j \in 0..Len(w)] ==
            LET last(op) == Max(Outer(i, j, op))
                split(op) == Join(IF last(op) = i THEN NoClause ELSE Tree[i, last(op) - 1],
                                  w, last(op), Tree[last(op) + 1, j])
                tight == CHOOSE op \in Connectives : op # loose
            IN  CASE i > j -> NoClause
                  [] OTHER ->
                     IF Outer(i, j, loose) # {} THEN split(loose)
                     ELSE IF Outer(i, j, tight) # {} THEN split(tight)
                     ELSE IF w[i] = "LP" /\ w[j] = "RP" THEN Tree[i + 1, j - 1]
                     ELSE Pred(i, j)
    IN  Tree[first, Len(w)]

Grammar(w, first) == Grouping(w, first, "AND")
=============================================================================
