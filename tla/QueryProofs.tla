----------------------------- MODULE QueryProofs ----------------------------
(***************************************************************************)
(* Theorems about the plan and the cursor of a query (QueryCursor.tla):    *)
(* what the ranges hold, what the filter tree still asks, and that a       *)
(* finished cursor has returned the answer of the clause.                  *)
(*                                                                         *)
(* The operators of QueryPlan recurse over a tree whose children have      *)
(* greater numbers than their parent, or over the first n numbers.  That   *)
(* such a function exists is proved by Recursion (Listings.tla) and, for a *)
(* tree, TreeFunction; what it returns by Upwards and Downwards.        *)
(***************************************************************************)
EXTENDS QueryCursor, Listings

-----------------------------------------------------------------------------
(* A query tree of n nodes, whichever of its nodes are passed through. *)
IsTree(t, n) ==
    /\ n \in Nat /\ DOMAIN t = 1..n
    /\ \A k \in 1..n : \/ t[k].type = "PRED"
                       \/ /\ t[k].type = "LOGIC"
                          /\ t[k].left \in (k + 1)..n /\ t[k].right \in (k + 1)..n

(* The form the recursive functions of QueryPlan have: a value for a       *)
(* condition, and one from those of both children for an AND or an OR.     *)
Folded(f, t, k, base, step) ==
    IF t[k].type = "PRED" THEN base[k] ELSE step[k][<<f[t[k].left], f[t[k].right]>>]
IsFold(f, t, n, base, step) == \A k \in 1..n : f[k] = Folded(f, t, k, base, step)

LEMMA TreeFunction ==
    ASSUME NEW t, NEW n, IsTree(t, n), NEW V, NEW base \in [1..n -> V],
           NEW step \in [1..n -> [V \X V -> V]]
    PROVE  \E f \in [1..n -> V] : IsFold(f, t, n, base, step)
<1> DEFINE From(j, f) == /\ f \in [1..n -> V]
                         /\ \A k \in 1..n : k > n - j => f[k] = Folded(f, t, k, base, step)
           S == {j \in 0..n : \E f : From(j, f)}
<1>0. n \in Nat
  BY DEF IsTree
<1>1. 0 \in S
  <2>1. From(0, base)
    BY <1>0
  <2> HIDE DEF From
  <2> QED BY <1>0, <2>1
<1>2. ASSUME NEW j \in 0..n, j # n, j \in S PROVE j + 1 \in S
  <2>1. PICK f : From(j, f)
    BY <1>2
  <2> DEFINE k == n - j
             g == [f EXCEPT ![k] = Folded(f, t, k, base, step)]
  <2>2. k \in 1..n
    BY <1>0, <1>2
  <2>3. Folded(f, t, k, base, step) \in V
    <3>1. CASE t[k].type = "PRED"
      BY <3>1, <2>2 DEF Folded
    <3>2. CASE t[k].type # "PRED"
      <4>1. f[t[k].left] \in V /\ f[t[k].right] \in V
        BY <3>2, <2>1, <2>2 DEF IsTree
      <4>2. step[k] \in [V \X V -> V]
        BY <2>2
      <4> QED BY <4>1, <4>2, <3>2 DEF Folded
    <3> QED BY <3>1, <3>2
  <2>4. g \in [1..n -> V]
    BY <2>1, <2>2, <2>3
  <2>5. ASSUME NEW i \in 1..n, i > n - (j + 1) PROVE g[i] = Folded(g, t, i, base, step)
    <3>1. i >= k
      BY <1>0, <2>5
    <3>2. CASE t[i].type = "PRED"
      <4>1. Folded(g, t, i, base, step) = Folded(f, t, i, base, step)
        BY <3>2 DEF Folded
      <4>2. i # k => i > n - j
        BY <1>0, <3>1, <2>2
      <4> HIDE DEF k
      <4> QED BY <4>1, <4>2, <2>1, <2>2
    <3>3. CASE t[i].type # "PRED"
      <4>1. /\ t[i].left \in 1..n /\ t[i].right \in 1..n
            /\ t[i].left # k /\ t[i].right # k
        BY <1>0, <3>1, <3>3, <2>2 DEF IsTree
      <4>2. g[t[i].left] = f[t[i].left] /\ g[t[i].right] = f[t[i].right]
        BY <4>1, <2>1
      <4>3. Folded(g, t, i, base, step) = Folded(f, t, i, base, step)
        BY <4>2, <3>3, SMTT(30) DEF Folded
      <4>4. i # k => i > n - j
        BY <1>0, <3>1, <2>2
      <4> HIDE DEF k
      <4> QED BY <4>3, <4>4, <2>1, <2>2
    <3> QED BY <3>2, <3>3
  <2>6. From(j + 1, g)
    BY <2>4, <2>5
  <2> HIDE DEF From, g
  <2> QED BY <1>0, <2>6, <1>2
<1>3. n \in S
  <2>1. \A k \in 0..n : k # n /\ k \in S => k + 1 \in S
    BY <1>2
  <2>2. n \in 0..n
    BY <1>0
  <2>3. \A k \in 0..n : k \in S
    <3> HIDE DEF S
    <3> QED BY <1>0, <1>1, <2>1, Upwards, Zenon
  <2> QED BY <2>2, <2>3
<1>4. PICK f : From(n, f)
  BY <1>3
<1>5. IsFold(f, t, n, base, step)
  <2>1. \A k \in 1..n : k > n - n
    BY <1>0
  <2> QED BY <1>4, <2>1 DEF IsFold
<1>6. f \in [1..n -> V]
  BY <1>4
<1> QED BY <1>5, <1>6, Zenon

(* The nodes of a subtree. *)
LEMMA UnderIs ==
    ASSUME NEW t, NEW n, IsTree(t, n), NEW k \in 1..n
    PROVE  Under(t, k) = {k} \cup IF t[k].type = "PRED" THEN {}
                                  ELSE Under(t, t[k].left) \cup Under(t, t[k].right)
<1> DEFINE F(u) == [i \in DOMAIN t |-> {i} \cup IF t[i].type = "PRED" THEN {}
                                                 ELSE u[t[i].left] \cup u[t[i].right]]
           U == CHOOSE u : u = F(u)
           V == SUBSET (1..n)
           base == [i \in 1..n |-> {i}]
           step == [i \in 1..n |-> [p \in V \X V |-> {i} \cup p[1] \cup p[2]]]
<1>1. base \in [1..n -> V] /\ step \in [1..n -> [V \X V -> V]]
  OBVIOUS
<1>2. PICK f \in [1..n -> V] : IsFold(f, t, n, base, step)
  <2> HIDE DEF base, step, V
  <2> QED BY <1>1, TreeFunction
<1>3. f = F(f)
  <2>1. ASSUME NEW i \in 1..n PROVE f[i] = F(f)[i]
    <3>1. CASE t[i].type = "PRED"
      BY <1>2, <3>1 DEF IsTree, IsFold, Folded
    <3>2. CASE t[i].type # "PRED"
      <4>1. t[i].left \in 1..n /\ t[i].right \in 1..n
        BY <3>2 DEF IsTree
      <4>2. <<f[t[i].left], f[t[i].right]>> \in V \X V
        BY <4>1
      <4>3. f[i] = step[i][<<f[t[i].left], f[t[i].right]>>]
        BY <1>2, <3>2 DEF IsFold, Folded
      <4>4. f[i] = {i} \cup f[t[i].left] \cup f[t[i].right]
        BY <4>2, <4>3
      <4> QED BY <4>4, <3>2 DEF IsTree
    <3> QED BY <3>1, <3>2
  <2> QED BY <2>1 DEF IsTree
<1>4. U = F(U)
  <2> HIDE DEF F
  <2> QED BY <1>3
<1>5. \A i : Under(t, i) = U[i]
  BY Zenon DEF Under
<1>6. U[k] = F(U)[k]
  BY <1>4
<1> HIDE DEF U
<1> QED BY <1>5, <1>6 DEF IsTree

(* It begins with its root, has greater numbers below it ... *)
LEMMA UnderFacts ==
    ASSUME NEW t, NEW n, IsTree(t, n)
    PROVE  \A k \in 1..n : k \in Under(t, k) /\ Under(t, k) \subseteq k..n
<1> DEFINE S == {k \in 1..n : k \in Under(t, k) /\ Under(t, k) \subseteq k..n}
<1>1. ASSUME NEW k \in 1..n, \A m \in (k + 1)..n : m \in S PROVE k \in S
  <2>1. CASE t[k].type = "PRED"
    <3>1. Under(t, k) = {k}
      BY <2>1, UnderIs
    <3> QED BY <3>1
  <2>2. CASE t[k].type # "PRED"
    <3>1. t[k].left \in (k + 1)..n /\ t[k].right \in (k + 1)..n
      BY <2>2 DEF IsTree
    <3>2. Under(t, k) = {k} \cup Under(t, t[k].left) \cup Under(t, t[k].right)
      BY <2>2, UnderIs
    <3>3. /\ Under(t, t[k].left) \subseteq t[k].left..n
          /\ Under(t, t[k].right) \subseteq t[k].right..n
      BY <1>1, <3>1
    <3> HIDE DEF S
    <3>4. Under(t, k) \subseteq k..n
      BY <3>1, <3>2, <3>3
    <3> QED BY <3>2, <3>4 DEF S
  <2> QED BY <2>1, <2>2
<1>2. n \in Nat
  BY DEF IsTree
<1>3. \A k \in 1..n : k \in S
  <2> HIDE DEF S
  <2> QED BY <1>1, <1>2, Downwards
<1> QED BY <1>3

(* ... and with a node everything below that node. *)
LEMMA UnderTransitive ==
    ASSUME NEW t, NEW n, IsTree(t, n)
    PROVE  \A k \in 1..n : \A m \in Under(t, k) : Under(t, m) \subseteq Under(t, k)
<1> DEFINE S == {k \in 1..n : \A m \in Under(t, k) : Under(t, m) \subseteq Under(t, k)}
<1>1. ASSUME NEW k \in 1..n, \A m \in (k + 1)..n : m \in S PROVE k \in S
  <2>1. CASE t[k].type = "PRED"
    <3>1. Under(t, k) = {k}
      BY <2>1, UnderIs
    <3> QED BY <3>1
  <2>2. CASE t[k].type # "PRED"
    <3>1. t[k].left \in S /\ t[k].right \in S
      BY <1>1, <2>2 DEF IsTree
    <3>2. Under(t, k) = {k} \cup Under(t, t[k].left) \cup Under(t, t[k].right)
      BY <2>2, UnderIs
    <3> QED BY <3>1, <3>2
  <2> QED BY <2>1, <2>2
<1>2. n \in Nat
  BY DEF IsTree
<1>3. \A k \in 1..n : k \in S
  <2> HIDE DEF S
  <2> QED BY <1>1, <1>2, Downwards
<1> QED BY <1>3

(* Marking conditions leaves the shape of a tree as it is. *)
SameShape(t, u, n) ==
    /\ DOMAIN u = DOMAIN t
    /\ \A k \in 1..n : u[k].type = t[k].type
    /\ \A k \in 1..n : t[k].type # "PRED" =>
          u[k].left = t[k].left /\ u[k].right = t[k].right /\ u[k].op = t[k].op

LEMMA SameUnder ==
    ASSUME NEW t, NEW v, NEW n, IsTree(t, n), SameShape(t, v, n)
    PROVE  IsTree(v, n) /\ \A k \in 1..n : Under(v, k) = Under(t, k)
<1>1. IsTree(v, n)
  BY DEF IsTree, SameShape
<1> DEFINE S == {k \in 1..n : Under(v, k) = Under(t, k)}
<1>2. ASSUME NEW k \in 1..n, \A m \in (k + 1)..n : m \in S PROVE k \in S
  <2>1. CASE t[k].type = "PRED"
    <3>1. v[k].type = "PRED"
      BY <2>1 DEF SameShape
    <3>2. Under(t, k) = {k}
      BY <2>1, UnderIs
    <3>3. Under(v, k) = {k}
      BY <1>1, <3>1, UnderIs
    <3> QED BY <3>2, <3>3
  <2>2. CASE t[k].type # "PRED"
    <3>1. v[k].type # "PRED" /\ v[k].left = t[k].left /\ v[k].right = t[k].right
      BY <2>2 DEF SameShape
    <3>2. t[k].left \in S /\ t[k].right \in S
      BY <1>2, <2>2 DEF IsTree
    <3>3. Under(t, k) = {k} \cup Under(t, t[k].left) \cup Under(t, t[k].right)
      BY <2>2, UnderIs
    <3>4. Under(v, k) = {k} \cup Under(v, v[k].left) \cup Under(v, v[k].right)
      <4>1. Under(v, k) = {k} \cup IF v[k].type = "PRED" THEN {}
                                  ELSE Under(v, v[k].left) \cup Under(v, v[k].right)
        BY <1>1, UnderIs
      <4> QED BY <4>1, <3>1
    <3>5. /\ Under(v, v[k].left) = Under(t, t[k].left)
          /\ Under(v, v[k].right) = Under(t, t[k].right)
      BY <3>1, <3>2
    <3> HIDE DEF S
    <3>6. Under(v, k) = Under(t, k)
      BY <3>3, <3>4, <3>5
    <3> QED BY <3>6 DEF S
  <2> QED BY <2>1, <2>2
<1>3. n \in Nat
  BY DEF IsTree
<1>4. \A k \in 1..n : k \in S
  <2> HIDE DEF S
  <2> QED BY <1>2, <1>3, Downwards
<1> QED BY <1>1, <1>4

(* Below a node everything but the node is below one of its children. *)
LEMMA Parented ==
    ASSUME NEW t, NEW n, IsTree(t, n)
    PROVE  \A k \in 1..n : \A x \in Under(t, k) \ {k} :
               \E m \in Under(t, k) : x \in Children(t, m)
<1> DEFINE S == {k \in 1..n : \A x \in Under(t, k) \ {k} :
                                  \E m \in Under(t, k) : x \in Children(t, m)}
<1>1. ASSUME NEW k \in 1..n, \A m \in (k + 1)..n : m \in S PROVE k \in S
  <2>1. CASE t[k].type = "PRED"
    <3>1. Under(t, k) = {k}
      BY <2>1, UnderIs
    <3> QED BY <3>1
  <2>2. CASE t[k].type # "PRED"
    <3> DEFINE l == t[k].left
               r == t[k].right
    <3>1. l \in S /\ r \in S
      BY <1>1, <2>2 DEF IsTree
    <3>2. Under(t, k) = {k} \cup Under(t, l) \cup Under(t, r)
      BY <2>2, UnderIs
    <3>3. k \in Under(t, k) /\ Children(t, k) = {l, r}
      BY <2>2, <3>2 DEF Children
    <3> HIDE DEF l, r
    <3>4. ASSUME NEW x \in Under(t, k) \ {k}
          PROVE  \E m \in Under(t, k) : x \in Children(t, m)
      <4>1. CASE x \in {l, r}
        BY <4>1, <3>3
      <4>2. CASE x \in Under(t, l) \ {l}
        <5>1. PICK m \in Under(t, l) : x \in Children(t, m)
          BY <4>2, <3>1
        <5> QED BY <5>1, <3>2
      <4>3. CASE x \in Under(t, r) \ {r}
        <5>1. PICK m \in Under(t, r) : x \in Children(t, m)
          BY <4>3, <3>1
        <5> QED BY <5>1, <3>2
      <4> QED BY <3>2, <4>1, <4>2, <4>3
    <3> QED BY <3>4
  <2> QED BY <2>1, <2>2
<1>2. n \in Nat
  BY DEF IsTree
<1>3. \A k \in 1..n : k \in S
  <2> HIDE DEF S
  <2> QED BY <1>1, <1>2, Downwards
<1> QED BY <1>3

(* The tree of a clause. *)
LEMMA ClauseTree ==
    ASSUME NEW q, Clause(q)
    PROVE  /\ IsTree(q, Len(q)) /\ 1 \in 1..Len(q)
           /\ \A k \in 1..Len(q) : q[k].passthru = FALSE
           /\ \A k \in 1..Len(q) : q[k].type # "PRED" =>
                  q[k].op \in {"AND", "OR"} /\ Children(q, k) = {q[k].left, q[k].right}
<1>1. Len(q) \in Nat \ {0} /\ DOMAIN q = 1..Len(q)
  BY DEF Clause
<1>2. ASSUME NEW k \in 1..Len(q)
      PROVE  /\ q[k].passthru = FALSE
             /\ \/ q[k].type = "PRED"
                \/ /\ q[k].type = "LOGIC" /\ q[k].op \in {"AND", "OR"}
                   /\ q[k].left \in (k + 1)..Len(q) /\ q[k].right \in (k + 1)..Len(q)
  <2>1. CASE q[k].type = "PRED"
    <3>1. q[k] = PredicateNode(q[k].cond)
      BY <1>1, <2>1 DEF Clause
    <3>2. PredicateNode(q[k].cond).passthru = FALSE
      BY DEF PredicateNode
    <3> QED BY <2>1, <3>1, <3>2
  <2>2. CASE q[k].type # "PRED"
    <3>1. /\ q[k].type = "LOGIC" /\ q[k].op \in {"AND", "OR"}
          /\ q[k] = LogicNode(q[k].op, q[k].left, q[k].right)
          /\ Children(q, k) \subseteq (k + 1)..Len(q)
      BY <1>1, <2>2 DEF Clause
    <3>2. LogicNode(q[k].op, q[k].left, q[k].right).passthru = FALSE
      BY DEF LogicNode
    <3> QED BY <2>2, <3>1, <3>2 DEF Children
  <2> QED BY <2>1, <2>2
<1>3. \A k \in 1..Len(q) : q[k].type # "PRED" =>
          q[k].op \in {"AND", "OR"} /\ Children(q, k) = {q[k].left, q[k].right}
  BY <1>2 DEF Children
<1>4. IsTree(q, Len(q))
  BY <1>1, <1>2 DEF IsTree
<1>5. 1 \in 1..Len(q)
  BY <1>1
<1> QED BY <1>2, <1>3, <1>4, <1>5

(* No node has two parents, so the two sides of a node share nothing, and  *)
(* none but the root is without, so the root has everything below it.      *)
LEMMA SidesApart ==
    ASSUME NEW q, Clause(q), NEW k \in 1..Len(q), q[k].type # "PRED"
    PROVE  Under(q, q[k].left) \cap Under(q, q[k].right) = {}
<1> DEFINE n == Len(q)
           l == q[k].left
           r == q[k].right
           B == Under(q, l) \cap Under(q, r)
<1>1. IsTree(q, n) /\ Children(q, k) = {l, r}
  BY ClauseTree
<1>2. n \in Nat /\ l \in (k + 1)..n /\ r \in (k + 1)..n /\ l # r
  BY <1>1 DEF IsTree, Clause
<1>3. Under(q, l) \subseteq l..n /\ Under(q, r) \subseteq r..n
  BY <1>1, <1>2, UnderFacts
<1>4. ASSUME NEW m \in 1..n, NEW o \in 1..n, NEW x \in 2..n,
             x \in Children(q, m), x \in Children(q, o)
      PROVE  m = o
  BY <1>4 DEF Clause
<1> SUFFICES ASSUME B # {} PROVE FALSE
  OBVIOUS
<1>5. PICK x \in B : \A y \in B : x <= y
  <2>1. B \in SUBSET Nat
    BY <1>2, <1>3
  <2> HIDE DEF B
  <2> QED BY <2>1, LeastOf
<1> HIDE DEF l, r, n
<1>6. ASSUME NEW c \in {l, r}, x # c
      PROVE  \E m \in Under(q, c) : x \in Children(q, m)
  BY <1>1, <1>2, <1>5, <1>6, Parented
<1>7. ASSUME NEW c \in {l, r}, x = c PROVE FALSE
  <2>1. PICK d \in {l, r} : d # c
    BY <1>2
  <2>2. PICK m \in Under(q, d) : x \in Children(q, m)
    BY <2>1, <1>6, <1>7
  <2>3. x \in Children(q, k) /\ x \in 2..n
    BY <1>1, <1>2, <1>7
  <2>4. m \in 1..n /\ m > k
    BY <1>2, <1>3
  <2>5. m = k
    BY <1>4, <2>2, <2>3, <2>4 DEF n
  <2> QED BY <2>4, <2>5
<1>8. PICK m \in Under(q, l) : x \in Children(q, m)
  BY <1>6, <1>7
<1>9. PICK o \in Under(q, r) : x \in Children(q, o)
  BY <1>6, <1>7
<1>10. m \in 1..n /\ o \in 1..n /\ x \in 2..n
  BY <1>2, <1>3, <1>5
<1>11. m = o
  BY <1>4, <1>8, <1>9, <1>10
<1>12. x \in (m + 1)..n
  BY <1>1, <1>8, <1>10 DEF IsTree, Children
<1> QED BY <1>2, <1>5, <1>8, <1>9, <1>10, <1>11, <1>12

LEMMA RootHoldsAll ==
    ASSUME NEW q, Clause(q)
    PROVE  Under(q, 1) = 1..Len(q)
<1> DEFINE n == Len(q)
           S == {x \in 1..n : x \notin Under(q, 1)}
<1>1. IsTree(q, n) /\ n \in Nat \ {0}
  BY ClauseTree DEF Clause
<1>2. 1 \in Under(q, 1) /\ Under(q, 1) \subseteq 1..n
  BY <1>1, UnderFacts
<1> SUFFICES ASSUME S # {} PROVE FALSE
  BY <1>2
<1>3. PICK x \in S : \A y \in S : x <= y
  <2>1. S \in SUBSET Nat
    OBVIOUS
  <2> HIDE DEF S
  <2> QED BY <2>1, LeastOf
<1>4. x \in 2..n
  BY <1>1, <1>2
<1>5. PICK m \in 1..n : x \in Children(q, m)
  BY <1>4 DEF Clause
<1>6. x \in (m + 1)..n /\ q[m].type # "PRED" /\ x \in {q[m].left, q[m].right}
  BY <1>1, <1>5 DEF IsTree, Children
<1>7. m \in Under(q, 1)
  BY <1>3, <1>6
<1>8. x \in Under(q, m)
  <2>1. q[m].left \in 1..n /\ q[m].right \in 1..n
    BY <1>1, <1>6 DEF IsTree
  <2>2. x \in Under(q, x)
    BY <1>1, <1>6, <2>1, UnderFacts
  <2> QED BY <1>1, <1>6, <2>2, UnderIs
<1>9. Under(q, m) \subseteq Under(q, 1)
  BY <1>1, <1>7, UnderTransitive
<1> QED BY <1>3, <1>8, <1>9

-----------------------------------------------------------------------------
(* The search for a condition to scan by. *)
LEMMA GetPredicateIs ==
    ASSUME NEW t, NEW n, IsTree(t, n), NEW p, NEW k \in 1..n
    PROVE  GetPredicate(t, k, p) =
               IF t[k].passthru THEN NoNode
               ELSE IF t[k].type = "PRED"
               THEN IF t[k].pred.prop = p THEN k ELSE NoNode
               ELSE IF t[k].op # "AND" THEN NoNode
               ELSE IF GetPredicate(t, t[k].left, p) # NoNode
                    THEN GetPredicate(t, t[k].left, p) ELSE GetPredicate(t, t[k].right, p)
<1> DEFINE F(g) == [i \in DOMAIN t |->
                       IF t[i].passthru THEN NoNode
                       ELSE IF t[i].type = "PRED"
                       THEN IF t[i].pred.prop = p THEN i ELSE NoNode
                       ELSE IF t[i].op # "AND" THEN NoNode
                       ELSE IF g[t[i].left] # NoNode THEN g[t[i].left] ELSE g[t[i].right]]
           G == CHOOSE g : g = F(g)
           V == (1..n) \cup {NoNode}
           base == [i \in 1..n |-> IF t[i].passthru \/ t[i].pred.prop # p THEN NoNode ELSE i]
           step == [i \in 1..n |-> [x \in V \X V |->
                       IF t[i].passthru \/ t[i].op # "AND" THEN NoNode
                       ELSE IF x[1] # NoNode THEN x[1] ELSE x[2]]]
<1>1. base \in [1..n -> V] /\ step \in [1..n -> [V \X V -> V]]
  <2>1. base \in [1..n -> V]
    OBVIOUS
  <2>2. step \in [1..n -> [V \X V -> V]]
    OBVIOUS
  <2> QED BY <2>1, <2>2
<1>2. PICK f \in [1..n -> V] : IsFold(f, t, n, base, step)
  <2> HIDE DEF base, step, V
  <2> QED BY <1>1, TreeFunction
<1>3. f = F(f)
  <2>1. ASSUME NEW i \in 1..n PROVE f[i] = F(f)[i]
    <3>1. CASE t[i].type = "PRED"
      BY <1>2, <3>1 DEF IsTree, IsFold, Folded
    <3>2. CASE t[i].type # "PRED"
      <4>1. t[i].left \in 1..n /\ t[i].right \in 1..n
        BY <3>2 DEF IsTree
      <4>2. <<f[t[i].left], f[t[i].right]>> \in V \X V
        BY <4>1
      <4>3. f[i] = step[i][<<f[t[i].left], f[t[i].right]>>]
        BY <1>2, <3>2 DEF IsFold, Folded
      <4>4. f[i] = IF t[i].passthru \/ t[i].op # "AND" THEN NoNode
                   ELSE IF f[t[i].left] # NoNode THEN f[t[i].left] ELSE f[t[i].right]
        BY <4>2, <4>3
      <4> QED BY <4>4, <3>2 DEF IsTree
    <3> QED BY <3>1, <3>2
  <2> QED BY <2>1 DEF IsTree
<1>4. G = F(G)
  <2> HIDE DEF F
  <2> QED BY <1>3
<1>5. \A i : GetPredicate(t, i, p) = G[i]
  BY Zenon DEF GetPredicate
<1>6. G[k] = F(G)[k]
  BY <1>4
<1> HIDE DEF G
<1> QED BY <1>5, <1>6 DEF IsTree

(* A condition binds the subtree of k if no OR stands between them. *)
UnderOr(t, k, x) ==
    \E b \in Under(t, k) : t[b].type = "LOGIC" /\ t[b].op = "OR" /\ x \in Under(t, b)
IsFor(t, p, x) == t[x].type = "PRED" /\ ~t[x].passthru /\ t[x].pred.prop = p

(* The condition found is one on the property that binds the subtree, and  *)
(* if there is one, one is found.                                          *)
Found(t, k, p, x) ==
    /\ x # NoNode => x \in Under(t, k) /\ IsFor(t, p, x) /\ ~UnderOr(t, k, x)
    /\ x = NoNode => \A y \in Under(t, k) : IsFor(t, p, y) => UnderOr(t, k, y)

LEMMA GetPredicateFinds ==
    ASSUME NEW t, NEW n, IsTree(t, n), NEW p,
           \A k \in 1..n : t[k].type # "PRED" =>
               /\ ~t[k].passthru /\ t[k].op \in {"AND", "OR"}
               /\ Under(t, t[k].left) \cap Under(t, t[k].right) = {}
    PROVE  \A k \in 1..n : Found(t, k, p, GetPredicate(t, k, p))
<1> DEFINE S == {k \in 1..n : Found(t, k, p, GetPredicate(t, k, p))}
<1>0. n \in Nat
  BY DEF IsTree
<1>1. ASSUME NEW k \in 1..n, \A m \in (k + 1)..n : m \in S PROVE k \in S
  <2> DEFINE x == GetPredicate(t, k, p)
  <2>0. NoNode \notin 1..n
    BY QueryAssumption
  <2>1. CASE t[k].type = "PRED"
    <3>1. Under(t, k) = {k}
      BY <2>1, UnderIs
    <3>2. ~UnderOr(t, k, k)
      BY <2>1, <3>1 DEF UnderOr
    <3>3. x = IF t[k].passthru THEN NoNode
              ELSE IF t[k].pred.prop = p THEN k ELSE NoNode
      BY <2>1, GetPredicateIs
    <3> QED BY <2>0, <2>1, <3>1, <3>2, <3>3 DEF Found, IsFor
  <2>2. CASE t[k].type # "PRED"
    <3> DEFINE l == t[k].left
               r == t[k].right
    <3>1. l \in S /\ r \in S /\ t[k].type = "LOGIC"
      BY <1>1, <2>2 DEF IsTree
    <3>2. Under(t, k) = {k} \cup Under(t, l) \cup Under(t, r)
      BY <2>2, UnderIs
    <3>3. /\ x = IF t[k].op # "AND" THEN NoNode
                 ELSE IF GetPredicate(t, l, p) # NoNode THEN GetPredicate(t, l, p)
                 ELSE GetPredicate(t, r, p)
          /\ t[k].op \in {"AND", "OR"} /\ Under(t, l) \cap Under(t, r) = {}
      BY <2>2, GetPredicateIs
    <3>4. ~IsFor(t, p, k)
      BY <2>2 DEF IsFor
    <3>5. l \in 1..n /\ r \in 1..n
      BY <3>1
    <3>6. /\ \A m \in Under(t, l) : Under(t, m) \subseteq Under(t, l)
          /\ \A m \in Under(t, r) : Under(t, m) \subseteq Under(t, r)
      BY <3>5, UnderTransitive
    <3> HIDE DEF l, r, x
    <3>7. CASE t[k].op # "AND"
      <4>1. x = NoNode /\ \A y \in Under(t, k) : UnderOr(t, k, y)
        BY <3>1, <3>2, <3>3, <3>7 DEF UnderOr
      <4> QED BY <4>1 DEF Found, x
    <3>8. CASE t[k].op = "AND"
      <4>1. \A y \in Under(t, l) : UnderOr(t, k, y) <=> UnderOr(t, l, y)
        BY <3>2, <3>3, <3>6, <3>8 DEF UnderOr
      <4>2. \A y \in Under(t, r) : UnderOr(t, k, y) <=> UnderOr(t, r, y)
        BY <3>2, <3>3, <3>6, <3>8 DEF UnderOr
      <4>3. Found(t, l, p, GetPredicate(t, l, p)) /\ Found(t, r, p, GetPredicate(t, r, p))
        BY <3>1
      <4>4. CASE GetPredicate(t, l, p) # NoNode
        BY <3>2, <3>3, <3>8, <4>1, <4>3, <4>4 DEF Found, x
      <4>5. CASE GetPredicate(t, l, p) = NoNode
        BY <3>2, <3>3, <3>4, <3>8, <4>1, <4>2, <4>3, <4>5 DEF Found, x
      <4> QED BY <4>4, <4>5
    <3> QED BY <3>7, <3>8
  <2> QED BY <2>1, <2>2
<1>2. \A k \in 1..n : k \in S
  <2> HIDE DEF S
  <2> QED BY <1>0, <1>1, Downwards
<1> QED BY <1>2

-----------------------------------------------------------------------------
(* Marking conditions changes their passthru and nothing else. *)
Marks(q, X, t) ==
    /\ SameShape(q, t, Len(q)) /\ IsTree(t, Len(q))
    /\ \A k \in 1..Len(q) : /\ t[k].passthru <=> k \in X
                            /\ Under(t, k) = Under(q, k)
                            /\ q[k].type = "PRED" => t[k].pred = q[k].pred

LEMMA MarkIs ==
    ASSUME NEW q, Clause(q), NEW X
    PROVE  Marks(q, X, Mark(q, X))
<1> DEFINE n == Len(q)
           t == Mark(q, X)
<1>1. IsTree(q, n) /\ DOMAIN q = 1..n
  BY ClauseTree DEF Clause
<1>2. DOMAIN t = DOMAIN q
  BY DEF Mark
<1>3. ASSUME NEW k \in 1..n
      PROVE  /\ t[k].passthru <=> k \in X
             /\ t[k].type = q[k].type
             /\ q[k].type = "PRED" => t[k].pred = q[k].pred
             /\ q[k].type # "PRED" => /\ t[k].left = q[k].left /\ t[k].right = q[k].right
                                      /\ t[k].op = q[k].op
  <2>1. t[k] = [q[k] EXCEPT !.passthru = @ \/ k \in X] /\ q[k].passthru = FALSE
    BY <1>1, ClauseTree DEF Mark
  <2>2. CASE q[k].type = "PRED"
    <3> DEFINE c == q[k].cond
    <3>1. q[k] = [type |-> "PRED", pred |-> Predicate(c), passthru |-> FALSE, cond |-> c]
      BY <1>1, <2>2 DEF Clause, PredicateNode
    <3> HIDE DEF t, c
    <3> QED BY <2>1, <2>2, <3>1
  <2>3. CASE q[k].type # "PRED"
    <3> DEFINE o == q[k].op
               l == q[k].left
               r == q[k].right
    <3>1. q[k] = [type |-> "LOGIC", op |-> o, left |-> l, right |-> r, passthru |-> FALSE]
      BY <1>1, <2>3 DEF Clause, LogicNode
    <3> HIDE DEF t, o, l, r
    <3>2. t[k].left = q[k].left /\ t[k].right = q[k].right /\ t[k].op = q[k].op
      BY <2>1, <3>1
    <3> QED BY <2>1, <2>3, <3>1, <3>2
  <2> QED BY <2>2, <2>3
<1>4. SameShape(q, t, n)
  BY <1>2, <1>3 DEF SameShape
<1> HIDE DEF t
<1>5. IsTree(t, n) /\ \A k \in 1..n : Under(t, k) = Under(q, k)
  BY <1>1, <1>4, SameUnder
<1>6. Marks(q, X, t)
  BY <1>3, <1>4, <1>5 DEF Marks
<1> QED BY <1>6 DEF t

(* What the search finds in a marked tree, told of the clause. *)
Binds(q, p, x) == q[x].type = "PRED" /\ q[x].pred.prop = p /\ ~UnderOr(q, 1, x)

LEMMA MarkedSearch ==
    ASSUME NEW q, Clause(q), NEW X, \A k \in X : q[k].type = "PRED", NEW p, NEW x,
           x = GetPredicate(Mark(q, X), 1, p)
    PROVE  /\ x # NoNode => x \in 1..Len(q) /\ Binds(q, p, x)
           /\ x = NoNode => \A y \in (1..Len(q)) \ X : ~Binds(q, p, y)
<1> DEFINE n == Len(q)
<1>1. PICK t : t = Mark(q, X)
  OBVIOUS
<1>2. Marks(q, X, t) /\ IsTree(q, n) /\ 1 \in 1..n /\ Under(q, 1) = 1..n
  BY <1>1, MarkIs, ClauseTree, RootHoldsAll
<1>3. /\ IsTree(t, n) /\ SameShape(q, t, n)
      /\ \A k \in 1..n : /\ t[k].passthru <=> k \in X
                         /\ Under(t, k) = Under(q, k)
                         /\ q[k].type = "PRED" => t[k].pred = q[k].pred
  BY <1>2 DEF Marks
<1>4. \A k \in 1..n : t[k].type # "PRED" => ~t[k].passthru
  BY <1>3 DEF SameShape
<1>5. ASSUME NEW k \in 1..n, t[k].type # "PRED"
      PROVE  /\ ~t[k].passthru /\ t[k].op \in {"AND", "OR"}
             /\ Under(t, t[k].left) \cap Under(t, t[k].right) = {}
  <2>1. /\ q[k].type # "PRED" /\ t[k].op = q[k].op
        /\ t[k].left = q[k].left /\ t[k].right = q[k].right
    BY <1>3, <1>5 DEF SameShape
  <2>2. q[k].op \in {"AND", "OR"}
    BY <2>1, ClauseTree
  <2>4. q[k].left \in 1..n /\ q[k].right \in 1..n
    BY <1>2, <2>1 DEF IsTree
  <2>3. Under(q, q[k].left) \cap Under(q, q[k].right) = {}
    BY <2>1, SidesApart
  <2> QED BY <1>3, <1>4, <1>5, <2>1, <2>2, <2>3, <2>4
<1>6. Found(t, 1, p, x)
  <2>1. \A k \in 1..n : Found(t, k, p, GetPredicate(t, k, p))
    BY <1>3, <1>5, GetPredicateFinds
  <2> QED BY <1>1, <1>2, <2>1
<1>7. Under(t, 1) = 1..n
  BY <1>2, <1>3
<1>8. \A y : UnderOr(t, 1, y) <=> UnderOr(q, 1, y)
  <2>1. \A b \in 1..n : t[b].type = q[b].type /\ (t[b].type = "LOGIC" => t[b].op = q[b].op)
    BY <1>3 DEF SameShape
  <2> QED BY <1>2, <1>3, <1>7, <2>1 DEF UnderOr
<1>9. \A y \in 1..n : IsFor(t, p, y) <=> y \notin X /\ q[y].type = "PRED" /\ q[y].pred.prop = p
  BY <1>3 DEF IsFor, SameShape
<1> QED BY <1>6, <1>7, <1>8, <1>9 DEF Found, Binds

(* The conditions taken: one for each property from the first on, each     *)
(* binding the whole clause, none after a range; none at all only if       *)
(* nothing binds the first property.                                       *)
IsPlan(q, s, p) ==
    /\ s \in Seq(1..Len(q)) /\ Len(s) <= p
    /\ \A i \in 1..Len(s) : Binds(q, i, s[i])
    /\ \A i \in 1..Len(s) : i # Len(s) => ~Closes(q[s[i]].pred)
    /\ p # 0 /\ s = <<>> => \A y \in 1..Len(q) : ~Binds(q, 1, y)

(* One turn of the planning loop. *)
Turn(q, prev, p) ==
    LET next == GetPredicate(Mark(q, ToSet(prev)), 1, p)
    IN  IF \/ Len(prev) < p - 1
           \/ p > 1 /\ Closes(q[Last(prev)].pred)
           \/ next = NoNode
        THEN prev ELSE Append(prev, next)

LEMMA TurnPlans ==
    ASSUME NEW q, Clause(q), NEW p \in Nat, NEW s, IsPlan(q, s, p)
    PROVE  IsPlan(q, Turn(q, s, p + 1), p + 1)
<1> DEFINE n == Len(q)
<1>1. PICK x : x = GetPredicate(Mark(q, ToSet(s)), 1, p + 1)
  OBVIOUS
<1>2. s \in Seq(1..n) /\ Len(s) \in Nat /\ Len(s) <= p /\ n \in Nat
  BY ClauseTree DEF IsPlan, IsTree
<1>3. \A k \in ToSet(s) : k \in 1..n /\ q[k].type = "PRED"
  BY <1>2 DEF ToSet, IsPlan, Binds
<1>4. /\ x # NoNode => x \in 1..n /\ Binds(q, p + 1, x)
      /\ x = NoNode => \A y \in (1..n) \ ToSet(s) : ~Binds(q, p + 1, y)
  <2>1. \A k \in ToSet(s) : q[k].type = "PRED"
    BY <1>3
  <2> QED BY <1>1, <2>1, MarkedSearch
<1>5. CASE Turn(q, s, p + 1) = s
  <2>1. CASE s = <<>> /\ p = 0
    <3>1. x = NoNode
      <4>1. CASE x # NoNode
        <5>1. Turn(q, s, p + 1) = Append(s, x)
          <6>1. Len(s) = 0 /\ ~(Len(s) < (p + 1) - 1) /\ ~(p + 1 > 1)
            BY <2>1
          <6> QED BY <1>1, <4>1, <6>1 DEF Turn
        <5>2. Append(<<>>, x) # <<>>
          OBVIOUS
        <5> QED BY <5>1, <5>2, <1>5, <2>1
      <4> QED BY <4>1
    <3>2. ToSet(s) = {}
      BY <2>1 DEF ToSet
    <3>3. \A y \in 1..n : ~Binds(q, 1, y)
      BY <1>4, <2>1, <3>1, <3>2
    <3>4. \A i \in 1..Len(s) : FALSE
      BY <2>1
    <3>5. Len(s) <= p + 1
      BY <1>2
    <3> QED BY <1>2, <1>5, <3>3, <3>4, <3>5 DEF IsPlan
  <2>2. CASE ~(s = <<>> /\ p = 0)
    <3>1. p + 1 # 0 /\ s = <<>> => \A y \in 1..n : ~Binds(q, 1, y)
      BY <2>2 DEF IsPlan
    <3>2. Len(s) <= p + 1
      BY <1>2
    <3> QED BY <1>5, <3>1, <3>2 DEF IsPlan
  <2> QED BY <2>1, <2>2
<1>6. CASE Turn(q, s, p + 1) # s
  <2>1. /\ Turn(q, s, p + 1) = Append(s, x) /\ x # NoNode /\ Len(s) = p
        /\ p # 0 => ~Closes(q[s[p]].pred)
    <3>1. /\ Turn(q, s, p + 1) = Append(s, x) /\ x # NoNode /\ ~(Len(s) < (p + 1) - 1)
          /\ ~(p + 1 > 1 /\ Closes(q[Last(s)].pred))
      BY <1>1, <1>6, Zenon DEF Turn
    <3>2. Len(s) = p
      BY <1>2, <3>1
    <3>3. p # 0 => p + 1 > 1
      OBVIOUS
    <3> QED BY <3>1, <3>2, <3>3 DEF Last
  <2> DEFINE u == Append(s, x)
  <2>2. /\ u \in Seq(1..n) /\ Len(u) = p + 1 /\ u[p + 1] = x
        /\ \A i \in 1..p : u[i] = s[i]
    BY <1>2, <1>4, <2>1
  <2>3. ASSUME NEW i \in 1..(p + 1) PROVE Binds(q, i, u[i])
    <3>1. CASE i = p + 1
      BY <1>4, <2>1, <2>2, <3>1
    <3>2. CASE i # p + 1
      BY <2>1, <2>2, <3>2 DEF IsPlan
    <3> QED BY <3>1, <3>2
  <2>4. ASSUME NEW i \in 1..(p + 1), i # p + 1 PROVE ~Closes(q[u[i]].pred)
    BY <2>1, <2>2, <2>4 DEF IsPlan
  <2>5. u # <<>>
    BY <2>2
  <2> HIDE DEF u
  <2>6. IsPlan(q, u, p + 1)
    BY <2>2, <2>3, <2>4, <2>5 DEF IsPlan
  <2> QED BY <2>1, <2>6 DEF u
<1> QED BY <1>5, <1>6

LEMMA TakenIs ==
    ASSUME NEW q, Clause(q)
    PROVE  IsPlan(q, Taken(q, 1), NumProps)
<1> DEFINE n == Len(q)
           F(t) == [p \in 0..NumProps |->
                       IF p = 0 THEN <<>>
                       ELSE LET prev == t[p - 1]
                                next == GetPredicate(Mark(q, ToSet(prev)), 1, p)
                            IN  IF \/ Len(prev) < p - 1
                                   \/ p > 1 /\ Closes(q[Last(prev)].pred)
                                   \/ next = NoNode
                                THEN prev ELSE Append(prev, next)]
           T == CHOOSE t : t = F(t)
           V(p) == {s \in Seq(1..n) : IsPlan(q, s, p)}
<1>1. \A t : F(t) = [p \in 0..NumProps |-> IF p = 0 THEN <<>> ELSE Turn(q, t[p - 1], p)]
  BY Zenon DEF Turn
<1>2. NumProps \in Nat \ {0}
  BY QueryAssumption
<1>3. \E t : t = F(t)
  <2> DEFINE W == UNION {V(p) : p \in 0..NumProps}
             All == Seq(1..n)
             step == [p \in 1..NumProps |-> [s \in All |-> IF IsPlan(q, s, p - 1)
                                                           THEN Turn(q, s, p) ELSE <<>>]]
  <2>1. step \in [1..NumProps -> [All -> All]]
    <3>1. ASSUME NEW p \in 1..NumProps, NEW s \in All, IsPlan(q, s, p - 1)
          PROVE  Turn(q, s, p) \in All
      <4>1. p - 1 \in Nat /\ (p - 1) + 1 = p
        BY <1>2
      <4>2. IsPlan(q, Turn(q, s, (p - 1) + 1), (p - 1) + 1)
        BY <3>1, <4>1, TurnPlans
      <4> QED BY <4>1, <4>2 DEF IsPlan
    <3> HIDE DEF All
    <3>2. <<>> \in All
      BY DEF All
    <3> QED BY <3>1, <3>2
  <2>2. PICK f \in [0..NumProps -> All] : Iterates(f, NumProps, <<>>, step)
    <3>1. <<>> \in All
      OBVIOUS
    <3> HIDE DEF step, All
    <3> QED BY <1>2, <2>1, <3>1, Recursion
  <2>3. \A p \in 0..NumProps : IsPlan(q, f[p], p)
    <3> DEFINE S == {p \in 0..NumProps : IsPlan(q, f[p], p)}
    <3>1. 0 \in S
      <4>1. f[0] = <<>> /\ IsPlan(q, <<>>, 0)
        BY <1>2, <2>2 DEF IsPlan, Iterates
      <4> QED BY <1>2, <4>1
    <3>2. \A p \in 0..NumProps : p # NumProps /\ p \in S => p + 1 \in S
      <4>1. SUFFICES ASSUME NEW p \in 0..NumProps, p # NumProps, p \in S PROVE p + 1 \in S
        OBVIOUS
      <4>2. f[p + 1] = step[p + 1][f[p]] /\ p + 1 \in 1..NumProps /\ f[p] \in All
        <5>1. p + 1 \in 1..NumProps /\ (p + 1) - 1 = p
          BY <1>2, <4>1
        <5> HIDE DEF step, All
        <5> QED BY <2>2, <5>1 DEF Iterates
      <4>3. step[p + 1][f[p]] = Turn(q, f[p], p + 1)
        BY <1>2, <4>1, <4>2
      <4>4. IsPlan(q, Turn(q, f[p], p + 1), p + 1)
        BY <4>1, TurnPlans
      <4> QED BY <4>2, <4>3, <4>4
    <3>3. \A p \in 0..NumProps : p \in S
      <4> HIDE DEF S
      <4> QED BY <1>2, <3>1, <3>2, Upwards
    <3> QED BY <3>3
  <2>4. \A p \in 0..NumProps :
            f[p] = IF p = 0 THEN <<>> ELSE Turn(q, f[p - 1], p)
    <3> SUFFICES ASSUME NEW p \in 0..NumProps, p # 0 PROVE f[p] = Turn(q, f[p - 1], p)
      BY <2>2 DEF Iterates
    <3>1. p - 1 \in 0..NumProps /\ f[p - 1] \in All /\ IsPlan(q, f[p - 1], p - 1)
      BY <1>2, <2>2, <2>3
    <3>2. f[p] = step[p][f[p - 1]]
      <4>1. p \in 1..NumProps
        BY <1>2
      <4> HIDE DEF step
      <4> QED BY <2>2, <4>1 DEF Iterates
    <3> QED BY <1>2, <3>1, <3>2
  <2>5. f = F(f)
    <3> HIDE DEF F
    <3> QED BY <1>1, <2>2, <2>4
  <2> HIDE DEF F
  <2> QED BY <2>5
<1>4. T = F(T)
  <2> HIDE DEF F
  <2> QED BY <1>3
<1>5. Taken(q, 1) = T[NumProps]
  BY Zenon DEF Taken
<1> DEFINE S == {p \in 0..NumProps : IsPlan(q, T[p], p)}
<1>6. T = [p \in 0..NumProps |-> IF p = 0 THEN <<>> ELSE Turn(q, T[p - 1], p)]
  <2> HIDE DEF F, T
  <2> QED BY <1>1, <1>4
<1> HIDE DEF T
<1>7. 0 \in S
  <2>1. T[0] = <<>> /\ IsPlan(q, <<>>, 0)
    BY <1>2, <1>6 DEF IsPlan
  <2> QED BY <1>2, <2>1
<1>8. \A p \in 0..NumProps : p # NumProps /\ p \in S => p + 1 \in S
  <2>1. SUFFICES ASSUME NEW p \in 0..NumProps, p # NumProps, p \in S PROVE p + 1 \in S
    OBVIOUS
  <2>2. p + 1 \in 0..NumProps /\ p + 1 # 0 /\ (p + 1) - 1 = p
    BY <1>2, <2>1
  <2>3. T[p + 1] = Turn(q, T[p], p + 1)
    BY <1>6, <2>2
  <2>4. IsPlan(q, Turn(q, T[p], p + 1), p + 1)
    BY <2>1, TurnPlans
  <2> QED BY <2>2, <2>3, <2>4
<1>9. \A p \in 0..NumProps : p \in S
  <2> HIDE DEF S
  <2> QED BY <1>2, <1>7, <1>8, Upwards
<1> QED BY <1>2, <1>5, <1>9

-----------------------------------------------------------------------------
(* The values of an index are ordered, NULL last. *)
LEMMA ValueOrder ==
    ASSUME NEW v \in Value, NEW w \in Value
    PROVE  /\ Same(v, w) <=> v = w
           /\ v = w \/ Less(v, w) \/ Less(w, v)
           /\ v = w => ~Less(v, w)
           /\ Less(v, w) => ~Less(w, v)
BY QueryAssumption DEF Value, Same, Less

(* What one alternative of a scan key asks of a value. *)
Holds(v, a) ==
    /\ ~Less(v, a.min) /\ ~(a.minExclusive /\ Same(v, a.min))
    /\ ~Above(v, a.max) /\ ~(a.maxExclusive /\ Same(v, a.max))

LEMMA PointHolds ==
    ASSUME NEW v \in Value, NEW w \in Value
    PROVE  Holds(v, Point(w)) <=> v = w
BY ValueOrder DEF Holds, Point, Above

Tuples == [1..NumProps -> Value]
Alternative == [min : Value \cup {NegInf}, max : Value \cup {Inf},
                minExclusive : BOOLEAN, maxExclusive : BOOLEAN]

LEMMA CommonIs ==
    ASSUME NEW key \in Tuples, NEW L \in 1..NumProps, NEW V, NEW b \in [1..L -> V]
    PROVE  Common(key, b) = 1..L
<1>1. NumProps \in Nat /\ Len(key) = NumProps /\ Len(b) = L
  <2>1. NumProps \in Nat /\ L \in Nat
    BY QueryAssumption
  <2>2. key \in Seq(Value) /\ DOMAIN key = 1..NumProps
    BY <2>1 DEF Tuples
  <2>3. b \in Seq(V) /\ DOMAIN b = 1..L
    BY <2>1
  <2> QED BY <2>1, <2>2, <2>3
<1>2. Min({NumProps, L}) = L
  <2>1. L \in {NumProps, L} /\ \A y \in {NumProps, L} : L <= y
    BY <1>1
  <2>2. \A x \in {NumProps, L} : (\A y \in {NumProps, L} : x <= y) => x = L
    BY <1>1
  <2> QED BY <2>1, <2>2 DEF Min
<1> QED BY <1>1, <1>2 DEF Common

(* A key is in the range of a choice of alternatives, all but the last of  *)
(* them single values, if each of its values is in its alternative.        *)
LEMMA InScanRange ==
    ASSUME NEW key \in Tuples, NEW L \in 1..NumProps, NEW stack \in [1..L -> Alternative],
           \A i \in 1..L : i # L => \E v \in Value : stack[i] = Point(v)
    PROVE  InRange(key, ScanRange(stack)) <=> \A i \in 1..L : Holds(key[i], stack[i])
<1> DEFINE rng == ScanRange(stack)
           Lead == \A i \in 1..L : i # L => key[i] = stack[i].min
<1>1. L \in Nat /\ NumProps \in Nat /\ \A i \in 1..L : key[i] \in Value
  BY QueryAssumption DEF Tuples
<1>2. /\ DOMAIN stack = 1..L /\ Len(stack) = L
      /\ rng.min = [i \in 1..L |-> stack[i].min] /\ rng.max = [i \in 1..L |-> stack[i].max]
      /\ rng.minExclusive = stack[L].minExclusive /\ rng.maxExclusive = stack[L].maxExclusive
  <2>1. stack \in Seq(Alternative) /\ DOMAIN stack = 1..L
    BY <1>1
  <2>2. Len(stack) = L
    BY <1>1, <2>1
  <2> QED BY <2>1, <2>2 DEF ScanRange, Last
<1>3. /\ Common(key, rng.min) = 1..L /\ Common(key, rng.max) = 1..L
  <2>1. /\ rng.min \in [1..L -> Value \cup {NegInf}]
        /\ rng.max \in [1..L -> Value \cup {Inf}]
    BY <1>2 DEF Alternative
  <2> QED BY <2>1, CommonIs
<1>4. /\ \A i \in 1..L : rng.min[i] = stack[i].min /\ rng.max[i] = stack[i].max
      /\ \A i \in 1..L : i # L => /\ stack[i].max = stack[i].min /\ stack[i].min \in Value
                                  /\ stack[i] = Point(stack[i].min)
  BY <1>2 DEF Point
<1> HIDE DEF rng
<1>5. CASE Lead
  <2>1. \A i \in 1..L : i # L => /\ ~Less(key[i], rng.min[i]) /\ ~Less(key[i], rng.max[i])
                                 /\ Same(key[i], rng.min[i]) /\ Same(key[i], rng.max[i])
    BY <1>1, <1>4, <1>5, ValueOrder
  <2>2. L \in 1..L /\ \A j \in 1..(L - 1) : j \in 1..L /\ j # L
    BY <1>1
  <2>3. LessKey(key, rng.min) <=> Less(key[L], stack[L].min)
    BY <1>3, <1>4, <2>1, <2>2 DEF LessKey
  <2>4. LessKey(key, rng.max) <=> Less(key[L], stack[L].max)
    BY <1>3, <1>4, <2>1, <2>2 DEF LessKey
  <2>5. SameKey(key, rng.min) <=> Same(key[L], stack[L].min)
    BY <1>3, <1>4, <2>1, <2>2 DEF SameKey
  <2>6. SameKey(key, rng.max) <=> Same(key[L], stack[L].max)
    BY <1>3, <1>4, <2>1, <2>2 DEF SameKey
  <2>7. InRange(key, rng) <=> Holds(key[L], stack[L])
    BY <1>2, <2>3, <2>4, <2>5, <2>6 DEF InRange, Holds, AboveKey, Above, rng
  <2>8. \A i \in 1..L : i # L => Holds(key[i], stack[i])
    BY <1>1, <1>4, <1>5, PointHolds
  <2> QED BY <2>2, <2>7, <2>8 DEF rng
<1>6. CASE ~Lead
  <2> DEFINE Off == {i \in 1..L : i # L /\ key[i] # stack[i].min}
  <2>1. PICK i \in Off : \A j \in Off : i <= j
    <3>1. Off \in SUBSET Nat /\ Off # {}
      BY <1>6
    <3> HIDE DEF Off
    <3> QED BY <3>1, LeastOf
  <2>2. \A j \in 1..(i - 1) : j \in 1..L /\ j # L /\ key[j] = stack[j].min
    BY <1>1, <2>1
  <2>3. \A j \in 1..(i - 1) : Same(key[j], rng.min[j]) /\ Same(key[j], rng.max[j])
    BY <1>1, <1>4, <2>2, ValueOrder
  <2>4. ~Holds(key[i], stack[i])
    BY <1>1, <1>4, <2>1, PointHolds
  <2>5. CASE Less(key[i], stack[i].min)
    <3>1. LessKey(key, rng.min)
      BY <1>3, <1>4, <2>1, <2>3, <2>5 DEF LessKey
    <3> QED BY <2>1, <2>4, <3>1 DEF InRange, rng
  <2>6. CASE ~Less(key[i], stack[i].min)
    <3>1. ~Less(key[i], rng.max[i]) /\ ~Same(key[i], rng.max[i])
      BY <1>1, <1>4, <2>1, <2>6, ValueOrder
    <3>2. ~SameKey(key, rng.max)
      BY <1>3, <2>1, <3>1 DEF SameKey
    <3>3. ASSUME NEW m \in 1..L, Less(key[m], rng.max[m]),
                 \A j \in 1..(m - 1) : Same(key[j], rng.max[j])
          PROVE  FALSE
      <4>1. m # i
        BY <3>1, <3>3
      <4>2. CASE m < i
        <5>1. m \in 1..(i - 1)
          BY <4>2, <2>1
        <5>2. m # L /\ key[m] = rng.max[m] /\ key[m] \in Value
          BY <1>1, <1>4, <2>2, <5>1
        <5> QED BY <3>3, <5>2, ValueOrder
      <4>3. CASE i < m
        <5>1. i \in 1..(m - 1)
          BY <4>3, <2>1
        <5> QED BY <3>1, <3>3, <5>1
      <4> QED BY <4>1, <4>2, <4>3, <2>1
    <3>4. ~LessKey(key, rng.max)
      BY <1>3, <3>3 DEF LessKey
    <3> QED BY <2>1, <2>4, <3>2, <3>4 DEF InRange, AboveKey, rng
  <2> QED BY <2>5, <2>6
<1> QED BY <1>5, <1>6

(* The alternatives of a predicate hold what its condition asks for, no    *)
(* value twice; only a range is more than single values.                   *)
LEMMA AlternativesExact ==
    ASSUME NEW c, Condition(c), c.prop \in 1..NumProps,
           NEW R, R = RangeKeys(Predicate(c))
    PROVE  /\ R \in Seq(Alternative) /\ R # <<>>
           /\ ~Closes(Predicate(c)) => \A a \in DOMAIN R : \E v \in Value : R[a] = Point(v)
           /\ \A key \in Tuples :
                /\ MeetsCondition(c, key) <=> \E a \in DOMAIN R : Holds(key[c.prop], R[a])
                /\ \A a, b \in DOMAIN R :
                     Holds(key[c.prop], R[a]) /\ Holds(key[c.prop], R[b]) => a = b
<1>1. CASE c.op \in {"=", "IS NULL"}
  <2>1. R = <<Point(c.arg)>> /\ c.arg \in Value
    BY <1>1, QueryAssumption DEF RangeKeys, Predicate, Condition, Value
  <2>2. Point(c.arg) \in Alternative
    BY <2>1 DEF Point, Alternative
  <2>3. \A key \in Tuples : key[c.prop] \in Value /\ c.prop \in DOMAIN key
    BY DEF Tuples
  <2>4. \A key \in Tuples : MeetsCondition(c, key) <=> key[c.prop] = c.arg
    BY <1>1, <2>3 DEF MeetsCondition
  <2> QED BY <2>1, <2>2, <2>3, <2>4, PointHolds
<1>2. CASE c.op = "IN"
  <2>1. /\ R = [i \in DOMAIN c.arg |-> Point(c.arg[i])]
        /\ c.arg \in Seq(Int) /\ c.arg # <<>> /\ IsInjective(c.arg)
    BY <1>2 DEF RangeKeys, Predicate, Condition
  <2>2. \A i \in DOMAIN c.arg : c.arg[i] \in Value /\ Point(c.arg[i]) \in Alternative
    BY <2>1 DEF Value, Point, Alternative
  <2>3. R \in Seq(Alternative) /\ R # <<>> /\ DOMAIN R = DOMAIN c.arg
    BY <2>1, <2>2
  <2>4. ASSUME NEW key \in Tuples
        PROVE  /\ key[c.prop] \in Value
               /\ MeetsCondition(c, key) <=> \E i \in DOMAIN c.arg : key[c.prop] = c.arg[i]
    <3>1. key[c.prop] \in Value /\ c.prop \in DOMAIN key
      BY DEF Tuples
    <3> QED BY <1>2, <3>1 DEF MeetsCondition, ToSet
  <2>5. \A key \in Tuples : \A i \in DOMAIN c.arg :
            Holds(key[c.prop], R[i]) <=> key[c.prop] = c.arg[i]
    BY <2>1, <2>2, <2>4, PointHolds
  <2>6. \A a, b \in DOMAIN c.arg : c.arg[a] = c.arg[b] => a = b
    BY <2>1 DEF IsInjective
  <2>7. \A a \in DOMAIN R : \E v \in Value : R[a] = Point(v)
    BY <2>1, <2>2
  <2>8. ASSUME NEW key \in Tuples
        PROVE  /\ MeetsCondition(c, key) <=> \E a \in DOMAIN R : Holds(key[c.prop], R[a])
               /\ \A a, b \in DOMAIN R :
                    Holds(key[c.prop], R[a]) /\ Holds(key[c.prop], R[b]) => a = b
    <3>1. \A i \in DOMAIN R : Holds(key[c.prop], R[i]) <=> key[c.prop] = c.arg[i]
      BY <2>3, <2>5
    <3>2. MeetsCondition(c, key) <=> \E a \in DOMAIN R : Holds(key[c.prop], R[a])
      BY <2>3, <2>4, <3>1
    <3>3. \A a, b \in DOMAIN R : key[c.prop] = c.arg[a] /\ key[c.prop] = c.arg[b] => a = b
      BY <2>3, <2>6
    <3> QED BY <3>1, <3>2, <3>3
  <2> QED BY <2>3, <2>7, <2>8
<1>3. CASE c.op \in {">", ">=", "<", "<=", "LIKE"}
  <2> DEFINE p == Predicate(c)
             A == [min |-> p.min, max |-> p.max,
                   minExclusive |-> p.minExclusive, maxExclusive |-> p.maxExclusive]
  <2>1. p.t = "RNG" /\ R = <<A>>
    BY <1>3 DEF RangeKeys, Predicate, Between
  <2>2. c.arg \in Int /\ (c.op = "LIKE" => PrefixEnd(c.arg) \in Int)
    BY <1>3 DEF Condition
  <2>3. /\ p.min = (IF c.op \in {"<", "<="} THEN NegInf ELSE c.arg)
        /\ p.max = (IF c.op \in {">", ">="} THEN Inf
                    ELSE IF c.op = "LIKE" THEN PrefixEnd(c.arg) ELSE c.arg)
        /\ p.minExclusive = (c.op = ">") /\ p.maxExclusive = (c.op = "<")
    BY <1>3 DEF Predicate, Between
  <2>4. A \in Alternative
    BY <2>2, <2>3 DEF Alternative, Value
  <2>5. ASSUME NEW key \in Tuples
        PROVE  MeetsCondition(c, key) <=> Holds(key[c.prop], A)
    <3>1. key[c.prop] \in Int \cup {Null} /\ c.prop \in DOMAIN key
      BY DEF Tuples, Value
    <3>2. PICK v \in Int \cup {Null} : v = key[c.prop]
      BY <3>1
    <3>3. Holds(v, A) <=> /\ ~Less(v, p.min) /\ ~((c.op = ">") /\ Same(v, p.min))
                          /\ ~Above(v, p.max) /\ ~((c.op = "<") /\ Same(v, p.max))
      BY <2>3 DEF Holds
    <3>4. CASE c.op = ">"
      BY <2>2, <2>3, <3>1, <3>2, <3>3, <3>4, QueryAssumption DEF MeetsCondition, Less, Same, Above
    <3>5. CASE c.op = ">="
      BY <2>2, <2>3, <3>1, <3>2, <3>3, <3>5, QueryAssumption DEF MeetsCondition, Less, Same, Above
    <3>6. CASE c.op = "<"
      BY <2>2, <2>3, <3>1, <3>2, <3>3, <3>6, QueryAssumption DEF MeetsCondition, Less, Same, Above
    <3>7. CASE c.op = "<="
      BY <2>2, <2>3, <3>1, <3>2, <3>3, <3>7, QueryAssumption DEF MeetsCondition, Less, Same, Above
    <3>8. CASE c.op = "LIKE"
      BY <2>2, <2>3, <3>1, <3>2, <3>3, <3>8, QueryAssumption DEF MeetsCondition, Less, Same, Above
    <3> QED BY <1>3, <3>4, <3>5, <3>6, <3>7, <3>8
  <2> HIDE DEF A, p
  <2>6. R \in Seq(Alternative) /\ R # <<>> /\ DOMAIN R = {1} /\ R[1] = A
    BY <2>1, <2>4
  <2>7. Closes(Predicate(c))
    BY <2>1 DEF Closes, p
  <2> QED BY <2>5, <2>6, <2>7
<1> QED BY <1>1, <1>2, <1>3 DEF Condition

-----------------------------------------------------------------------------
(* The stacks of buildKey are the choices of one alternative for each key. *)
Picks(keys, k) == {c \in [1..k -> Nat] : \A i \in 1..k : c[i] \in DOMAIN keys[i]}

Stacked(stacks, keys, k, ch) ==
    /\ \A s \in DOMAIN stacks : /\ ch[s] \in Picks(keys, k)
                                /\ stacks[s] = [i \in 1..k |-> keys[i][ch[s][i]]]
    /\ \A s, u \in DOMAIN stacks : ch[s] = ch[u] => s = u
    /\ \A c \in Picks(keys, k) : \E s \in DOMAIN stacks : ch[s] = c

IsStacked(stacks, keys, k) == \E ch : Stacked(stacks, keys, k, ch)

LEMMA ExtendedFlat ==
    ASSUME NEW A, NEW stacks \in Seq(Seq(A)), NEW alts \in Seq(A)
    PROVE  LET seqs == [s \in DOMAIN stacks |-> [a \in DOMAIN alts |-> Append(stacks[s], alts[a])]]
           IN  /\ Extended(stacks, alts) \in Seq(Seq(A))
               /\ IsFlat(Extended(stacks, alts), seqs, Len(stacks))
<1> DEFINE seqs == [s \in DOMAIN stacks |-> [a \in DOMAIN alts |-> Append(stacks[s], alts[a])]]
<1>1. \A s \in DOMAIN stacks : [a \in DOMAIN alts |-> Append(stacks[s], alts[a])] \in Seq(Seq(A))
  <2>1. PICK m \in Nat : DOMAIN alts = 1..m
    OBVIOUS
  <2>2. SUFFICES ASSUME NEW s \in DOMAIN stacks
                 PROVE  [a \in DOMAIN alts |-> Append(stacks[s], alts[a])] \in Seq(Seq(A))
    OBVIOUS
  <2>3. \A a \in DOMAIN alts : Append(stacks[s], alts[a]) \in Seq(A)
    OBVIOUS
  <2>4. [a \in DOMAIN alts |-> Append(stacks[s], alts[a])] \in [1..m -> Seq(A)]
    BY <2>1, <2>3
  <2> DEFINE f == [a \in DOMAIN alts |-> Append(stacks[s], alts[a])]
  <2> HIDE DEF f
  <2>5. f \in Seq(Seq(A))
    BY <2>4, AsSequence DEF f
  <2> QED BY <2>5 DEF f
<1>2. seqs \in Seq(Seq(Seq(A))) /\ Len(seqs) = Len(stacks)
  <2>1. PICK m \in Nat : DOMAIN stacks = 1..m /\ Len(stacks) = m
    OBVIOUS
  <2>2. seqs \in [1..m -> Seq(Seq(A))]
    BY <1>1, <2>1
  <2> HIDE DEF seqs
  <2>3. seqs \in Seq(Seq(Seq(A))) /\ Len(seqs) = m
    BY <2>2, AsSequence
  <2> QED BY <2>1, <2>3
<1>3. Extended(stacks, alts) = FlattenSeq(seqs)
  BY DEF Extended
<1> HIDE DEF seqs
<1>4. FlattenSeq(seqs) \in Seq(Seq(A)) /\ IsFlat(FlattenSeq(seqs), seqs, Len(seqs))
  BY <1>2, Flattened
<1> QED BY <1>2, <1>3, <1>4 DEF seqs

LEMMA StackMore ==
    ASSUME NEW A, NEW keys \in Seq(Seq(A)), NEW k \in Nat, k + 1 \in 1..Len(keys),
           NEW stacks \in Seq(Seq(A)), IsStacked(stacks, keys, k)
    PROVE  IsStacked(Extended(stacks, keys[k + 1]), keys, k + 1)
<1>1. PICK ch : Stacked(stacks, keys, k, ch)
  BY DEF IsStacked
<1>2. PICK alts \in Seq(A) : alts = keys[k + 1]
  OBVIOUS
<1>3. PICK new \in Seq(Seq(A)) : new = Extended(stacks, alts)
  BY ExtendedFlat
<1> DEFINE seqs == [s \in DOMAIN stacks |-> [a \in DOMAIN alts |-> Append(stacks[s], alts[a])]]
<1>4. IsFlat(new, seqs, Len(stacks))
  BY <1>3, ExtendedFlat
<1>5. PICK row, col : Flat(new, seqs, Len(stacks), row, col)
  BY <1>4 DEF IsFlat
<1>6. DOMAIN stacks = 1..Len(stacks) /\ DOMAIN new = 1..Len(new) /\ Len(new) \in Nat
  OBVIOUS
<1>16. \A s \in DOMAIN stacks :
          /\ DOMAIN seqs[s] = DOMAIN alts
          /\ \A a \in DOMAIN alts : seqs[s][a] = Append(stacks[s], alts[a])
  OBVIOUS
<1> HIDE DEF seqs
<1>7. ASSUME NEW x \in DOMAIN new
      PROVE  /\ row[x] \in DOMAIN stacks /\ col[x] \in DOMAIN alts /\ col[x] \in Nat
             /\ new[x] = Append(stacks[row[x]], alts[col[x]])
  <2>1. /\ row[x] \in 1..Len(stacks) /\ col[x] \in DOMAIN seqs[row[x]]
        /\ new[x] = seqs[row[x]][col[x]]
    BY <1>5 DEF Flat
  <2>2. \A a \in DOMAIN alts : a \in Nat
    OBVIOUS
  <2> QED BY <1>6, <1>16, <2>1, <2>2
<1>8. ASSUME NEW x \in DOMAIN new, NEW y \in DOMAIN new, row[x] = row[y], col[x] = col[y]
      PROVE  x = y
  <2>1. x \in Nat /\ y \in Nat
    BY <1>6
  <2>2. x < y => row[x] < row[y] \/ (row[x] = row[y] /\ col[x] < col[y])
    BY <1>5 DEF Flat
  <2>3. y < x => row[y] < row[x] \/ (row[y] = row[x] /\ col[y] < col[x])
    BY <1>5 DEF Flat
  <2>4. row[x] \in Nat /\ col[x] \in Nat
    <3>1. \A i \in 1..Len(stacks) : i \in Nat
      OBVIOUS
    <3> QED BY <1>6, <1>7, <3>1
  <2> QED BY <1>8, <2>1, <2>2, <2>3, <2>4, SMTT(30)
<1>9. \A s \in DOMAIN stacks : \A j \in DOMAIN alts :
          \E x \in DOMAIN new : row[x] = s /\ col[x] = j
  <2>1. \A s \in 1..Len(stacks) : \A j \in DOMAIN seqs[s] :
            \E x \in DOMAIN new : row[x] = s /\ col[x] = j
    BY <1>5 DEF Flat
  <2> QED BY <1>6, <1>16, <2>1
<1> DEFINE both(x) == [i \in 1..(k + 1) |-> IF i = k + 1 THEN col[x] ELSE ch[row[x]][i]]
           ch2 == [x \in DOMAIN new |-> both(x)]
<1>10. ASSUME NEW s \in DOMAIN stacks
       PROVE  /\ ch[s] \in [1..k -> Nat] /\ \A i \in 1..k : ch[s][i] \in DOMAIN keys[i]
              /\ stacks[s] = [i \in 1..k |-> keys[i][ch[s][i]]]
  BY <1>1 DEF Stacked, Picks
<1>11. \A i \in 1..(k + 1) : i = k + 1 \/ i \in 1..k
  OBVIOUS
<1>12. ASSUME NEW x \in DOMAIN new
       PROVE  /\ ch2[x] \in Picks(keys, k + 1)
              /\ new[x] = [i \in 1..(k + 1) |-> keys[i][ch2[x][i]]]
  <2>1. PICK s \in DOMAIN stacks : s = row[x]
    BY <1>7
  <2>2. PICK j \in DOMAIN alts : j = col[x] /\ j \in Nat
    BY <1>7
  <2>3. ch2[x] = [i \in 1..(k + 1) |-> IF i = k + 1 THEN j ELSE ch[s][i]]
    BY <2>1, <2>2
  <2> HIDE DEF ch2
  <2>4. \A i \in 1..(k + 1) : /\ i = k + 1 => ch2[x][i] = j
                              /\ i # k + 1 => i \in 1..k /\ ch2[x][i] = ch[s][i]
    BY <1>11, <2>3
  <2>5. \A i \in 1..(k + 1) : ch2[x][i] \in Nat /\ ch2[x][i] \in DOMAIN keys[i]
    BY <1>2, <1>10, <2>2, <2>4
  <2>6. ch2[x] \in Picks(keys, k + 1)
    <3>1. ch2[x] \in [1..(k + 1) -> Nat]
      BY <2>3, <2>5
    <3> QED BY <2>5, <3>1 DEF Picks
  <2>7. PICK st \in Seq(A), al \in A : st = stacks[s] /\ al = alts[j]
    BY <2>1, <2>2, SMTT(30)
  <2>13. new[x] = Append(st, al)
    BY <1>7, <2>1, <2>2, <2>7
  <2>14. st = [i \in 1..k |-> keys[i][ch[s][i]]]
    BY <1>10, <2>7
  <2>8. Len(st) = k
    BY <2>14
  <2>9. /\ DOMAIN new[x] = 1..(k + 1) /\ new[x][k + 1] = alts[j]
        /\ \A i \in 1..k : new[x][i] = st[i]
    BY <2>7, <2>8, <2>13, SMTT(30)
  <2>10. \A i \in 1..k : st[i] = keys[i][ch[s][i]]
    BY <2>14
  <2>11. \A i \in 1..(k + 1) : new[x][i] = keys[i][ch2[x][i]]
    BY <1>2, <1>11, <2>4, <2>9, <2>10
  <2>12. new[x] = [i \in 1..(k + 1) |-> new[x][i]]
    BY <2>7, <2>9
  <2> QED BY <2>6, <2>11, <2>12
<1>13. ASSUME NEW x \in DOMAIN new, NEW y \in DOMAIN new, ch2[x] = ch2[y]
       PROVE  x = y
  <2>1. \A i \in 1..(k + 1) : both(x)[i] = both(y)[i]
    BY <1>13
  <2>2. col[x] = col[y]
    BY <2>1
  <2>3. \A i \in 1..k : ch[row[x]][i] = ch[row[y]][i]
    <3>1. \A i \in 1..k : i \in 1..(k + 1) /\ i # k + 1
      OBVIOUS
    <3> QED BY <2>1, <3>1
  <2>4. ch[row[x]] \in [1..k -> Nat] /\ ch[row[y]] \in [1..k -> Nat]
    BY <1>7, <1>10
  <2>5. ch[row[x]] = ch[row[y]]
    <3>1. PICK f \in [1..k -> Nat], g \in [1..k -> Nat] : f = ch[row[x]] /\ g = ch[row[y]]
      BY <2>4
    <3>2. \A i \in 1..k : f[i] = g[i]
      BY <2>3, <3>1
    <3>3. f = g
      BY <3>2, SameFunction
    <3> QED BY <3>1, <3>3
  <2>6. row[x] = row[y]
    BY <1>1, <1>7, <2>5, SMTT(30) DEF Stacked
  <2> QED BY <1>8, <2>2, <2>6
<1>14. ASSUME NEW c \in Picks(keys, k + 1)
       PROVE  \E x \in DOMAIN new : ch2[x] = c
  <2> DEFINE c0 == [i \in 1..k |-> c[i]]
  <2>1. /\ c \in [1..(k + 1) -> Nat] /\ c[k + 1] \in DOMAIN alts
        /\ \A i \in 1..k : c[i] \in Nat /\ c[i] \in DOMAIN keys[i]
    <3>1. k + 1 \in 1..(k + 1) /\ \A i \in 1..k : i \in 1..(k + 1)
      OBVIOUS
    <3> QED BY <1>2, <3>1 DEF Picks
  <2>2. c0 \in Picks(keys, k)
    BY <2>1 DEF Picks
  <2>3. PICK s \in DOMAIN stacks : ch[s] = c0
    BY <1>1, <2>2 DEF Stacked
  <2>4. PICK x \in DOMAIN new : row[x] = s /\ col[x] = c[k + 1]
    BY <1>9, <2>1
  <2>5. \A i \in 1..(k + 1) : both(x)[i] = c[i]
    BY <1>11, <2>3, <2>4
  <2>6. both(x) = c
    BY <2>1, <2>5
  <2> QED BY <2>6
<1> HIDE DEF ch2
<1>15. Stacked(new, keys, k + 1, ch2)
  BY <1>12, <1>13, <1>14 DEF Stacked
<1> QED BY <1>2, <1>3, <1>15 DEF IsStacked

LEMMA RangesAre ==
    ASSUME NEW A, NEW keys \in Seq(Seq(A))
    PROVE  \E stacks \in Seq(Seq(A)) :
               /\ IsStacked(stacks, keys, Len(keys))
               /\ Ranges(keys) = [s \in DOMAIN stacks |-> ScanRange(stacks[s])]
<1> DEFINE n == Len(keys)
           F(f) == [k \in 0..n |-> IF k = 0 THEN << <<>> >> ELSE Extended(f[k - 1], keys[k])]
           G == CHOOSE f : f = F(f)
           V == Seq(Seq(A))
           step == [k \in 1..n |-> [st \in V |-> Extended(st, keys[k])]]
<1>1. n \in Nat /\ << <<>> >> \in V /\ \A k \in 1..n : keys[k] \in Seq(A)
  OBVIOUS
<1>2. \A k \in 1..n : \A st \in V : Extended(st, keys[k]) \in V
  BY <1>1, ExtendedFlat
<1>3. step \in [1..n -> [V -> V]]
  BY <1>2
<1>4. PICK f \in [0..n -> V] : Iterates(f, n, << <<>> >>, step)
  <2> HIDE DEF V, step, n
  <2> QED BY <1>1, <1>3, Recursion
<1>5. f = F(f)
  <2>1. ASSUME NEW k \in 0..n PROVE f[k] = F(f)[k]
    <3>1. CASE k = 0
      BY <1>4, <3>1 DEF Iterates
    <3>2. CASE k # 0
      <4>1. k \in 1..n /\ k - 1 \in 0..n
        BY <1>1, <3>2
      <4>2. f[k - 1] \in V
        BY <4>1
      <4>3. f[k] = step[k][f[k - 1]]
        BY <1>4, <4>1 DEF Iterates
      <4> QED BY <3>2, <4>1, <4>2, <4>3
    <3> QED BY <3>1, <3>2
  <2> HIDE DEF V
  <2> QED BY <2>1
<1>6. G = F(G)
  <2> HIDE DEF F
  <2> QED BY <1>5
<1> DEFINE T == {k \in 0..n : G[k] \in V /\ IsStacked(G[k], keys, k)}
<1>7. 0 \in T
  <2>1. 0 \in 0..n
    BY <1>1
  <2>2. G[0] = << <<>> >>
    <3> HIDE DEF G
    <3> QED BY <1>6, <2>1
  <2> DEFINE ch == [s \in {1} |-> <<>>]
  <2>3. Picks(keys, 0) = {<<>>}
    <3>1. 1..0 = {} /\ [1..0 -> Nat] = {<<>>}
      <4>1. \A c \in [1..0 -> Nat] : c = <<>>
        OBVIOUS
      <4>2. <<>> \in [1..0 -> Nat]
        OBVIOUS
      <4> QED BY <4>1, <4>2
    <3> QED BY <3>1 DEF Picks
  <2>4. DOMAIN << <<>> >> = {1} /\ << <<>> >>[1] = <<>>
    OBVIOUS
  <2>5. [i \in 1..0 |-> keys[i][ch[1][i]]] = <<>>
    OBVIOUS
  <2>6. Stacked(<< <<>> >>, keys, 0, ch)
    BY <2>3, <2>4, <2>5 DEF Stacked
  <2>7. IsStacked(<< <<>> >>, keys, 0)
    <3> HIDE DEF ch
    <3> QED BY <2>6 DEF IsStacked
  <2> HIDE DEF G, F, V
  <2> QED BY <1>1, <2>1, <2>2, <2>7
<1>8. ASSUME NEW k \in 0..n, k # n, k \in T PROVE k + 1 \in T
  <2>1. k \in Nat /\ k + 1 \in 1..n /\ k + 1 \in 0..n /\ k + 1 # 0 /\ (k + 1) - 1 = k
    BY <1>1, <1>8
  <2>2. G[k + 1] = Extended(G[k], keys[k + 1])
    <3> HIDE DEF G
    <3> QED BY <1>6, <2>1
  <2>3. PICK st \in Seq(Seq(A)) : st = G[k] /\ IsStacked(st, keys, k)
    BY <1>8
  <2> HIDE DEF G, F
  <2>4. Extended(st, keys[k + 1]) \in V
    BY <1>2, <2>1
  <2>5. IsStacked(Extended(st, keys[k + 1]), keys, k + 1)
    BY <2>1, <2>3, StackMore
  <2> HIDE DEF V, n
  <2> QED BY <2>1, <2>2, <2>3, <2>4, <2>5
<1>9. n \in T
  <2>1. \A k \in 0..n : k # n /\ k \in T => k + 1 \in T
    BY <1>8
  <2>2. n \in 0..n
    BY <1>1
  <2> HIDE DEF T, n
  <2>3. \A k \in 0..n : k \in T
    BY <1>1, <1>7, <2>1, Upwards
  <2> QED BY <2>2, <2>3
<1>10. Ranges(keys) = [s \in DOMAIN G[n] |-> ScanRange(G[n][s])]
  BY Zenon DEF Ranges
<1> HIDE DEF G, F
<1> QED BY <1>9, <1>10

-----------------------------------------------------------------------------
(* The scan keys of a clause and what its ranges hold. *)
ScanKeys(q, T) == [i \in DOMAIN T |-> RangeKeys(q[T[i]].pred)]
TakenMet(q, T, key) == \A i \in DOMAIN T : MeetsCondition(q[T[i]].cond, key)

LEMMA PredicateProp ==
    ASSUME NEW c, Condition(c)
    PROVE  Predicate(c).prop = c.prop
BY DEF Condition, Predicate, Between

(* The alternatives of a key split the values that meet its condition. *)
Splits(R, c, i, last) ==
    /\ R \in Seq(Alternative) /\ R # <<>>
    /\ ~last => \A a \in DOMAIN R : \E v \in Value : R[a] = Point(v)
    /\ \A key \in Tuples :
         /\ MeetsCondition(c, key) <=> \E a \in DOMAIN R : Holds(key[i], R[a])
         /\ \A a, b \in DOMAIN R : Holds(key[i], R[a]) /\ Holds(key[i], R[b]) => a = b

LEMMA KeyExact ==
    ASSUME NEW q, Clause(q), NEW T, IsPlan(q, T, NumProps), NEW i \in 1..Len(T)
    PROVE  Splits(RangeKeys(q[T[i]].pred), q[T[i]].cond, i, i = Len(T))
<1>1. PICK x \in 1..Len(q) : x = T[i]
  BY DEF IsPlan
<1>2. q[x].type = "PRED" /\ q[x].pred.prop = i /\ (i # Len(T) => ~Closes(q[x].pred))
  BY <1>1 DEF IsPlan, Binds
<1>3. Condition(q[x].cond) /\ q[x] = PredicateNode(q[x].cond)
  BY <1>2 DEF Clause
<1>4. PICK c : c = q[x].cond
  OBVIOUS
<1>5. Condition(c) /\ q[x].pred = Predicate(c)
  BY <1>3, <1>4 DEF PredicateNode
<1>6. c.prop = i /\ i \in 1..NumProps
  <2>1. c.prop = i
    BY <1>2, <1>5, PredicateProp
  <2>2. Len(T) \in Nat /\ Len(T) <= NumProps
    BY DEF IsPlan
  <2> QED BY <2>1, <2>2, QueryAssumption
<1>7. PICK R : R = RangeKeys(Predicate(c))
  OBVIOUS
<1>8. i # Len(T) => ~Closes(Predicate(c))
  BY <1>2, <1>5
<1>9. Splits(R, c, i, i = Len(T))
  BY <1>5, <1>6, <1>7, <1>8, AlternativesExact DEF Splits
<1> QED BY <1>1, <1>4, <1>5, <1>7, <1>9

LEMMA ScanKeysAre ==
    ASSUME NEW q, Clause(q), NEW T, IsPlan(q, T, NumProps)
    PROVE  /\ T \in Seq(1..Len(q)) /\ ScanKeys(q, T) \in Seq(Seq(Alternative))
           /\ Len(ScanKeys(q, T)) = Len(T) /\ Len(T) \in 0..NumProps
           /\ \A i \in 1..Len(T) : ScanKeys(q, T)[i] = RangeKeys(q[T[i]].pred)
<1>1. T \in Seq(1..Len(q)) /\ Len(T) \in 0..NumProps
  BY QueryAssumption DEF IsPlan
<1>2. PICK L \in Nat : L = Len(T) /\ DOMAIN T = 1..L
  BY <1>1
<1>3. \A i \in 1..L : RangeKeys(q[T[i]].pred) \in Seq(Alternative)
  BY <1>2, KeyExact DEF Splits
<1> DEFINE K == ScanKeys(q, T)
<1>4. K \in [1..L -> Seq(Alternative)]
  BY <1>2, <1>3 DEF ScanKeys
<1>5. \A i \in 1..L : K[i] = RangeKeys(q[T[i]].pred)
  BY <1>2 DEF ScanKeys
<1> HIDE DEF K
<1>6. K \in Seq(Seq(Alternative)) /\ Len(K) = L
  BY <1>4, AsSequence
<1> QED BY <1>1, <1>2, <1>5, <1>6 DEF K

(* The r-th range is a choice ch[r] of one alternative for every scan key. *)
Chosen(q, T, R, ch) ==
    LET K == ScanKeys(q, T)
    IN  /\ \A r \in DOMAIN R : /\ ch[r] \in Picks(K, Len(T))
                               /\ R[r] = ScanRange([i \in 1..Len(T) |-> K[i][ch[r][i]]])
        /\ \A r, s \in DOMAIN R : ch[r] = ch[s] => r = s
        /\ \A c \in Picks(K, Len(T)) : \E r \in DOMAIN R : ch[r] = c

LEMMA RangesChosen ==
    ASSUME NEW q, Clause(q), NEW T, IsPlan(q, T, NumProps)
    PROVE  /\ Len(Ranges(ScanKeys(q, T))) \in Nat
           /\ DOMAIN Ranges(ScanKeys(q, T)) = 1..Len(Ranges(ScanKeys(q, T)))
           /\ \E ch : Chosen(q, T, Ranges(ScanKeys(q, T)), ch)
<1> DEFINE K == ScanKeys(q, T)
<1>1. K \in Seq(Seq(Alternative)) /\ Len(K) = Len(T)
  BY ScanKeysAre
<1>2. PICK stacks \in Seq(Seq(Alternative)) :
          /\ IsStacked(stacks, K, Len(K))
          /\ Ranges(K) = [s \in DOMAIN stacks |-> ScanRange(stacks[s])]
  <2> HIDE DEF K
  <2> QED BY <1>1, RangesAre
<1> HIDE DEF K
<1>3. PICK ch : Stacked(stacks, K, Len(T), ch)
  BY <1>1, <1>2 DEF IsStacked
<1>4. PICK m \in Nat : DOMAIN stacks = 1..m
  OBVIOUS
<1>5. PICK R : R = Ranges(K)
  OBVIOUS
<1>6. R = [s \in 1..m |-> ScanRange(stacks[s])]
  BY <1>2, <1>4, <1>5
<1>7. R \in [1..m -> {ScanRange(stacks[s]) : s \in 1..m}]
  BY <1>6
<1>8. Len(R) = m /\ DOMAIN R = 1..m
  BY <1>7, AsSequence
<1>9. \A r \in 1..m : R[r] = ScanRange(stacks[r])
  BY <1>6
<1>10. \A r \in 1..m : stacks[r] = [i \in 1..Len(T) |-> K[i][ch[r][i]]]
  BY <1>3, <1>4 DEF Stacked
<1>11. \A r \in 1..m : R[r] = ScanRange([i \in 1..Len(T) |-> K[i][ch[r][i]]])
  BY <1>9, <1>10
<1>12. \A r \in 1..m : ch[r] \in Picks(K, Len(T))
  BY <1>3, <1>4 DEF Stacked
<1>13. \A r, s \in 1..m : ch[r] = ch[s] => r = s
  BY <1>3, <1>4 DEF Stacked
<1>14. \A c \in Picks(K, Len(T)) : \E r \in 1..m : ch[r] = c
  BY <1>3, <1>4 DEF Stacked
<1>15. Chosen(q, T, R, ch)
  BY <1>8, <1>11, <1>12, <1>13, <1>14 DEF Chosen, K
<1> QED BY <1>5, <1>8, <1>15 DEF K

LEMMA PlanExact ==
    ASSUME NEW q, Clause(q), NEW T, IsPlan(q, T, NumProps), T # <<>>,
           NEW R, R = Ranges(ScanKeys(q, T)), NEW key \in Tuples
    PROVE  /\ TakenMet(q, T, key) <=> \E r \in DOMAIN R : InRange(key, R[r])
           /\ \A r, s \in DOMAIN R : InRange(key, R[r]) /\ InRange(key, R[s]) => r = s
<1> DEFINE K == ScanKeys(q, T)
           L == Len(T)
<1>1. PICK ch : Chosen(q, T, R, ch)
  BY RangesChosen
<1>2. /\ K \in Seq(Seq(Alternative)) /\ Len(K) = L /\ DOMAIN K = 1..L /\ L \in 1..NumProps
      /\ DOMAIN T = 1..L
      /\ \A i \in 1..L : K[i] \in Seq(Alternative) /\ K[i] = RangeKeys(q[T[i]].pred)
  <2>1. L # 0
    BY ScanKeysAre
  <2> QED BY <2>1, ScanKeysAre
<1>3. ASSUME NEW i \in 1..L
      PROVE  /\ i # L => \A a \in DOMAIN K[i] : \E v \in Value : K[i][a] = Point(v)
             /\ MeetsCondition(q[T[i]].cond, key)
                    <=> \E a \in DOMAIN K[i] : Holds(key[i], K[i][a])
             /\ \A a, b \in DOMAIN K[i] :
                    Holds(key[i], K[i][a]) /\ Holds(key[i], K[i][b]) => a = b
             /\ \A a \in DOMAIN K[i] : a \in Nat
  <2>1. PICK Ki \in Seq(Alternative) : Ki = K[i] /\ Ki = RangeKeys(q[T[i]].pred)
    BY <1>2
  <2>2. \A a \in DOMAIN Ki : a \in Nat
    OBVIOUS
  <2> HIDE DEF K
  <2>3. /\ i # L => \A a \in DOMAIN Ki : \E v \in Value : Ki[a] = Point(v)
        /\ MeetsCondition(q[T[i]].cond, key) <=> \E a \in DOMAIN Ki : Holds(key[i], Ki[a])
        /\ \A a, b \in DOMAIN Ki : Holds(key[i], Ki[a]) /\ Holds(key[i], Ki[b]) => a = b
    <3>1. Splits(Ki, q[T[i]].cond, i, i = Len(T))
      BY <2>1, KeyExact
    <3> QED BY <3>1 DEF Splits
  <2> QED BY <2>1, <2>2, <2>3
<1> HIDE DEF K, L
<1>4. ASSUME NEW r \in DOMAIN R
      PROVE  /\ ch[r] \in [1..L -> Nat] /\ \A i \in 1..L : ch[r][i] \in DOMAIN K[i]
             /\ InRange(key, R[r]) <=> \A i \in 1..L : Holds(key[i], K[i][ch[r][i]])
  <2>1. ch[r] \in Picks(K, L) /\ R[r] = ScanRange([i \in 1..L |-> K[i][ch[r][i]]])
    BY <1>1 DEF Chosen, K, L
  <2>2. ch[r] \in [1..L -> Nat] /\ \A i \in 1..L : ch[r][i] \in DOMAIN K[i]
    BY <2>1 DEF Picks
  <2> DEFINE st == [i \in 1..L |-> K[i][ch[r][i]]]
  <2>3. \A i \in 1..L : K[i][ch[r][i]] \in Alternative
    BY <1>2, <2>2
  <2>4. st \in [1..L -> Alternative]
    BY <2>3
  <2>5. \A i \in 1..L : st[i] = K[i][ch[r][i]]
    OBVIOUS
  <2>6. R[r] = ScanRange(st)
    BY <2>1
  <2> HIDE DEF st
  <2>7. \A i \in 1..L : i # L => \E v \in Value : st[i] = Point(v)
    BY <1>3, <2>2, <2>5
  <2>8. InRange(key, ScanRange(st)) <=> \A i \in 1..L : Holds(key[i], st[i])
    BY <1>2, <2>4, <2>7, InScanRange
  <2> QED BY <2>2, <2>5, <2>6, <2>8
<1>5. ASSUME TakenMet(q, T, key)
      PROVE  \E r \in DOMAIN R : InRange(key, R[r])
  <2> DEFINE c == [i \in 1..L |-> CHOOSE a \in DOMAIN K[i] : Holds(key[i], K[i][a])]
  <2>1. \A i \in 1..L : c[i] \in DOMAIN K[i] /\ Holds(key[i], K[i][c[i]])
    BY <1>2, <1>3, <1>5 DEF TakenMet
  <2>2. \A i \in 1..L : c[i] \in Nat
    BY <1>3, <2>1
  <2>3. c \in [1..L -> Nat]
    <3>1. c = [i \in 1..L |-> c[i]]
      OBVIOUS
    <3> HIDE DEF c
    <3> QED BY <2>2, <3>1
  <2> HIDE DEF c
  <2>4. c \in Picks(K, L)
    BY <2>1, <2>3 DEF Picks
  <2>5. PICK r \in DOMAIN R : ch[r] = c
    BY <1>1, <2>4 DEF Chosen, K, L
  <2> QED BY <1>4, <2>1, <2>5
<1>6. ASSUME NEW r \in DOMAIN R, InRange(key, R[r])
      PROVE  TakenMet(q, T, key)
  <2>1. ASSUME NEW i \in 1..L PROVE MeetsCondition(q[T[i]].cond, key)
    <3>1. ch[r][i] \in DOMAIN K[i] /\ Holds(key[i], K[i][ch[r][i]])
      BY <1>4, <1>6
    <3> QED BY <1>3, <3>1
  <2> QED BY <1>2, <2>1 DEF TakenMet
<1>7. ASSUME NEW r \in DOMAIN R, NEW s \in DOMAIN R, InRange(key, R[r]), InRange(key, R[s])
      PROVE  r = s
  <2>1. PICK f \in [1..L -> Nat], g \in [1..L -> Nat] : f = ch[r] /\ g = ch[s]
    BY <1>4
  <2>2. \A i \in 1..L : f[i] = g[i]
    <3>1. SUFFICES ASSUME NEW i \in 1..L PROVE f[i] = g[i]
      OBVIOUS
    <3>2. f[i] \in DOMAIN K[i] /\ Holds(key[i], K[i][f[i]])
      BY <1>4, <1>7, <2>1
    <3>3. g[i] \in DOMAIN K[i] /\ Holds(key[i], K[i][g[i]])
      BY <1>4, <1>7, <2>1
    <3> QED BY <1>3, <3>2, <3>3
  <2>3. f = g
    <3>1. L \in Nat
      BY <1>2
    <3> QED BY <2>2, <3>1, SameFunction
  <2>4. \A x, y \in DOMAIN R : ch[x] = ch[y] => x = y
    BY <1>1 DEF Chosen
  <2> QED BY <1>7, <2>1, <2>3, <2>4
<1> QED BY <1>5, <1>6, <1>7

-----------------------------------------------------------------------------
(* The recursive functions of cleaning, of the filter and of the meaning   *)
(* of a clause satisfy their equations.                                    *)
IsDone(t, n, done) ==
    \A k \in 1..n : done[k] <=> \/ t[k].passthru
                                \/ t[k].type = "LOGIC" /\ done[t[k].left] /\ done[t[k].right]

Replaces(t, n, done, for) ==
    \A k \in 1..n : for[k] = IF t[k].type = "PRED" \/ done[k] THEN k
                             ELSE IF done[t[k].left] THEN for[t[k].right]
                             ELSE IF done[t[k].right] THEN for[t[k].left]
                             ELSE k

Cleaned(t, done, for) ==
    [k \in DOMAIN t |->
        IF t[k].type = "PRED" THEN t[k]
        ELSE [t[k] EXCEPT !.left = for[@], !.right = for[@], !.passthru = done[k]]]

Cleans(t, n, done, for) ==
    /\ done \in [1..n -> BOOLEAN] /\ for \in [1..n -> 1..n]
    /\ IsDone(t, n, done) /\ Replaces(t, n, done, for)
    /\ Clean(t, 1) = [root |-> for[1], tree |-> Cleaned(t, done, for),
                      freed |-> Under(t, 1) \ Under(Cleaned(t, done, for), for[1])]

LEMMA CleanIs ==
    ASSUME NEW t, NEW n, IsTree(t, n)
    PROVE  \E done, for : Cleans(t, n, done, for)
<1> DEFINE F(d) == [k \in DOMAIN t |->
                       \/ t[k].passthru
                       \/ t[k].type = "LOGIC" /\ d[t[k].left] /\ d[t[k].right]]
           D == CHOOSE d : d = F(d)
           E(d, f) == [k \in DOMAIN t |->
                          IF t[k].type = "PRED" \/ d[k] THEN k
                          ELSE IF d[t[k].left] THEN f[t[k].right]
                          ELSE IF d[t[k].right] THEN f[t[k].left]
                          ELSE k]
           R == CHOOSE f : f = E(D, f)
           done1 == [k \in 1..n |-> t[k].passthru \/ FALSE]
           done2 == [k \in 1..n |-> [p \in BOOLEAN \X BOOLEAN |-> t[k].passthru \/ (p[1] /\ p[2])]]
           for1 == [k \in 1..n |-> k]
           for2 == [k \in 1..n |-> [p \in (1..n) \X (1..n) |->
                       IF D[k] THEN k ELSE IF D[t[k].left] THEN p[2]
                       ELSE IF D[t[k].right] THEN p[1] ELSE k]]
<1>0. DOMAIN t = 1..n
  BY DEF IsTree
<1>10. \A k \in 1..n : t[k].type # "PRED" => t[k].left \in 1..n /\ t[k].right \in 1..n
  BY DEF IsTree
<1>1. D = F(D)
  <2>1. done1 \in [1..n -> BOOLEAN] /\ done2 \in [1..n -> [BOOLEAN \X BOOLEAN -> BOOLEAN]]
    OBVIOUS
  <2>2. PICK d \in [1..n -> BOOLEAN] : IsFold(d, t, n, done1, done2)
    <3> HIDE DEF done1, done2
    <3> QED BY <2>1, TreeFunction
  <2>3. ASSUME NEW k \in 1..n PROVE d[k] = F(d)[k]
    <3>1. CASE t[k].type = "PRED"
      BY <1>0, <2>2, <3>1 DEF IsFold, Folded
    <3>2. CASE t[k].type # "PRED"
      <4>1. t[k].left \in 1..n /\ t[k].right \in 1..n /\ t[k].type = "LOGIC"
        BY <3>2 DEF IsTree
      <4>2. <<d[t[k].left], d[t[k].right]>> \in BOOLEAN \X BOOLEAN
        BY <4>1
      <4>3. d[k] = done2[k][<<d[t[k].left], d[t[k].right]>>]
        BY <2>2, <3>2 DEF IsFold, Folded
      <4>4. d[k] = (t[k].passthru \/ (d[t[k].left] /\ d[t[k].right]))
        BY <4>2, <4>3
      <4> QED BY <1>0, <4>1, <4>4
    <3> QED BY <3>1, <3>2
  <2>4. d = F(d)
    BY <1>0, <2>3
  <2> HIDE DEF F
  <2> QED BY <2>4
<1>2. D \in [1..n -> BOOLEAN]
  <2>1. F(D) \in [1..n -> BOOLEAN]
    BY <1>0
  <2> HIDE DEF F, D
  <2> QED BY <1>1, <2>1
<1>3. IsDone(t, n, D)
  <2>1. ASSUME NEW k \in 1..n PROVE D[k] = F(D)[k]
    <3> HIDE DEF F, D
    <3> QED BY <1>1
  <2> HIDE DEF D
  <2> QED BY <1>0, <2>1 DEF IsDone
<1> HIDE DEF D
<1>4. PICK f \in [1..n -> 1..n] : f = E(D, f)
  <2>1. for1 \in [1..n -> 1..n] /\ for2 \in [1..n -> [(1..n) \X (1..n) -> 1..n]]
    OBVIOUS
  <2>2. PICK f \in [1..n -> 1..n] : IsFold(f, t, n, for1, for2)
    <3> HIDE DEF for1, for2
    <3> QED BY <2>1, TreeFunction
  <2>3. ASSUME NEW k \in 1..n PROVE f[k] = E(D, f)[k]
    <3>1. CASE t[k].type = "PRED"
      BY <1>0, <2>2, <3>1 DEF IsFold, Folded
    <3>2. CASE t[k].type # "PRED"
      <4>1. t[k].left \in 1..n /\ t[k].right \in 1..n
        BY <1>10, <3>2
      <4>2. <<f[t[k].left], f[t[k].right]>> \in (1..n) \X (1..n)
        <5>1. PICK W : W = 1..n
          OBVIOUS
        <5>2. f \in [W -> W] /\ t[k].left \in W /\ t[k].right \in W
          BY <4>1, <5>1
        <5>3. <<f[t[k].left], f[t[k].right]>> \in W \X W
          BY <5>2
        <5> QED BY <5>1, <5>3
      <4>3. f[k] = for2[k][<<f[t[k].left], f[t[k].right]>>]
        BY <2>2, <3>2 DEF IsFold, Folded
      <4>4. f[k] = IF D[k] THEN k ELSE IF D[t[k].left] THEN f[t[k].right]
                   ELSE IF D[t[k].right] THEN f[t[k].left] ELSE k
        BY <4>2, <4>3
      <4> QED BY <1>0, <3>2, <4>4
    <3> QED BY <3>1, <3>2
  <2>4. f = E(D, f)
    BY <1>0, <2>3
  <2> HIDE DEF E
  <2> QED BY <2>4
<1>5. R = E(D, R)
  <2> HIDE DEF E
  <2> QED BY <1>4
<1>6. Replaces(t, n, D, R)
  <2>1. \A k \in 1..n : R[k] = E(D, R)[k]
    <3> HIDE DEF E, R
    <3> QED BY <1>5
  <2> HIDE DEF R
  <2> QED BY <1>0, <2>1 DEF Replaces
<1>7. Clean(t, 1) = [root |-> R[1], tree |-> Cleaned(t, D, R),
                     freed |-> Under(t, 1) \ Under(Cleaned(t, D, R), R[1])]
  BY Zenon DEF Clean, Cleaned, D
<1>8. R \in [1..n -> 1..n]
  <2> DEFINE S == {k \in 1..n : R[k] \in 1..n}
  <2>0. n \in Nat
    BY DEF IsTree
  <2>1. ASSUME NEW k \in 1..n, \A m \in (k + 1)..n : m \in S PROVE k \in S
    <3>1. R[k] = IF t[k].type = "PRED" \/ D[k] THEN k
                 ELSE IF D[t[k].left] THEN R[t[k].right]
                 ELSE IF D[t[k].right] THEN R[t[k].left] ELSE k
      BY <1>6 DEF Replaces
    <3> HIDE DEF R
    <3>2. CASE t[k].type = "PRED"
      BY <3>1, <3>2
    <3>3. CASE t[k].type # "PRED"
      <4>1. t[k].left \in S /\ t[k].right \in S
        BY <2>1, <3>3 DEF IsTree
      <4> QED BY <3>1, <4>1
    <3> QED BY <3>2, <3>3
  <2>2. \A k \in 1..n : k \in S
    <3>1. \A k \in 1..n : (\A m \in (k + 1)..n : m \in S) => k \in S
      BY <2>1
    <3> HIDE DEF S
    <3> QED BY <2>0, <3>1, Downwards
  <2>3. R = [k \in 1..n |-> R[k]]
    <3>1. DOMAIN E(D, R) = 1..n
      BY <1>0
    <3>2. DOMAIN R = 1..n /\ R = [k \in DOMAIN R |-> R[k]]
      <4>1. E(D, R) = [k \in DOMAIN E(D, R) |-> E(D, R)[k]]
        OBVIOUS
      <4> HIDE DEF E, R
      <4> QED BY <1>5, <3>1, <4>1
    <3> HIDE DEF R, E
    <3> QED BY <3>2
  <2> HIDE DEF R
  <2> QED BY <2>2, <2>3
<1> HIDE DEF R
<1>9. Cleans(t, n, D, R)
  BY <1>2, <1>3, <1>6, <1>7, <1>8 DEF Cleans
<1> QED BY <1>9

LEMMA EvalIs ==
    ASSUME NEW t, NEW n, IsTree(t, n), NEW key, NEW k \in 1..n
    PROVE  EvalKey(t, k, key) <=>
               \/ t[k].passthru
               \/ t[k].type = "PRED" /\ EvalPredicate(t[k].pred, key)
               \/ /\ t[k].type = "LOGIC"
                  /\ IF t[k].op = "OR"
                     THEN EvalKey(t, t[k].left, key) \/ EvalKey(t, t[k].right, key)
                     ELSE EvalKey(t, t[k].left, key) /\ EvalKey(t, t[k].right, key)
<1> DEFINE F(e) == [i \in DOMAIN t |->
                       \/ t[i].passthru
                       \/ t[i].type = "PRED" /\ EvalPredicate(t[i].pred, key)
                       \/ /\ t[i].type = "LOGIC"
                          /\ IF t[i].op = "OR" THEN e[t[i].left] \/ e[t[i].right]
                                               ELSE e[t[i].left] /\ e[t[i].right]]
           G == CHOOSE e : e = F(e)
           base == [i \in 1..n |-> t[i].passthru \/ EvalPredicate(t[i].pred, key)]
           step == [i \in 1..n |-> [x \in BOOLEAN \X BOOLEAN |->
                       t[i].passthru \/ IF t[i].op = "OR" THEN x[1] \/ x[2] ELSE x[1] /\ x[2]]]
<1>0. DOMAIN t = 1..n
  BY DEF IsTree
<1>1. base \in [1..n -> BOOLEAN] /\ step \in [1..n -> [BOOLEAN \X BOOLEAN -> BOOLEAN]]
  OBVIOUS
<1>2. PICK f \in [1..n -> BOOLEAN] : IsFold(f, t, n, base, step)
  <2> HIDE DEF base, step
  <2> QED BY <1>1, TreeFunction
<1>3. f = F(f)
  <2>1. ASSUME NEW i \in 1..n PROVE f[i] = F(f)[i]
    <3>1. CASE t[i].type = "PRED"
      <4>1. f[i] = (t[i].passthru \/ EvalPredicate(t[i].pred, key))
        BY <1>2, <3>1 DEF IsFold, Folded
      <4> QED BY <1>0, <3>1, <4>1
    <3>2. CASE t[i].type # "PRED"
      <4>1. t[i].left \in 1..n /\ t[i].right \in 1..n /\ t[i].type = "LOGIC"
        BY <3>2 DEF IsTree
      <4>2. <<f[t[i].left], f[t[i].right]>> \in BOOLEAN \X BOOLEAN
        BY <4>1
      <4>3. f[i] = step[i][<<f[t[i].left], f[t[i].right]>>]
        BY <1>2, <3>2 DEF IsFold, Folded
      <4>4. f[i] = (t[i].passthru \/ IF t[i].op = "OR" THEN f[t[i].left] \/ f[t[i].right]
                                                       ELSE f[t[i].left] /\ f[t[i].right])
        BY <4>2, <4>3
      <4> QED BY <1>0, <4>1, <4>4
    <3> QED BY <3>1, <3>2
  <2> QED BY <1>0, <2>1
<1>4. G = F(G)
  <2> HIDE DEF F
  <2> QED BY <1>3
<1>5. \A i : EvalKey(t, i, key) = G[i]
  BY Zenon DEF EvalKey
<1>6. G[k] = F(G)[k]
  <2> HIDE DEF F, G
  <2> QED BY <1>4
<1> HIDE DEF G
<1> QED BY <1>0, <1>5, <1>6

(* Meets, for any node of any clause. *)
MeetsAt(q, k, key) ==
    LET m[n \in DOMAIN q] ==
            IF q[n].type = "PRED" THEN MeetsCondition(q[n].cond, key)
            ELSE IF q[n].op = "OR" THEN m[q[n].left] \/ m[q[n].right]
            ELSE m[q[n].left] /\ m[q[n].right]
    IN  m[k]

LEMMA MeetsIs ==
    ASSUME NEW t, NEW n, IsTree(t, n), NEW key, NEW k \in 1..n
    PROVE  MeetsAt(t, k, key) <=>
               IF t[k].type = "PRED" THEN MeetsCondition(t[k].cond, key)
               ELSE IF t[k].op = "OR"
               THEN MeetsAt(t, t[k].left, key) \/ MeetsAt(t, t[k].right, key)
               ELSE MeetsAt(t, t[k].left, key) /\ MeetsAt(t, t[k].right, key)
<1> DEFINE F(m) == [i \in DOMAIN t |->
                       IF t[i].type = "PRED" THEN MeetsCondition(t[i].cond, key)
                       ELSE IF t[i].op = "OR" THEN m[t[i].left] \/ m[t[i].right]
                       ELSE m[t[i].left] /\ m[t[i].right]]
           G == CHOOSE m : m = F(m)
           base == [i \in 1..n |-> MeetsCondition(t[i].cond, key)]
           step == [i \in 1..n |-> [x \in BOOLEAN \X BOOLEAN |->
                       IF t[i].op = "OR" THEN x[1] \/ x[2] ELSE x[1] /\ x[2]]]
<1>0. DOMAIN t = 1..n
  BY DEF IsTree
<1>1. base \in [1..n -> BOOLEAN] /\ step \in [1..n -> [BOOLEAN \X BOOLEAN -> BOOLEAN]]
  <2>1. \A c : MeetsCondition(c, key) \in BOOLEAN
    BY DEF MeetsCondition
  <2>2. base \in [1..n -> BOOLEAN]
    BY <2>1
  <2>3. step \in [1..n -> [BOOLEAN \X BOOLEAN -> BOOLEAN]]
    OBVIOUS
  <2> QED BY <2>2, <2>3
<1>2. PICK f \in [1..n -> BOOLEAN] : IsFold(f, t, n, base, step)
  <2> HIDE DEF base, step
  <2> QED BY <1>1, TreeFunction
<1>3. f = F(f)
  <2>1. ASSUME NEW i \in 1..n PROVE f[i] = F(f)[i]
    <3>1. CASE t[i].type = "PRED"
      <4>1. f[i] = MeetsCondition(t[i].cond, key)
        BY <1>2, <3>1 DEF IsFold, Folded
      <4> QED BY <1>0, <3>1, <4>1
    <3>2. CASE t[i].type # "PRED"
      <4>1. t[i].left \in 1..n /\ t[i].right \in 1..n /\ t[i].type = "LOGIC"
        BY <3>2 DEF IsTree
      <4>2. <<f[t[i].left], f[t[i].right]>> \in BOOLEAN \X BOOLEAN
        BY <4>1
      <4>3. f[i] = step[i][<<f[t[i].left], f[t[i].right]>>]
        BY <1>2, <3>2 DEF IsFold, Folded
      <4>4. f[i] = IF t[i].op = "OR" THEN f[t[i].left] \/ f[t[i].right]
                                     ELSE f[t[i].left] /\ f[t[i].right]
        BY <4>2, <4>3
      <4> QED BY <1>0, <3>2, <4>4
    <3> QED BY <3>1, <3>2
  <2> QED BY <1>0, <2>1
<1>4. G = F(G)
  <2> HIDE DEF F
  <2> QED BY <1>3
<1>5. \A i : MeetsAt(t, i, key) = G[i]
  BY Zenon DEF MeetsAt
<1>6. G[k] = F(G)[k]
  <2> HIDE DEF F, G
  <2> QED BY <1>4
<1> HIDE DEF G
<1> QED BY <1>0, <1>5, <1>6

-----------------------------------------------------------------------------
(* What cleaning makes of a marked clause, told of the clause. *)
Prunes(q, X, u, done, for) ==
    /\ IsTree(u, Len(q))
    /\ done \in [1..Len(q) -> BOOLEAN] /\ for \in [1..Len(q) -> 1..Len(q)]
    /\ \A k \in 1..Len(q) : /\ for[k] \in k..Len(q)
                            /\ u[k].type = q[k].type
                            /\ q[k].type # "PRED" => q[k].type = "LOGIC"
    /\ \A k \in 1..Len(q) : q[k].type = "PRED" =>
          /\ done[k] <=> k \in X
          /\ for[k] = k /\ u[k].pred = q[k].pred
          /\ u[k].passthru <=> k \in X
    /\ \A k \in 1..Len(q) : q[k].type # "PRED" =>
          /\ done[k] <=> done[q[k].left] /\ done[q[k].right]
          /\ for[k] = IF done[k] THEN k
                      ELSE IF done[q[k].left] THEN for[q[k].right]
                      ELSE IF done[q[k].right] THEN for[q[k].left] ELSE k
          /\ u[k].left = for[q[k].left] /\ u[k].right = for[q[k].right]
          /\ u[k].op = q[k].op /\ (u[k].passthru <=> done[k])

LEMMA MarkedLogic ==
    ASSUME NEW q, Clause(q), NEW X, NEW k \in 1..Len(q), q[k].type # "PRED"
    PROVE  Mark(q, X)[k] = [type |-> "LOGIC", op |-> q[k].op, left |-> q[k].left,
                            right |-> q[k].right, passthru |-> k \in X]
<1>1. DOMAIN q = 1..Len(q) /\ q[k] = LogicNode(q[k].op, q[k].left, q[k].right)
  BY DEF Clause
<1>2. Mark(q, X)[k] = [q[k] EXCEPT !.passthru = @ \/ k \in X]
  BY <1>1 DEF Mark
<1>3. PICK o, l, r : o = q[k].op /\ l = q[k].left /\ r = q[k].right
  OBVIOUS
<1>4. q[k] = [type |-> "LOGIC", op |-> o, left |-> l, right |-> r, passthru |-> FALSE]
  BY <1>1, <1>3 DEF LogicNode
<1>5. Mark(q, X)[k] = [type |-> "LOGIC", op |-> o, left |-> l, right |-> r, passthru |-> k \in X]
  BY <1>2, <1>4
<1> QED BY <1>3, <1>5

LEMMA CleaningPrunes ==
    ASSUME NEW q, Clause(q), NEW X, \A k \in X : q[k].type = "PRED", NEW done, NEW for,
           Cleans(Mark(q, X), Len(q), done, for)
    PROVE  Prunes(q, X, Cleaned(Mark(q, X), done, for), done, for)
<1> DEFINE n == Len(q)
           t == Mark(q, X)
           u == Cleaned(t, done, for)
<1>1. /\ n \in Nat /\ DOMAIN t = 1..n /\ IsTree(t, n) /\ IsTree(q, n)
      /\ \A k \in 1..n : /\ t[k].type = q[k].type
                         /\ t[k].passthru <=> k \in X
                         /\ q[k].type = "PRED" => t[k].pred = q[k].pred
                         /\ q[k].type # "PRED" => t[k].left = q[k].left /\ t[k].right = q[k].right
  BY MarkIs, ClauseTree DEF Marks, SameShape, IsTree
<1>2. /\ done \in [1..n -> BOOLEAN] /\ for \in [1..n -> 1..n]
      /\ IsDone(t, n, done) /\ Replaces(t, n, done, for)
  BY DEF Cleans
<1>3. ASSUME NEW k \in 1..n, q[k].type = "PRED"
      PROVE  /\ done[k] <=> k \in X
             /\ for[k] = k /\ u[k] = t[k]
  <2>1. done[k] <=> k \in X
    BY <1>1, <1>2, <1>3 DEF IsDone
  <2>2. for[k] = k
    BY <1>1, <1>2, <1>3 DEF Replaces
  <2>3. u[k] = t[k]
    BY <1>1, <1>3 DEF Cleaned
  <2> QED BY <2>1, <2>2, <2>3
<1>4. ASSUME NEW k \in 1..n, q[k].type # "PRED"
      PROVE  /\ q[k].type = "LOGIC" /\ q[k].left \in (k + 1)..n /\ q[k].right \in (k + 1)..n
             /\ done[k] <=> done[q[k].left] /\ done[q[k].right]
             /\ for[k] = IF done[k] THEN k
                         ELSE IF done[q[k].left] THEN for[q[k].right]
                         ELSE IF done[q[k].right] THEN for[q[k].left] ELSE k
             /\ u[k].type = "LOGIC"
             /\ u[k].left = for[q[k].left] /\ u[k].right = for[q[k].right]
             /\ u[k].op = q[k].op /\ (u[k].passthru <=> done[k])
  <2>1. q[k].type = "LOGIC" /\ q[k].left \in (k + 1)..n /\ q[k].right \in (k + 1)..n
    BY <1>1, <1>4 DEF IsTree
  <2>2. k \notin X
    BY <1>4
  <2>3. done[k] <=> done[q[k].left] /\ done[q[k].right]
    BY <1>1, <1>2, <2>1, <2>2 DEF IsDone
  <2>4. for[k] = IF done[k] THEN k
                 ELSE IF done[q[k].left] THEN for[q[k].right]
                 ELSE IF done[q[k].right] THEN for[q[k].left] ELSE k
    BY <1>1, <1>2, <1>4 DEF Replaces
  <2>5. PICK o, l, r, p, d, v : /\ o = q[k].op /\ l = q[k].left /\ r = q[k].right
                                /\ p = (k \in X) /\ d = done[k] /\ v = t[k]
    OBVIOUS
  <2>10. v = [type |-> "LOGIC", op |-> o, left |-> l, right |-> r, passthru |-> p]
    BY <1>4, <2>5, MarkedLogic
  <2>6. u[k] = [v EXCEPT !.left = for[@], !.right = for[@], !.passthru = d]
    BY <1>1, <1>4, <2>5 DEF Cleaned
  <2> HIDE DEF t, u
  <2>7. u[k] = [type |-> "LOGIC", op |-> o, left |-> for[l], right |-> for[r], passthru |-> d]
    BY <2>6, <2>10
  <2>8. u[k].type = "LOGIC" /\ u[k].left = for[l] /\ u[k].right = for[r] /\ u[k].op = o
    BY <2>7
  <2>9. u[k].passthru <=> done[k]
    BY <2>5, <2>7
  <2> QED BY <2>1, <2>3, <2>4, <2>5, <2>8, <2>9
<1>5. DOMAIN u = 1..n
  BY <1>1 DEF Cleaned
<1> HIDE DEF t, u
<1>6. \A k \in 1..n : for[k] \in k..n
  <2> DEFINE S == {k \in 1..n : for[k] \in k..n}
  <2>1. ASSUME NEW k \in 1..n, \A m \in (k + 1)..n : m \in S PROVE k \in S
    <3>1. CASE q[k].type = "PRED"
      BY <1>1, <1>3, <3>1
    <3>2. CASE q[k].type # "PRED"
      <4>1. q[k].left \in (k + 1)..n /\ q[k].right \in (k + 1)..n
        BY <1>4, <3>2
      <4>2. for[q[k].left] \in k..n /\ for[q[k].right] \in k..n
        <5>1. for[q[k].left] \in q[k].left..n /\ for[q[k].right] \in q[k].right..n
          BY <2>1, <4>1
        <5> QED BY <1>1, <4>1, <5>1
      <4> QED BY <1>1, <1>4, <3>2, <4>2
    <3> QED BY <3>1, <3>2
  <2>2. \A k \in 1..n : k \in S
    <3>1. \A k \in 1..n : (\A m \in (k + 1)..n : m \in S) => k \in S
      BY <2>1
    <3> HIDE DEF S, n
    <3> QED BY <1>1, <3>1, Downwards
  <2> QED BY <2>2
<1>7. IsTree(u, n)
  <2>1. ASSUME NEW k \in 1..n, q[k].type # "PRED"
        PROVE  u[k].left \in (k + 1)..n /\ u[k].right \in (k + 1)..n
    <3>1. q[k].left \in (k + 1)..n /\ q[k].right \in (k + 1)..n
      BY <1>4, <2>1
    <3>2. for[q[k].left] \in q[k].left..n /\ for[q[k].right] \in q[k].right..n
      BY <1>1, <1>6, <3>1
    <3>3. for[q[k].left] \in (k + 1)..n /\ for[q[k].right] \in (k + 1)..n
      BY <1>1, <3>1, <3>2
    <3> QED BY <1>4, <2>1, <3>3
  <2>2. \A k \in 1..n : u[k].type = q[k].type
    BY <1>1, <1>3, <1>4
  <2>3. \A k \in 1..n : q[k].type # "PRED" => q[k].type = "LOGIC"
    BY <1>4
  <2> QED BY <1>1, <1>5, <2>1, <2>2, <2>3 DEF IsTree
<1>8. \A k \in 1..n : /\ for[k] \in k..n
                      /\ u[k].type = q[k].type
                      /\ q[k].type # "PRED" => q[k].type = "LOGIC"
  BY <1>1, <1>3, <1>4, <1>6
<1>9. \A k \in 1..n : q[k].type = "PRED" =>
          /\ done[k] <=> k \in X
          /\ for[k] = k /\ u[k].pred = q[k].pred
          /\ u[k].passthru <=> k \in X
  BY <1>1, <1>3
<1>10. \A k \in 1..n : q[k].type # "PRED" =>
          /\ done[k] <=> done[q[k].left] /\ done[q[k].right]
          /\ for[k] = IF done[k] THEN k
                      ELSE IF done[q[k].left] THEN for[q[k].right]
                      ELSE IF done[q[k].right] THEN for[q[k].left] ELSE k
          /\ u[k].left = for[q[k].left] /\ u[k].right = for[q[k].right]
          /\ u[k].op = q[k].op /\ (u[k].passthru <=> done[k])
  BY <1>4
<1>11. Prunes(q, X, u, done, for)
  BY <1>2, <1>7, <1>8, <1>9, <1>10 DEF Prunes
<1> QED BY <1>11 DEF t, u

(* A condition in the filter asks what the condition means, IN and IS NULL *)
(* excepted.                                                               *)
LEMMA EvalPredicateExact ==
    ASSUME NEW c, Condition(c), Predicate(c).t \in {"EQ", "RNG"}, NEW key \in Tuples
    PROVE  EvalPredicate(Predicate(c), key) <=> MeetsCondition(c, key)
<1>1. PICK p : p = Predicate(c)
  OBVIOUS
<1>2. p.prop = c.prop
  BY <1>1, PredicateProp
<1>3. CASE c.prop \notin DOMAIN key
  BY <1>1, <1>2, <1>3 DEF EvalPredicate, MeetsCondition
<1>4. CASE c.prop \in DOMAIN key
  <2>1. PICK v \in Value : v = key[c.prop]
    BY <1>4 DEF Tuples
  <2>2. CASE p.t = "EQ"
    <3>1. c.op = "=" /\ p.v = c.arg /\ c.arg \in Int
      BY <1>1, <2>2 DEF Condition, Predicate, Between
    <3>2. Same(v, c.arg) <=> v = c.arg
      BY <3>1, ValueOrder DEF Value
    <3>3. EvalPredicate(p, key) <=> Same(v, c.arg)
      BY <1>2, <1>4, <2>1, <2>2, <3>1 DEF EvalPredicate
    <3>4. MeetsCondition(c, key) <=> v = c.arg
      BY <1>4, <2>1, <3>1 DEF MeetsCondition
    <3> QED BY <1>1, <3>2, <3>3, <3>4
  <2>3. CASE p.t = "RNG"
    <3>1. c.op \in {">", ">=", "<", "<=", "LIKE"}
      BY <1>1, <2>3 DEF Condition, Predicate
    <3>2. c.arg \in Int /\ (c.op = "LIKE" => PrefixEnd(c.arg) \in Int)
      BY <3>1 DEF Condition
    <3>3. /\ p.min = (IF c.op \in {"<", "<="} THEN NegInf ELSE c.arg)
          /\ p.max = (IF c.op \in {">", ">="} THEN Inf
                      ELSE IF c.op = "LIKE" THEN PrefixEnd(c.arg) ELSE c.arg)
          /\ p.minExclusive = (c.op = ">") /\ p.maxExclusive = (c.op = "<")
      BY <1>1, <3>1 DEF Predicate, Between
    <3>4. EvalPredicate(p, key) <=>
              /\ ~Less(v, p.min) /\ ~(Same(v, p.min) /\ (c.op = ">"))
              /\ ~Above(v, p.max) /\ ~(Same(v, p.max) /\ (c.op = "<"))
      BY <1>2, <1>4, <2>1, <2>3, <3>3 DEF EvalPredicate
    <3>5. MeetsCondition(c, key) <=>
              CASE c.op = ">" -> v # Null /\ v > c.arg
                [] c.op = ">=" -> v # Null /\ v >= c.arg
                [] c.op = "<" -> v # Null /\ v < c.arg
                [] c.op = "<=" -> v # Null /\ v <= c.arg
                [] c.op = "LIKE" -> v # Null /\ c.arg <= v /\ v <= PrefixEnd(c.arg)
      BY <1>4, <2>1, <3>1 DEF MeetsCondition
    <3>6. v \in Int \cup {Null}
      BY <2>1 DEF Value
    <3>7. CASE c.op = ">"
      BY <1>1, <3>2, <3>3, <3>4, <3>5, <3>6, <3>7, QueryAssumption DEF Less, Same, Above
    <3>8. CASE c.op = ">="
      BY <1>1, <3>2, <3>3, <3>4, <3>5, <3>6, <3>8, QueryAssumption DEF Less, Same, Above
    <3>9. CASE c.op = "<"
      BY <1>1, <3>2, <3>3, <3>4, <3>5, <3>6, <3>9, QueryAssumption DEF Less, Same, Above
    <3>10. CASE c.op = "<="
      BY <1>1, <3>2, <3>3, <3>4, <3>5, <3>6, <3>10, QueryAssumption DEF Less, Same, Above
    <3>11. CASE c.op = "LIKE"
      BY <1>1, <3>2, <3>3, <3>4, <3>5, <3>6, <3>11, QueryAssumption DEF Less, Same, Above
    <3> QED BY <3>1, <3>7, <3>8, <3>9, <3>10, <3>11
  <2> QED BY <1>1, <2>2, <2>3
<1> QED BY <1>3, <1>4

-----------------------------------------------------------------------------
(* Conditions that bind the clause are under no OR. *)
Bound(q, X) ==
    /\ X \subseteq 1..Len(q) /\ \A x \in X : q[x].type = "PRED"
    /\ \A b \in 1..Len(q) : q[b].type = "LOGIC" /\ q[b].op = "OR" => Under(q, b) \cap X = {}

AllMet(q, X, key) == \A x \in X : MeetsCondition(q[x].cond, key)

(* If one of them is not met the clause is not. *)
LEMMA BoundNeeded ==
    ASSUME NEW q, Clause(q), NEW X, Bound(q, X), NEW key, MeetsAt(q, 1, key)
    PROVE  AllMet(q, X, key)
<1> DEFINE n == Len(q)
           S == {k \in 1..n : MeetsAt(q, k, key) => \A x \in X \cap Under(q, k) : MeetsCondition(q[x].cond, key)}
<1>1. IsTree(q, n) /\ n \in Nat /\ 1 \in 1..n
  BY ClauseTree DEF IsTree
<1>2. ASSUME NEW k \in 1..n, \A m \in (k + 1)..n : m \in S PROVE k \in S
  <2>1. SUFFICES ASSUME MeetsAt(q, k, key), NEW x \in X \cap Under(q, k)
                 PROVE  MeetsCondition(q[x].cond, key)
    OBVIOUS
  <2>2. CASE q[k].type = "PRED"
    <3>1. Under(q, k) = {k}
      BY <1>1, <2>2, UnderIs
    <3>2. MeetsCondition(q[k].cond, key)
      BY <1>1, <2>1, <2>2, MeetsIs
    <3> QED BY <2>1, <3>1, <3>2
  <2>3. CASE q[k].type # "PRED"
    <3>1. PICK l, r : l = q[k].left /\ r = q[k].right
      OBVIOUS
    <3>2. l \in (k + 1)..n /\ r \in (k + 1)..n /\ q[k].type = "LOGIC"
      BY <1>1, <2>3, <3>1 DEF IsTree
    <3>3. Under(q, k) = {k} \cup Under(q, l) \cup Under(q, r)
      BY <1>1, <2>3, <3>1, UnderIs
    <3>4. q[k].op # "OR" /\ x # k
      BY <2>1, <2>3, <3>2 DEF Bound
    <3>5. MeetsAt(q, l, key) /\ MeetsAt(q, r, key)
      BY <1>1, <2>1, <2>3, <3>1, <3>4, MeetsIs
    <3>6. l \in S /\ r \in S
      BY <1>2, <3>2
    <3> QED BY <2>1, <3>3, <3>4, <3>5, <3>6
  <2> QED BY <2>2, <2>3
<1>3. \A k \in 1..n : k \in S
  <2>1. \A k \in 1..n : (\A m \in (k + 1)..n : m \in S) => k \in S
    BY <1>2
  <2> HIDE DEF S, n
  <2> QED BY <1>1, <2>1, Downwards
<1>4. Under(q, 1) = 1..n
  BY RootHoldsAll
<1> QED BY <1>1, <1>3, <1>4 DEF AllMet, Bound

(* If all are met, a subtree cleaned away holds ... *)
LEMMA DoneHolds ==
    ASSUME NEW q, Clause(q), NEW X, Bound(q, X), NEW u, NEW done, NEW for,
           Prunes(q, X, u, done, for)
    PROVE  \A k \in 1..Len(q) : done[k] =>
              /\ \E x \in X : x \in Under(q, k)
              /\ \A key : AllMet(q, X, key) => MeetsAt(q, k, key)
<1> DEFINE n == Len(q)
           S == {k \in 1..n : done[k] => /\ \E x \in X : x \in Under(q, k)
                                         /\ \A key : AllMet(q, X, key) => MeetsAt(q, k, key)}
<1>1. IsTree(q, n) /\ n \in Nat
  BY ClauseTree DEF IsTree
<1>2. ASSUME NEW k \in 1..n, \A m \in (k + 1)..n : m \in S PROVE k \in S
  <2>1. SUFFICES ASSUME done[k]
                 PROVE  /\ \E x \in X : x \in Under(q, k)
                        /\ \A key : AllMet(q, X, key) => MeetsAt(q, k, key)
    OBVIOUS
  <2>2. CASE q[k].type = "PRED"
    <3>1. k \in X
      BY <2>1, <2>2 DEF Prunes
    <3>2. k \in Under(q, k)
      BY <1>1, UnderFacts
    <3>3. \A key : MeetsAt(q, k, key) <=> MeetsCondition(q[k].cond, key)
      BY <1>1, <2>2, MeetsIs
    <3> QED BY <3>1, <3>2, <3>3 DEF AllMet
  <2>3. CASE q[k].type # "PRED"
    <3>1. PICK l, r : l = q[k].left /\ r = q[k].right
      OBVIOUS
    <3>2. l \in (k + 1)..n /\ r \in (k + 1)..n
      BY <1>1, <2>3, <3>1 DEF IsTree
    <3>3. Under(q, k) = {k} \cup Under(q, l) \cup Under(q, r)
      BY <1>1, <2>3, <3>1, UnderIs
    <3>4. done[l] /\ done[r]
      BY <2>1, <2>3, <3>1 DEF Prunes
    <3>5. l \in S /\ r \in S
      BY <1>2, <3>2
    <3>6. \A key : AllMet(q, X, key) => MeetsAt(q, l, key) /\ MeetsAt(q, r, key)
      BY <3>4, <3>5
    <3>7. \A key : MeetsAt(q, l, key) /\ MeetsAt(q, r, key) => MeetsAt(q, k, key)
      BY <1>1, <2>3, <3>1, MeetsIs
    <3>8. \E x \in X : x \in Under(q, l)
      BY <3>4, <3>5
    <3> QED BY <3>3, <3>6, <3>7, <3>8
  <2> QED BY <2>2, <2>3
<1>3. \A k \in 1..n : k \in S
  <2>1. \A k \in 1..n : (\A m \in (k + 1)..n : m \in S) => k \in S
    BY <1>2
  <2> HIDE DEF S, n
  <2> QED BY <1>1, <2>1, Downwards
<1> QED BY <1>3

(* ... and the node in the place of any other asks what the subtree does.  *)
Evaluates(u, f) ==
    \A y \in Under(u, f) :
        u[y].type = "PRED" /\ ~u[y].passthru => u[y].pred.t \in {"EQ", "RNG"}

LEMMA FilterExact ==
    ASSUME NEW q, Clause(q), NEW X, Bound(q, X), NEW u, NEW done, NEW for,
           Prunes(q, X, u, done, for), NEW key \in Tuples, AllMet(q, X, key)
    PROVE  \A k \in 1..Len(q) : ~done[k] /\ Evaluates(u, for[k])
              => (EvalKey(u, for[k], key) <=> MeetsAt(q, k, key))
<1> DEFINE n == Len(q)
           S == {k \in 1..n : ~done[k] /\ Evaluates(u, for[k])
                                  => (EvalKey(u, for[k], key) <=> MeetsAt(q, k, key))}
<1>1. IsTree(q, n) /\ n \in Nat /\ IsTree(u, n)
  BY ClauseTree DEF IsTree, Prunes
<1>2. \A k \in 1..n : for[k] \in 1..n
  BY DEF Prunes
<1>3. ASSUME NEW k \in 1..n, \A m \in (k + 1)..n : m \in S PROVE k \in S
  <2>1. SUFFICES ASSUME ~done[k], Evaluates(u, for[k])
                 PROVE  EvalKey(u, for[k], key) <=> MeetsAt(q, k, key)
    OBVIOUS
  <2>2. CASE q[k].type = "PRED"
    <3>1. for[k] = k /\ ~u[k].passthru /\ u[k].type = "PRED" /\ u[k].pred = q[k].pred
      BY <2>1, <2>2 DEF Prunes
    <3>2. u[k].pred.t \in {"EQ", "RNG"}
      <4>1. k \in Under(u, k)
        BY <1>1, UnderFacts
      <4> QED BY <2>1, <3>1, <4>1 DEF Evaluates
    <3>3. PICK c : c = q[k].cond
      OBVIOUS
    <3>4. Condition(c) /\ q[k].pred = Predicate(c)
      BY <2>2, <3>3 DEF Clause, PredicateNode
    <3>5. EvalPredicate(Predicate(c), key) <=> MeetsCondition(c, key)
      BY <3>1, <3>2, <3>4, EvalPredicateExact
    <3>6. EvalKey(u, k, key) <=> EvalPredicate(u[k].pred, key)
      BY <1>1, <3>1, EvalIs
    <3>7. MeetsAt(q, k, key) <=> MeetsCondition(c, key)
      BY <1>1, <2>2, <3>3, MeetsIs
    <3> QED BY <3>1, <3>4, <3>5, <3>6, <3>7
  <2>3. CASE q[k].type # "PRED"
    <3>1. PICK l, r : l = q[k].left /\ r = q[k].right
      OBVIOUS
    <3>2. l \in (k + 1)..n /\ r \in (k + 1)..n /\ l \in 1..n /\ r \in 1..n
      BY <1>1, <2>3, <3>1 DEF IsTree
    <3>3. l \in S /\ r \in S
      BY <1>3, <3>2
    <3>4. /\ ~(done[l] /\ done[r])
          /\ for[k] = IF done[l] THEN for[r] ELSE IF done[r] THEN for[l] ELSE k
          /\ u[k].left = for[l] /\ u[k].right = for[r] /\ u[k].op = q[k].op
          /\ ~u[k].passthru /\ u[k].type = "LOGIC" /\ q[k].type = "LOGIC"
      BY <2>1, <2>3, <3>1 DEF Prunes
    <3>5. MeetsAt(q, k, key) <=> IF q[k].op = "OR" THEN MeetsAt(q, l, key) \/ MeetsAt(q, r, key)
                                 ELSE MeetsAt(q, l, key) /\ MeetsAt(q, r, key)
      BY <1>1, <2>3, <3>1, MeetsIs
    <3>6. Under(q, k) = {k} \cup Under(q, l) \cup Under(q, r)
      BY <1>1, <2>3, <3>1, UnderIs
    <3>7. ASSUME done[l] \/ done[r] PROVE q[k].op # "OR"
      <4>1. \E x \in X : x \in Under(q, k)
        BY <3>2, <3>6, <3>7, DoneHolds
      <4> QED BY <3>4, <4>1 DEF Bound
    <3>8. CASE done[l]
      <4>1. MeetsAt(q, l, key) /\ q[k].op # "OR" /\ ~done[r] /\ for[k] = for[r]
        BY <3>2, <3>4, <3>7, <3>8, DoneHolds
      <4> QED BY <2>1, <3>3, <3>5, <4>1
    <3>9. CASE done[r]
      <4>1. MeetsAt(q, r, key) /\ q[k].op # "OR" /\ ~done[l] /\ for[k] = for[l]
        BY <3>2, <3>4, <3>7, <3>9, DoneHolds
      <4> QED BY <2>1, <3>3, <3>5, <4>1
    <3>10. CASE ~done[l] /\ ~done[r]
      <4>1. for[k] = k
        BY <3>4, <3>10
      <4>2. Under(u, k) = {k} \cup Under(u, for[l]) \cup Under(u, for[r])
        BY <1>1, <3>4, UnderIs
      <4>3. Evaluates(u, for[l]) /\ Evaluates(u, for[r])
        BY <2>1, <4>1, <4>2 DEF Evaluates
      <4>4. EvalKey(u, k, key) <=> IF q[k].op = "OR"
                                   THEN EvalKey(u, for[l], key) \/ EvalKey(u, for[r], key)
                                   ELSE EvalKey(u, for[l], key) /\ EvalKey(u, for[r], key)
        BY <1>1, <3>4, EvalIs
      <4> QED BY <3>3, <3>5, <3>10, <4>1, <4>3, <4>4
    <3> QED BY <3>8, <3>9, <3>10
  <2> QED BY <2>2, <2>3
<1>4. \A k \in 1..n : k \in S
  <2>1. \A k \in 1..n : (\A m \in (k + 1)..n : m \in S) => k \in S
    BY <1>3
  <2> HIDE DEF S, n
  <2> QED BY <1>1, <2>1, Downwards
<1> QED BY <1>4

-----------------------------------------------------------------------------
(* The ends of a range split the ascending keys of a list: what lies       *)
(* before its beginning comes first, what lies past its end comes last.    *)
IsRange(rng) ==
    \E L \in 1..NumProps : /\ rng.min \in [1..L -> Value \cup {Inf, NegInf}]
                           /\ rng.max \in [1..L -> Value \cup {Inf, NegInf}]

LEMMA LessThrough ==
    ASSUME NEW a \in Value, NEW b \in Value, NEW w \in Value \cup {Inf, NegInf}
    PROVE  /\ Less(a, b) /\ Less(b, w) => Less(a, w)
           /\ Less(a, b) /\ Same(b, w) => Less(a, w)
           /\ Same(a, w) => ~Less(a, w)
BY QueryAssumption DEF Value, Less, Same

LEMMA KeysAgainst ==
    ASSUME NEW a \in Tuples, NEW b \in Tuples, LessKey(a, b),
           NEW L \in 1..NumProps, NEW w \in [1..L -> Value \cup {Inf, NegInf}]
    PROVE  /\ LessKey(b, w) => LessKey(a, w)
           /\ SameKey(b, w) => LessKey(a, w) \/ SameKey(a, w)
           /\ AboveKey(a, w) => AboveKey(b, w)
           /\ SameKey(a, w) => AboveKey(b, w) \/ SameKey(b, w)
<1>1. /\ NumProps \in 1..NumProps /\ L \in Nat /\ NumProps \in Nat
      /\ Common(a, b) = 1..NumProps /\ Common(a, w) = 1..L /\ Common(b, w) = 1..L
  <2>1. NumProps \in 1..NumProps /\ L \in Nat /\ NumProps \in Nat
    BY QueryAssumption
  <2>2. Common(a, b) = 1..NumProps
    <3>1. b \in [1..NumProps -> Value]
      BY DEF Tuples
    <3> QED BY <2>1, <3>1, CommonIs
  <2>3. Common(a, w) = 1..L /\ Common(b, w) = 1..L
    BY CommonIs
  <2> QED BY <2>1, <2>2, <2>3
<1>2. PICK i \in 1..NumProps : Less(a[i], b[i]) /\ \A j \in 1..(i - 1) : Same(a[j], b[j])
  BY <1>1 DEF LessKey
<1>3. \A j \in 1..NumProps : a[j] \in Value /\ b[j] \in Value
  BY DEF Tuples
<1>4. \A j \in 1..L : j \in 1..NumProps /\ w[j] \in Value \cup {Inf, NegInf}
  BY <1>1
<1>5. \A j \in 1..L : j < i => a[j] = b[j]
  BY <1>1, <1>2, <1>4 DEF Same
<1>6. CASE i > L
  <2>1. \A j \in 1..L : a[j] = b[j]
    BY <1>1, <1>5, <1>6
  <2>2. LessKey(b, w) <=> LessKey(a, w)
    <3>1. \A p \in 1..L : \A j \in 1..(p - 1) : j \in 1..L
      BY <1>1
    <3> QED BY <1>1, <2>1, <3>1 DEF LessKey
  <2>3. SameKey(b, w) <=> SameKey(a, w)
    BY <1>1, <2>1 DEF SameKey
  <2> QED BY <2>2, <2>3 DEF AboveKey
<1>7. CASE i <= L
  <2>1. i \in 1..L
    BY <1>1, <1>7
  <2>2. ASSUME LessKey(b, w) PROVE LessKey(a, w)
    <3>1. PICK p \in 1..L : Less(b[p], w[p]) /\ \A j \in 1..(p - 1) : Same(b[j], w[j])
      BY <1>1, <2>2 DEF LessKey
    <3>2. CASE p < i
      <4>1. a[p] = b[p] /\ \A j \in 1..(p - 1) : j \in 1..L /\ a[j] = b[j]
        BY <1>1, <1>5, <3>2
      <4>2. Less(a[p], w[p]) /\ \A j \in 1..(p - 1) : Same(a[j], w[j])
        BY <3>1, <4>1
      <4> QED BY <1>1, <4>2 DEF LessKey
    <3>3. CASE p >= i
      <4>1. Less(a[i], w[i])
        <5>1. Less(b[i], w[i]) \/ Same(b[i], w[i])
          BY <1>1, <2>1, <3>1, <3>3
        <5> QED BY <1>2, <1>3, <1>4, <2>1, <5>1, LessThrough
      <4>2. \A j \in 1..(i - 1) : j \in 1..(p - 1) /\ a[j] = b[j]
        BY <1>1, <1>5, <2>1, <3>3
      <4>3. \A j \in 1..(i - 1) : Same(a[j], w[j])
        BY <3>1, <4>2
      <4> QED BY <1>1, <2>1, <4>1, <4>3 DEF LessKey
    <3> QED BY <1>1, <3>2, <3>3
  <2>3. ASSUME SameKey(b, w) PROVE LessKey(a, w)
    <3>1. \A j \in 1..L : Same(b[j], w[j])
      BY <1>1, <2>3 DEF SameKey
    <3>2. Less(a[i], w[i])
      BY <1>2, <1>3, <1>4, <2>1, <3>1, LessThrough
    <3>3. \A j \in 1..(i - 1) : j \in 1..L /\ a[j] = b[j]
      BY <1>1, <1>5, <2>1
    <3>4. \A j \in 1..(i - 1) : Same(a[j], w[j])
      BY <3>1, <3>3
    <3> QED BY <1>1, <2>1, <3>2, <3>4 DEF LessKey
  <2>4. ~(SameKey(a, w) /\ LessKey(a, w))
    <3>1. SUFFICES ASSUME SameKey(a, w), LessKey(a, w) PROVE FALSE
      OBVIOUS
    <3>2. PICK p \in 1..L : Less(a[p], w[p])
      BY <1>1, <3>1 DEF LessKey
    <3>3. Same(a[p], w[p])
      BY <1>1, <3>1 DEF SameKey
    <3> QED BY <1>3, <1>4, <3>2, <3>3, LessThrough
  <2> QED BY <2>2, <2>3, <2>4 DEF AboveKey
<1> QED BY <1>1, <1>6, <1>7

LEMMA ListKeys ==
    ASSUME NEW l, Listing(l)
    PROVE  /\ Len(l) \in Nat /\ DOMAIN l = 1..Len(l)
           /\ \A i \in DOMAIN l : l[i].key \in Tuples
           /\ \A i, j \in DOMAIN l : i < j => LessKey(l[i].key, l[j].key)
           /\ \A i \in DOMAIN l : /\ Len(l[i].vals) \in Nat \ {0}
                                  /\ DOMAIN l[i].vals = 1..Len(l[i].vals)
<1> DEFINE ids == UNION {ToSet(l[i].vals) : i \in DOMAIN l}
<1> HIDE DEF ids
<1>1. /\ l \in Seq([key : [1..NumProps -> Value], vals : Seq(ids) \ {<<>>}])
      /\ \A i, j \in DOMAIN l : i < j => LessKey(l[i].key, l[j].key)
  BY DEF Listing, ids
<1>2. \A i \in DOMAIN l : l[i].key \in Tuples /\ l[i].vals \in Seq(ids) \ {<<>>}
  <2>1. PICK K, V : K = [1..NumProps -> Value] /\ V = Seq(ids) \ {<<>>}
    OBVIOUS
  <2>4. PICK W : W = [key : K, vals : V]
    OBVIOUS
  <2>2. l \in Seq(W)
    BY <1>1, <2>1, <2>4
  <2>5. \A w \in W : w.key \in K /\ w.vals \in V
    BY <2>4
  <2>6. \A i \in DOMAIN l : l[i] \in W
    BY <2>2
  <2>3. \A i \in DOMAIN l : l[i].key \in K /\ l[i].vals \in V
    BY <2>5, <2>6
  <2> QED BY <2>1, <2>3 DEF Tuples
<1>3. \A s \in Seq(ids) \ {<<>>} : Len(s) \in Nat \ {0} /\ DOMAIN s = 1..Len(s)
  OBVIOUS
<1> QED BY <1>1, <1>2, <1>3

(* skiplistIterateRange and the turns of the iterator: nothing of the      *)
(* range is missed.                                                        *)
In(l, rng, i) == InRange(l[i].key, rng)
Starts(l, rng, f) ==
    IF f = 0 THEN \A i \in DOMAIN l : ~In(l, rng, i)
    ELSE f \in DOMAIN l /\ In(l, rng, f) /\ \A i \in DOMAIN l : i < f => ~In(l, rng, i)
Follows(l, rng, k, f) ==
    IF f = 0 THEN \A i \in DOMAIN l : i > k => ~In(l, rng, i)
    ELSE f = k + 1 /\ f \in DOMAIN l /\ In(l, rng, f)

LEMMA StartExact ==
    ASSUME Listing(list), NEW rng, IsRange(rng)
    PROVE  /\ Starts(list, rng, Clipped(rng, FirstOf(rng)))
           /\ \A k \in DOMAIN list : In(list, rng, k) => Follows(list, rng, k, Clipped(rng, k + 1))
<1> DEFINE skipped(i) == \/ LessKey(list[i].key, rng.min)
                         \/ rng.minExclusive /\ SameKey(list[i].key, rng.min)
           candidates == {i \in DOMAIN list : ~skipped(i)}
<1>1. /\ Len(list) \in Nat /\ DOMAIN list = 1..Len(list)
      /\ \A i \in DOMAIN list : list[i].key \in Tuples
      /\ \A i, j \in DOMAIN list : i < j => LessKey(list[i].key, list[j].key)
  BY ListKeys
<1>2. PICK L \in 1..NumProps : /\ rng.min \in [1..L -> Value \cup {Inf, NegInf}]
                               /\ rng.max \in [1..L -> Value \cup {Inf, NegInf}]
  BY DEF IsRange
<1>3. \A i \in DOMAIN list : In(list, rng, i) <=> ~skipped(i) /\ ~Past(rng, i)
  BY DEF In, InRange, Past
<1>4. ASSUME NEW i \in DOMAIN list, NEW j \in DOMAIN list, i < j
      PROVE  /\ skipped(j) => skipped(i)
             /\ Past(rng, i) => Past(rng, j)
  <2>1. LessKey(list[i].key, list[j].key) /\ list[i].key \in Tuples /\ list[j].key \in Tuples
    BY <1>1, <1>4
  <2>2. PICK a \in Tuples, b \in Tuples : a = list[i].key /\ b = list[j].key /\ LessKey(a, b)
    BY <2>1
  <2>3. /\ LessKey(b, rng.min) => LessKey(a, rng.min)
        /\ SameKey(b, rng.min) => LessKey(a, rng.min) \/ SameKey(a, rng.min)
    BY <1>2, <2>2, KeysAgainst
  <2>4. /\ AboveKey(a, rng.max) => AboveKey(b, rng.max)
        /\ SameKey(a, rng.max) => AboveKey(b, rng.max) \/ SameKey(b, rng.max)
    BY <1>2, <2>2, KeysAgainst
  <2> QED BY <2>2, <2>3, <2>4 DEF Past
<1>5. FirstOf(rng) = IF candidates = {} THEN 0 ELSE Min(candidates)
  BY DEF FirstOf
<1>6. candidates # {} => /\ Min(candidates) \in candidates
                         /\ \A i \in candidates : Min(candidates) <= i
  <2>1. SUFFICES ASSUME candidates # {} PROVE /\ Min(candidates) \in candidates
                                              /\ \A i \in candidates : Min(candidates) <= i
    OBVIOUS
  <2>2. candidates \in SUBSET Nat
    BY <1>1
  <2> HIDE DEF candidates
  <2>3. \E m \in candidates : \A i \in candidates : m <= i
    BY <2>1, <2>2, LeastOf
  <2> QED BY <2>3 DEF Min
<1> HIDE DEF skipped
<1>7. Starts(list, rng, Clipped(rng, FirstOf(rng)))
  <2>1. CASE candidates = {}
    <3>1. FirstOf(rng) = 0 /\ 0 \notin DOMAIN list
      BY <1>1, <1>5, <2>1
    <3>2. Clipped(rng, FirstOf(rng)) = 0
      BY <3>1 DEF Clipped
    <3>3. \A i \in DOMAIN list : ~In(list, rng, i)
      BY <1>3, <2>1
    <3> QED BY <3>2, <3>3 DEF Starts
  <2>2. CASE candidates # {}
    <3>1. PICK m \in DOMAIN list : m = FirstOf(rng) /\ ~skipped(m) /\ \A i \in candidates : m <= i
      BY <1>5, <1>6, <2>2
    <3>2. \A i \in DOMAIN list : i < m => skipped(i)
      <4>1. \A i \in DOMAIN list : i \in Nat
        BY <1>1
      <4> QED BY <3>1, <4>1
    <3>3. CASE Past(rng, m)
      <4>1. Clipped(rng, FirstOf(rng)) = 0
        BY <3>1, <3>3 DEF Clipped
      <4>2. \A i \in DOMAIN list : ~In(list, rng, i)
        <5>1. \A i \in DOMAIN list : i < m \/ i = m \/ m < i
          BY <1>1
        <5> QED BY <1>3, <1>4, <3>2, <3>3, <5>1
      <4> QED BY <4>1, <4>2 DEF Starts
    <3>4. CASE ~Past(rng, m)
      <4>1. Clipped(rng, FirstOf(rng)) = m /\ m # 0
        BY <1>1, <3>1, <3>4 DEF Clipped
      <4>2. In(list, rng, m) /\ \A i \in DOMAIN list : i < m => ~In(list, rng, i)
        BY <1>3, <3>1, <3>2, <3>4
      <4> QED BY <4>1, <4>2 DEF Starts
    <3> QED BY <3>3, <3>4
  <2> QED BY <2>1, <2>2
<1>8. ASSUME NEW k \in DOMAIN list, In(list, rng, k)
      PROVE  Follows(list, rng, k, Clipped(rng, k + 1))
  <2>1. k \in Nat /\ k + 1 # 0
    BY <1>1
  <2>2. CASE k + 1 \notin DOMAIN list
    <3>1. Clipped(rng, k + 1) = 0 /\ \A i \in DOMAIN list : ~(i > k)
      BY <1>1, <2>2 DEF Clipped
    <3> QED BY <3>1 DEF Follows
  <2>3. CASE k + 1 \in DOMAIN list /\ Past(rng, k + 1)
    <3>1. Clipped(rng, k + 1) = 0
      BY <2>3 DEF Clipped
    <3>2. \A i \in DOMAIN list : i > k => i = k + 1 \/ k + 1 < i
      BY <1>1
    <3>3. \A i \in DOMAIN list : i > k => ~In(list, rng, i)
      BY <1>3, <1>4, <2>3, <3>2
    <3> QED BY <3>1, <3>3 DEF Follows
  <2>4. CASE k + 1 \in DOMAIN list /\ ~Past(rng, k + 1)
    <3>1. Clipped(rng, k + 1) = k + 1
      BY <2>4 DEF Clipped
    <3>2. ~skipped(k + 1)
      <4>1. k < k + 1 /\ ~skipped(k)
        BY <1>3, <1>8, <2>1
      <4> QED BY <1>4, <2>4, <4>1
    <3>3. In(list, rng, k + 1)
      BY <1>3, <2>4, <3>2
    <3> QED BY <2>1, <2>4, <3>1, <3>3 DEF Follows
  <2> QED BY <2>2, <2>3, <2>4
<1> QED BY <1>7, <1>8

-----------------------------------------------------------------------------
(* The plan of a clause, put together. *)
LEMMA ScanRangeIs ==
    ASSUME NEW L \in 1..NumProps, NEW st \in [1..L -> Alternative]
    PROVE  IsRange(ScanRange(st))
<1>1. \A i \in 1..L : st[i].min \in Value \cup {Inf, NegInf} /\ st[i].max \in Value \cup {Inf, NegInf}
  <2>1. \A a \in Alternative : a.min \in Value \cup {Inf, NegInf} /\ a.max \in Value \cup {Inf, NegInf}
    BY DEF Alternative
  <2> QED BY <2>1
<1>2. /\ ScanRange(st).min = [i \in 1..L |-> st[i].min]
      /\ ScanRange(st).max = [i \in 1..L |-> st[i].max]
  BY DEF ScanRange
<1>3. /\ [i \in 1..L |-> st[i].min] \in [1..L -> Value \cup {Inf, NegInf}]
      /\ [i \in 1..L |-> st[i].max] \in [1..L -> Value \cup {Inf, NegInf}]
  BY <1>1
<1> QED BY <1>2, <1>3 DEF IsRange

LEMMA RangesUsable ==
    ASSUME NEW q, Clause(q), NEW T, IsPlan(q, T, NumProps), T # <<>>,
           NEW R, R = Ranges(ScanKeys(q, T))
    PROVE  /\ Len(R) \in Nat \ {0} /\ DOMAIN R = 1..Len(R)
           /\ \A r \in DOMAIN R : IsRange(R[r])
<1> DEFINE K == ScanKeys(q, T)
           L == Len(T)
<1>1. PICK ch : Chosen(q, T, R, ch)
  BY RangesChosen
<1>2. /\ L \in 1..NumProps /\ DOMAIN T = 1..L
      /\ \A i \in 1..L : K[i] = RangeKeys(q[T[i]].pred)
  <2>1. L # 0
    BY ScanKeysAre
  <2> QED BY <2>1, ScanKeysAre
<1>3. ASSUME NEW i \in 1..L
      PROVE  K[i] \in Seq(Alternative) /\ 1 \in DOMAIN K[i]
  <2>1. PICK Ki : Ki = K[i] /\ Ki = RangeKeys(q[T[i]].pred)
    BY <1>2
  <2>2. Splits(Ki, q[T[i]].cond, i, i = Len(T))
    BY <2>1, KeyExact
  <2>3. Ki \in Seq(Alternative) /\ Ki # <<>>
    BY <2>2 DEF Splits
  <2>4. 1 \in DOMAIN Ki
    BY <2>3
  <2> QED BY <2>1, <2>3, <2>4
<1>4. Len(R) \in Nat /\ DOMAIN R = 1..Len(R)
  BY RangesChosen
<1> HIDE DEF K, L
<1>5. DOMAIN R # {}
  <2> DEFINE c == [i \in 1..L |-> 1]
  <2>1. c \in Picks(K, L)
    BY <1>3 DEF Picks
  <2> HIDE DEF c
  <2> QED BY <1>1, <2>1 DEF Chosen, K, L
<1>6. ASSUME NEW r \in DOMAIN R PROVE IsRange(R[r])
  <2>1. ch[r] \in Picks(K, L) /\ R[r] = ScanRange([i \in 1..L |-> K[i][ch[r][i]]])
    BY <1>1 DEF Chosen, K, L
  <2>2. \A i \in 1..L : K[i][ch[r][i]] \in Alternative
    <3>1. \A i \in 1..L : ch[r][i] \in DOMAIN K[i]
      BY <2>1 DEF Picks
    <3> QED BY <1>3, <3>1
  <2> DEFINE st == [i \in 1..L |-> K[i][ch[r][i]]]
  <2>3. st \in [1..L -> Alternative]
    BY <2>2
  <2>4. R[r] = ScanRange(st)
    BY <2>1
  <2> HIDE DEF st
  <2> QED BY <1>2, <2>3, <2>4, ScanRangeIs
<1>7. Len(R) # 0
  BY <1>4, <1>5
<1> QED BY <1>4, <1>6, <1>7

LEMMA PlanBinds ==
    ASSUME NEW q, Clause(q), NEW T, IsPlan(q, T, NumProps)
    PROVE  /\ Bound(q, ToSet(T))
           /\ \A key : TakenMet(q, T, key) <=> AllMet(q, ToSet(T), key)
           /\ T = <<>> <=> ~\E n \in 1..Len(q) : Binds(q, 1, n)
<1>1. Len(T) \in Nat /\ DOMAIN T = 1..Len(T) /\ \A i \in 1..Len(T) : T[i] \in 1..Len(q)
  BY DEF IsPlan
<1>2. \A i \in 1..Len(T) : Binds(q, i, T[i])
  BY DEF IsPlan
<1>3. Under(q, 1) = 1..Len(q)
  BY RootHoldsAll
<1>4. Bound(q, ToSet(T))
  <2>1. \A x \in ToSet(T) : x \in 1..Len(q) /\ q[x].type = "PRED" /\ ~UnderOr(q, 1, x)
    <3>1. \A i \in 1..Len(T) :
              /\ T[i] \in 1..Len(q) /\ q[T[i]].type = "PRED" /\ ~UnderOr(q, 1, T[i])
      BY <1>1, <1>2 DEF Binds
    <3>2. ToSet(T) = {T[i] : i \in 1..Len(T)}
      BY <1>1 DEF ToSet
    <3> QED BY <3>1, <3>2
  <2>2. ASSUME NEW b \in 1..Len(q), q[b].type = "LOGIC", q[b].op = "OR"
        PROVE  Under(q, b) \cap ToSet(T) = {}
    BY <1>3, <2>1, <2>2 DEF UnderOr
  <2> QED BY <2>1, <2>2 DEF Bound
<1>5. \A key : TakenMet(q, T, key) <=> AllMet(q, ToSet(T), key)
  BY DEF TakenMet, AllMet, ToSet
<1>6. T = <<>> <=> ~\E n \in 1..Len(q) : Binds(q, 1, n)
  <2>1. CASE T = <<>>
    BY <2>1, QueryAssumption DEF IsPlan
  <2>2. CASE T # <<>>
    <3>1. 1 \in 1..Len(T)
      <4>1. Len(T) # 0
        BY <2>2 DEF IsPlan
      <4> QED BY <1>1, <4>1
    <3> QED BY <1>1, <1>2, <2>2, <3>1
  <2> QED BY <2>1, <2>2
<1> QED BY <1>4, <1>5, <1>6

-----------------------------------------------------------------------------
(* The query while it runs: it is as it was parsed, or planned; a node is  *)
(* freed once when it is no longer reached from the root.                  *)
Unplanned == tree = clause /\ root = 1 /\ ranges = <<>> /\ filter = NoNode

Planned ==
    LET taken == Taken(clause, 1)
        marked == Mark(clause, ToSet(taken))
    IN  /\ taken # <<>> /\ ranges = Ranges(ScanKeys(clause, taken))
        /\ \/ marked[1].passthru /\ filter = NoNode /\ root = 1 /\ tree = marked
           \/ /\ ~marked[1].passthru /\ filter = root
              /\ root = Clean(marked, 1).root /\ tree = Clean(marked, 1).tree

Over == phase \in {"released", "crashed"}

PlanInv ==
    /\ Clause(clause) /\ Listing(list)
    /\ \/ phase = "parsed" /\ Unplanned
       \/ phase \in {"refused", "released", "crashed"} /\ Unplanned /\ Taken(clause, 1) = <<>>
       \/ phase \in {"scanning", "done", "released"} /\ Planned
    /\ freed = [n \in DOMAIN clause |-> IF n \in Under(tree, root) /\ ~Over THEN 0 ELSE 1]

(* The tree of a planned query. *)
TreeOf(q, X, t, r, f) ==
    /\ DOMAIN t = DOMAIN q /\ r \in DOMAIN q /\ f \in {NoNode, r}
    /\ Under(t, r) \subseteq DOMAIN q
    /\ \A n \in DOMAIN q : q[n].type = "PRED" => (t[n].passthru <=> n \in X)

LEMMA MarkedTree ==
    ASSUME NEW q, Clause(q), NEW X
    PROVE  /\ TreeOf(q, X, Mark(q, X), 1, NoNode)
           /\ Under(Mark(q, X), 1) = DOMAIN q
<1>1. PICK t : t = Mark(q, X) /\ Marks(q, X, t)
  BY MarkIs
<1>2. DOMAIN q = 1..Len(q) /\ 1 \in DOMAIN q /\ Under(q, 1) = DOMAIN q
  BY ClauseTree, RootHoldsAll DEF Clause
<1>3. DOMAIN t = DOMAIN q /\ Under(t, 1) = DOMAIN q
  BY <1>1, <1>2 DEF Marks, SameShape
<1>4. \A n \in DOMAIN q : t[n].passthru <=> n \in X
  BY <1>1, <1>2 DEF Marks
<1> QED BY <1>1, <1>2, <1>3, <1>4 DEF TreeOf

LEMMA CleanedTree ==
    ASSUME NEW q, Clause(q), NEW X, \A k \in X : q[k].type = "PRED",
           NEW c, c = Clean(Mark(q, X), 1)
    PROVE  /\ TreeOf(q, X, c.tree, c.root, c.root) /\ c.root # NoNode
           /\ c.freed = DOMAIN q \ Under(c.tree, c.root)
           /\ \E done, for : Prunes(q, X, c.tree, done, for) /\ c.root = for[1]
<1>1. /\ IsTree(Mark(q, X), Len(q)) /\ DOMAIN q = 1..Len(q) /\ 1 \in 1..Len(q) /\ Len(q) \in Nat
      /\ Under(Mark(q, X), 1) = DOMAIN q
  <2>1. IsTree(Mark(q, X), Len(q))
    BY MarkIs DEF Marks
  <2> QED BY <2>1, ClauseTree, MarkedTree DEF Clause
<1>2. PICK done, for : Cleans(Mark(q, X), Len(q), done, for)
  BY <1>1, CleanIs
<1>3. PICK u : u = Cleaned(Mark(q, X), done, for)
  OBVIOUS
<1>4. /\ c = [root |-> for[1], tree |-> u, freed |-> Under(Mark(q, X), 1) \ Under(u, for[1])]
      /\ for \in [1..Len(q) -> 1..Len(q)]
  BY <1>2, <1>3 DEF Cleans
<1>5. Prunes(q, X, u, done, for)
  BY <1>2, <1>3, CleaningPrunes
<1>6. c.tree = u /\ c.root = for[1] /\ c.freed = DOMAIN q \ Under(u, for[1])
  BY <1>1, <1>4
<1>7. IsTree(u, Len(q)) /\ DOMAIN u = 1..Len(q) /\ for[1] \in 1..Len(q) /\ for[1] \in Nat
  BY <1>1, <1>4, <1>5 DEF Prunes, IsTree
<1>8. Under(u, for[1]) \subseteq 1..Len(q)
  <2>1. Under(u, for[1]) \subseteq for[1]..Len(q)
    BY <1>7, UnderFacts
  <2> QED BY <1>1, <1>7, <2>1
<1>9. \A n \in DOMAIN q : q[n].type = "PRED" => (u[n].passthru <=> n \in X)
  BY <1>1, <1>5 DEF Prunes
<1>10. TreeOf(q, X, u, for[1], for[1])
  BY <1>1, <1>7, <1>8, <1>9 DEF TreeOf
<1>11. for[1] # NoNode
  BY <1>7, QueryAssumption
<1> QED BY <1>5, <1>6, <1>10, <1>11

LEMMA TakenBinds ==
    ASSUME NEW q, Clause(q)
    PROVE  /\ IsPlan(q, Taken(q, 1), NumProps)
           /\ Bound(q, ToSet(Taken(q, 1)))
           /\ \A k \in ToSet(Taken(q, 1)) : q[k].type = "PRED"
<1>1. IsPlan(q, Taken(q, 1), NumProps)
  BY TakenIs
<1>2. Bound(q, ToSet(Taken(q, 1)))
  BY <1>1, PlanBinds
<1> QED BY <1>1, <1>2 DEF Bound

LEMMA PlannedTree ==
    ASSUME Clause(clause), Planned
    PROVE  /\ TreeOf(clause, ToSet(Taken(clause, 1)), tree, root, filter)
           /\ Len(ranges) \in Nat \ {0} /\ DOMAIN ranges = 1..Len(ranges)
           /\ \A r \in DOMAIN ranges : IsRange(ranges[r])
<1>1. PICK T : T = Taken(clause, 1)
  OBVIOUS
<1>2. IsPlan(clause, T, NumProps) /\ \A k \in ToSet(T) : clause[k].type = "PRED"
  BY <1>1, TakenBinds
<1>3. T # <<>> /\ ranges = Ranges(ScanKeys(clause, T))
  BY <1>1 DEF Planned
<1>4. /\ Len(ranges) \in Nat \ {0} /\ DOMAIN ranges = 1..Len(ranges)
      /\ \A r \in DOMAIN ranges : IsRange(ranges[r])
  BY <1>2, <1>3, RangesUsable
<1>5. PICK t : t = Mark(clause, ToSet(T))
  OBVIOUS
<1>6. \/ filter = NoNode /\ root = 1 /\ tree = t
      \/ filter = root /\ root = Clean(t, 1).root /\ tree = Clean(t, 1).tree
  BY <1>1, <1>5 DEF Planned
<1>7. TreeOf(clause, ToSet(T), tree, root, filter)
  <2>1. CASE filter = NoNode /\ root = 1 /\ tree = t
    BY <1>5, <2>1, MarkedTree
  <2>2. CASE filter = root /\ root = Clean(t, 1).root /\ tree = Clean(t, 1).tree
    BY <1>2, <1>5, <2>2, CleanedTree
  <2> QED BY <1>6, <2>1, <2>2
<1> QED BY <1>1, <1>4, <1>7

LEMMA PlanInit == Init => PlanInv
<1> SUFFICES ASSUME Init PROVE PlanInv
  OBVIOUS
<1>1. Clause(clause) /\ Listing(list)
  BY CursorAssumption DEF Init
<1>2. Under(clause, 1) = DOMAIN clause
  BY <1>1, RootHoldsAll DEF Clause
<1>3. phase = "parsed" /\ Unplanned /\ ~Over
  BY DEF Init, Unplanned, Over
<1>4. freed = [n \in DOMAIN clause |-> IF n \in Under(tree, root) /\ ~Over THEN 0 ELSE 1]
  <2>1. tree = clause /\ root = 1 /\ freed = [n \in DOMAIN clause |-> 0]
    BY DEF Init
  <2>2. \A n \in DOMAIN clause : n \in Under(tree, root)
    BY <1>2, <2>1
  <2> QED BY <1>3, <2>1, <2>2
<1> QED BY <1>1, <1>3, <1>4 DEF PlanInv

(* What Find leaves: a planned query. *)
LEMMA FindPlans ==
    ASSUME PlanInv, Find
    PROVE  PlanInv'
<1>1. /\ Clause(clause) /\ Listing(list) /\ Unplanned /\ phase = "parsed"
      /\ phase' = "scanning" /\ clause' = clause /\ list' = list
  BY DEF PlanInv, Find
<1>2. tree = clause /\ root = 1
  BY <1>1 DEF Unplanned
<1>3. PICK T, t : T = Taken(clause, 1) /\ t = Mark(clause, ToSet(T))
  OBVIOUS
<1>4. \A k \in ToSet(T) : clause[k].type = "PRED"
  BY <1>1, <1>3, TakenBinds
<1>5. PICK c : c = Clean(t, 1)
  OBVIOUS
<1>6. /\ T # <<>> /\ ranges' = Ranges(ScanKeys(clause, T))
      /\ \/ t[1].passthru /\ filter' = NoNode /\ tree' = t /\ root' = 1 /\ freed' = freed
         \/ /\ ~t[1].passthru /\ filter' = c.root /\ root' = c.root
            /\ tree' = c.tree /\ freed' = Free(c.freed)
  BY <1>2, <1>3, <1>5 DEF Find, ScanKeys
<1>7. Planned'
  BY <1>1, <1>3, <1>5, <1>6 DEF Planned
<1>8. ~Over /\ ~Over'
  BY <1>1 DEF Over
<1>9. freed = [n \in DOMAIN clause |-> 0]
  <2>1. Under(clause, 1) = DOMAIN clause
    BY <1>1, RootHoldsAll DEF Clause
  <2>2. freed = [n \in DOMAIN clause |-> IF n \in Under(tree, root) /\ ~Over THEN 0 ELSE 1]
    BY DEF PlanInv
  <2> QED BY <1>2, <1>8, <2>1, <2>2
<1>10. freed' = [n \in DOMAIN clause |-> IF n \in Under(tree', root') THEN 0 ELSE 1]
  <2>1. CASE tree' = t /\ root' = 1 /\ freed' = freed
    <3>1. Under(tree', root') = DOMAIN clause
      BY <1>1, <1>3, <2>1, MarkedTree
    <3> QED BY <1>9, <2>1, <3>1
  <2>2. CASE root' = c.root /\ tree' = c.tree /\ freed' = Free(c.freed)
    <3>1. c.freed = DOMAIN clause \ Under(tree', root')
      BY <1>1, <1>3, <1>4, <1>5, <2>2, CleanedTree
    <3>2. PICK U : U = Under(tree', root')
      OBVIOUS
    <3>3. freed' = [n \in DOMAIN freed |-> IF n \in DOMAIN clause \ U THEN freed[n] + 1 ELSE freed[n]]
      BY <2>2, <3>1, <3>2 DEF Free
    <3>4. freed' = [n \in DOMAIN clause |-> IF n \in U THEN 0 ELSE 1]
      BY <1>9, <3>3
    <3> QED BY <3>2, <3>4
  <2> QED BY <1>6, <2>1, <2>2
<1>11. (freed = [n \in DOMAIN clause |-> IF n \in Under(tree, root) /\ ~Over THEN 0 ELSE 1])'
  BY <1>1, <1>8, <1>10
<1>12. Clause(clause') /\ Listing(list') /\ phase' \in {"scanning", "done", "released"}
  BY <1>1
<1> QED BY <1>7, <1>11, <1>12 DEF PlanInv

LEMMA PlanStep == PlanInv /\ [Next]_vars => PlanInv'
<1> SUFFICES ASSUME PlanInv, [Next]_vars PROVE PlanInv'
  OBVIOUS
<1>1. CASE Find
  BY <1>1, FindPlans
<1>2. CASE Refuse
  <2>1. /\ phase = "parsed" /\ Unplanned /\ Taken(clause, 1) = <<>> /\ phase' = "refused"
        /\ UNCHANGED <<clause, list, tree, root, ranges, filter, freed>>
    BY <1>2 DEF Refuse, PlanInv, Unplanned
  <2>2. Unplanned' /\ Taken(clause', 1) = <<>> /\ ~Over /\ ~Over'
    BY <2>1 DEF Unplanned, Over
  <2> QED BY <2>1, <2>2 DEF PlanInv
<1>3. ASSUME phase \in {"scanning", "done"}, phase' \in {"scanning", "done"},
             UNCHANGED <<clause, list, tree, root, ranges, filter, freed>>
      PROVE  PlanInv'
  <2>1. Planned /\ ~Over
    BY <1>3 DEF PlanInv, Over
  <2>2. Planned' /\ ~Over'
    BY <1>3, <2>1 DEF Planned, Over
  <2> QED BY <1>3, <2>1, <2>2 DEF PlanInv
<1>4. CASE Return \/ Skip \/ NextRange
  <2>1. /\ phase = "scanning" /\ phase' \in {"scanning", "done"}
        /\ UNCHANGED <<clause, list, tree, root, ranges, filter, freed>>
    BY <1>4 DEF Return, Skip, NextRange
  <2> QED BY <1>3, <2>1
<1>5. CASE Release
  <2>1. /\ phase \in {"done", "refused"}
        /\ phase' \in {"released"} \cup IF phase = "refused" THEN {"crashed"} ELSE {}
        /\ freed' = Free(Under(tree, root))
        /\ UNCHANGED <<clause, list, tree, root, ranges, filter>>
    BY <1>5 DEF Release
  <2>2. /\ freed = [n \in DOMAIN clause |-> IF n \in Under(tree, root) /\ ~Over THEN 0 ELSE 1]
        /\ ~Over /\ Over'
    BY <2>1 DEF PlanInv, Over
  <2>3. PICK U : U = Under(tree, root)
    OBVIOUS
  <2>4. freed = [n \in DOMAIN clause |-> IF n \in U THEN 0 ELSE 1]
    BY <2>2, <2>3
  <2>5. freed' = [n \in DOMAIN freed |-> IF n \in U THEN freed[n] + 1 ELSE freed[n]]
    BY <2>1, <2>3 DEF Free
  <2>6. freed' = [n \in DOMAIN clause |-> 1]
    BY <2>4, <2>5
  <2>7. (freed = [n \in DOMAIN clause |-> IF n \in Under(tree, root) /\ ~Over THEN 0 ELSE 1])'
    BY <2>1, <2>2, <2>6
  <2>8. CASE phase = "refused"
    <3>1. Unplanned /\ Taken(clause, 1) = <<>>
      BY <2>8 DEF PlanInv
    <3>2. Unplanned' /\ Taken(clause', 1) = <<>> /\ phase' \in {"released", "crashed"}
      BY <2>1, <3>1 DEF Unplanned
    <3> QED BY <2>1, <2>7, <3>2 DEF PlanInv
  <2>9. CASE phase = "done"
    <3>1. Planned
      BY <2>9 DEF PlanInv
    <3>2. Planned' /\ phase' = "released"
      BY <2>1, <2>9, <3>1 DEF Planned
    <3> QED BY <2>1, <2>7, <3>2 DEF PlanInv
  <2> QED BY <2>1, <2>8, <2>9
<1>6. CASE UNCHANGED vars
  <2>1. UNCHANGED <<clause, list, tree, root, ranges, filter, freed, phase>>
    BY <1>6 DEF vars
  <2> QED BY <2>1 DEF PlanInv, Planned, Unplanned, Over
<1> QED BY <1>1, <1>2, <1>4, <1>5, <1>6 DEF Next

LEMMA PlanAlways == Spec => []PlanInv
BY PlanInit, PlanStep, PTL DEF Spec

(* A clause is refused exactly when no condition on the first property     *)
(* binds the whole of it, for any clause.                                  *)
THEOREM RefusedExactly == Spec => []RefusedOnlyUnbound
<1>1. PlanInv => RefusedOnlyUnbound
  <2>1. SUFFICES ASSUME PlanInv, phase # "parsed"
                 PROVE  (ranges = <<>>) = ~(\E n \in DOMAIN clause : Binding(n))
    BY DEF RefusedOnlyUnbound
  <2>2. Clause(clause) /\ (Planned \/ (Unplanned /\ Taken(clause, 1) = <<>>))
    BY <2>1 DEF PlanInv
  <2>3. DOMAIN clause = 1..Len(clause) /\ Under(clause, 1) = DOMAIN clause
    BY <2>2, RootHoldsAll DEF Clause
  <2>4. \A n \in DOMAIN clause : Binding(n) <=> Binds(clause, 1, n)
    BY <2>3 DEF Binding, Binds, UnderOr
  <2>5. Taken(clause, 1) = <<>> <=> ~\E n \in 1..Len(clause) : Binds(clause, 1, n)
    BY <2>2, TakenIs, PlanBinds
  <2>6. CASE Planned
    <3>1. ranges # <<>> /\ Taken(clause, 1) # <<>>
      <4>1. Len(ranges) # 0
        BY <2>2, <2>6, PlannedTree
      <4> QED BY <2>6, <4>1 DEF Planned
    <3> QED BY <2>3, <2>4, <2>5, <3>1
  <2>7. CASE Unplanned /\ Taken(clause, 1) = <<>>
    <3>1. ranges = <<>>
      BY <2>7 DEF Unplanned
    <3> QED BY <2>3, <2>4, <2>5, <2>7, <3>1
  <2> QED BY <2>2, <2>6, <2>7
<1> QED BY <1>1, PlanAlways, PTL

(* No query frees a node of its tree twice or leaves one behind, and its   *)
(* filter reaches none that was freed.                                     *)
THEOREM FreedExactlyOnce == Spec => []NodesFreedOnce
<1>1. PlanInv => NodesFreedOnce
  <2> SUFFICES ASSUME PlanInv PROVE NodesFreedOnce
    OBVIOUS
  <2>1. freed = [n \in DOMAIN clause |-> IF n \in Under(tree, root) /\ ~Over THEN 0 ELSE 1]
    BY DEF PlanInv
  <2>2. ASSUME phase = "scanning", filter # NoNode, NEW n \in Under(tree, filter)
        PROVE  freed[n] = 0
    <3>1. Clause(clause) /\ Planned /\ ~Over
      BY <2>2 DEF PlanInv, Over
    <3>2. filter = root /\ n \in Under(tree, root) /\ n \in DOMAIN clause
      BY <2>2, <3>1, PlannedTree DEF TreeOf
    <3> QED BY <2>1, <3>1, <3>2
  <2>3. ASSUME phase = "released", NEW n \in DOMAIN clause PROVE freed[n] = 1
    BY <2>1, <2>3 DEF Over
  <2> QED BY <2>2, <2>3 DEF NodesFreedOnce
<1> QED BY <1>1, PlanAlways, PTL

(* The ranges of a plan are disjoint and hold exactly the keys that meet   *)
(* the conditions taken from the clause.                                   *)
THEOREM RangesStayExact == Spec => []RangesExact
<1>1. PlanInv => RangesExact
  <2>1. SUFFICES ASSUME PlanInv, phase = "scanning", NEW i \in DOMAIN list
                 PROVE  Cardinality({r \in DOMAIN ranges : InRange(list[i].key, ranges[r])}) =
                            IF \A n \in DOMAIN clause :
                                   clause[n].type = "PRED" /\ tree[n].passthru
                                       => MeetsCondition(clause[n].cond, list[i].key)
                            THEN 1 ELSE 0
    BY DEF RangesExact
  <2>2. Clause(clause) /\ Listing(list) /\ Planned
    BY <2>1 DEF PlanInv
  <2>3. PICK key \in Tuples : key = list[i].key
    BY <2>1, <2>2, ListKeys
  <2>4. PICK T : T = Taken(clause, 1)
    OBVIOUS
  <2>5. /\ IsPlan(clause, T, NumProps) /\ Bound(clause, ToSet(T))
        /\ T # <<>> /\ ranges = Ranges(ScanKeys(clause, T))
    BY <2>2, <2>4, TakenBinds DEF Planned
  <2>6. PICK S : S = {r \in DOMAIN ranges : InRange(key, ranges[r])}
    OBVIOUS
  <2>7. /\ TakenMet(clause, T, key) <=> S # {}
        /\ \A r, s \in S : r = s
    <3>1. /\ TakenMet(clause, T, key) <=> \E r \in DOMAIN ranges : InRange(key, ranges[r])
          /\ \A r, s \in DOMAIN ranges :
                 InRange(key, ranges[r]) /\ InRange(key, ranges[s]) => r = s
      BY <2>2, <2>5, PlanExact
    <3> QED BY <2>6, <3>1
  <2>8. TakenMet(clause, T, key) <=>
            \A n \in DOMAIN clause : clause[n].type = "PRED" /\ tree[n].passthru
                                         => MeetsCondition(clause[n].cond, key)
    <3>1. TakenMet(clause, T, key) <=> AllMet(clause, ToSet(T), key)
      BY <2>2, <2>5, PlanBinds
    <3>2. \A n \in DOMAIN clause :
              clause[n].type = "PRED" => (tree[n].passthru <=> n \in ToSet(T))
      BY <2>2, <2>4, PlannedTree DEF TreeOf
    <3>3. \A n \in ToSet(T) : n \in DOMAIN clause /\ clause[n].type = "PRED"
      BY <2>2, <2>5 DEF Bound, Clause
    <3> QED BY <3>1, <3>2, <3>3 DEF AllMet
  <2>9. CASE S = {}
    <3>1. Cardinality(S) = 0
      BY <2>9, FS_EmptySet
    <3> QED BY <2>3, <2>6, <2>7, <2>8, <2>9, <3>1
  <2>10. CASE S # {}
    <3>1. PICK r : S = {r}
      BY <2>7, <2>10
    <3>2. Cardinality(S) = 1
      BY <3>1, FS_Singleton
    <3> QED BY <2>3, <2>6, <2>7, <2>8, <2>10, <3>2
  <2> QED BY <2>9, <2>10
<1> QED BY <1>1, PlanAlways, PTL

-----------------------------------------------------------------------------
(* The cursor stands on a value of the range it scans, or at its end. *)
Placed(l, R, c) ==
    /\ c \in [range : 1..(Len(R) + 1), node : 0..Len(l), val : Nat \ {0}]
    /\ c.node # 0 => /\ c.range \in DOMAIN R /\ c.node \in DOMAIN l
                     /\ c.val \in DOMAIN l[c.node].vals /\ In(l, R[c.range], c.node)

CursorInv ==
    /\ Placed(list, ranges, at)
    /\ phase = "parsed" => got = <<>>
    /\ phase = "scanning" => at.range \in DOMAIN ranges
    /\ phase = "done" => at.range = Len(ranges) + 1

(* What a scan is to return: each value, of a node in a range, that passes *)
(* the filter; what a cursor has behind it.                                *)
Passing(i) == filter # NoNode => EvalKey(tree, filter, list[i].key)
Hits == {h \in (DOMAIN ranges) \X (DOMAIN list) \X Nat :
            /\ h[3] \in DOMAIN list[h[2]].vals
            /\ In(list, ranges[h[1]], h[2]) /\ Passing(h[2])}

Behind(c, h) ==
    \/ h[1] < c.range
    \/ /\ h[1] = c.range
       /\ c.node = 0 \/ h[2] < c.node \/ (h[2] = c.node /\ h[3] < c.val)

Here(c) == <<c.range, c.node, c.val>>

AllRanges(R) ==
    Len(R) \in Nat /\ DOMAIN R = 1..Len(R) /\ \A r \in DOMAIN R : IsRange(R[r])
Started(l, R, k, c) ==
    /\ Placed(l, R, c) /\ c.range = k /\ c.val = 1
    /\ k \in DOMAIN R => Starts(l, R[k], c.node)
    /\ k \notin DOMAIN R => c.node = 0

LEMMA StartPlaced ==
    ASSUME Listing(list), NEW R, AllRanges(R), NEW k \in 1..(Len(R) + 1)
    PROVE  Started(list, R, k, Start(k, R))
<1>0. PICK c : c = Start(k, R)
  OBVIOUS
<1>5. Len(R) \in Nat /\ DOMAIN R = 1..Len(R) /\ \A r \in DOMAIN R : IsRange(R[r])
  BY DEF AllRanges
<1>1. /\ Len(list) \in Nat /\ DOMAIN list = 1..Len(list)
      /\ \A i \in DOMAIN list : Len(list[i].vals) \in Nat \ {0} /\ DOMAIN list[i].vals = 1..Len(list[i].vals)
  BY ListKeys
<1>2. c.range = k /\ c.val = 1
      /\ c = [range |-> k, val |-> 1, node |-> c.node]
  BY <1>0 DEF Start
<1>3. CASE k \notin DOMAIN R
  <2>1. c.node = 0
    BY <1>0, <1>3 DEF Start
  <2> QED BY <1>0, <1>1, <1>2, <1>3, <1>5, <2>1 DEF Placed, Started
<1>4. CASE k \in DOMAIN R
  <2>1. c.node = Clipped(R[k], FirstOf(R[k]))
    BY <1>0, <1>4 DEF Start
  <2>2. Starts(list, R[k], c.node)
    BY <1>4, <1>5, <2>1, StartExact
  <2>3. c.node = 0 \/ (c.node \in DOMAIN list /\ In(list, R[k], c.node))
    BY <2>2 DEF Starts
  <2>4. c.node \in 0..Len(list)
    BY <1>1, <2>3
  <2>5. c \in [range : 1..(Len(R) + 1), node : 0..Len(list), val : Nat \ {0}]
    BY <1>2, <1>5, <2>4
  <2>6. c.node # 0 => c.val \in DOMAIN list[c.node].vals
    BY <1>1, <1>2, <2>3
  <2> QED BY <1>0, <1>2, <1>4, <2>2, <2>3, <2>5, <2>6 DEF Placed, Started
<1> QED BY <1>3, <1>4

(* A turn of the iterator leaves one value behind, and the next range      *)
(* begins where none of its values is missed.                              *)
LEMMA AdvancedMoves ==
    ASSUME PlanInv, CursorInv, Planned, at.node # 0, NEW c, c = Advanced
    PROVE  /\ Placed(list, ranges, c) /\ c.range = at.range
           /\ \A h \in Hits : Behind(c, h) <=> Behind(at, h) \/ h = Here(at)
<1>1. /\ Clause(clause) /\ Listing(list)
      /\ Len(ranges) \in Nat \ {0} /\ DOMAIN ranges = 1..Len(ranges)
      /\ \A r \in DOMAIN ranges : IsRange(ranges[r])
  BY PlannedTree DEF PlanInv
<1>2. /\ Len(list) \in Nat /\ DOMAIN list = 1..Len(list)
      /\ \A i \in DOMAIN list : Len(list[i].vals) \in Nat \ {0} /\ DOMAIN list[i].vals = 1..Len(list[i].vals)
  BY <1>1, ListKeys
<1>3. PICK r \in DOMAIN ranges, k \in DOMAIN list, v \in Nat \ {0} :
          /\ at = [range |-> r, node |-> k, val |-> v]
          /\ v \in DOMAIN list[k].vals /\ In(list, ranges[r], k)
  <2>1. at \in [range : 1..(Len(ranges) + 1), node : 0..Len(list), val : Nat \ {0}]
    BY DEF CursorInv, Placed
  <2>2. /\ at.range \in DOMAIN ranges /\ at.node \in DOMAIN list
        /\ at.val \in DOMAIN list[at.node].vals /\ In(list, ranges[at.range], at.node)
    BY DEF CursorInv, Placed
  <2>3. at = [range |-> at.range, node |-> at.node, val |-> at.val] /\ at.val \in Nat \ {0}
    BY <2>1
  <2> QED BY <2>2, <2>3
<1>4. /\ at.range = r /\ at.node = k /\ at.val = v
      /\ r \in Nat /\ k \in Nat /\ k # 0 /\ v \in Nat
  BY <1>1, <1>2, <1>3
<1>5. \A h \in Hits : /\ h = <<h[1], h[2], h[3]>> /\ h[1] \in Nat /\ h[2] \in Nat /\ h[3] \in Nat
                      /\ h[1] \in DOMAIN ranges /\ h[2] \in DOMAIN list
                      /\ h[3] \in DOMAIN list[h[2]].vals /\ In(list, ranges[h[1]], h[2])
  BY <1>1, <1>2 DEF Hits
<1>6. CASE v < Len(list[k].vals)
  <2>1. c = [range |-> r, node |-> k, val |-> v + 1]
    BY <1>3, <1>4, <1>6 DEF Advanced
  <2>2. c.range = r /\ c.node = k /\ c.val = v + 1 /\ v + 1 \in DOMAIN list[k].vals
    BY <1>2, <1>3, <1>4, <1>6, <2>1
  <2>3. c \in [range : 1..(Len(ranges) + 1), node : 0..Len(list), val : Nat \ {0}]
    BY <1>1, <1>2, <1>4, <2>1
  <2>4. Placed(list, ranges, c)
    BY <1>3, <2>2, <2>3 DEF Placed
  <2>5. ASSUME NEW h \in Hits PROVE Behind(c, h) <=> Behind(at, h) \/ h = Here(at)
    <3>1. h = Here(at) <=> h[1] = r /\ h[2] = k /\ h[3] = v
      BY <1>4, <1>5 DEF Here
    <3>2. Behind(at, h) <=> h[1] < r \/ (h[1] = r /\ (h[2] < k \/ (h[2] = k /\ h[3] < v)))
      BY <1>4 DEF Behind
    <3>3. Behind(c, h) <=> h[1] < r \/ (h[1] = r /\ (h[2] < k \/ (h[2] = k /\ h[3] < v + 1)))
      BY <1>4, <2>2 DEF Behind
    <3>4. h[1] \in Nat /\ h[2] \in Nat /\ h[3] \in Nat
      BY <1>5
    <3> QED BY <1>4, <3>1, <3>2, <3>3, <3>4
  <2> QED BY <1>4, <2>2, <2>4, <2>5
<1>7. CASE ~(v < Len(list[k].vals))
  <2> DEFINE f == Clipped(ranges[r], k + 1)
  <2>0. v = Len(list[k].vals)
    BY <1>2, <1>3, <1>7
  <2>1. c = [range |-> r, node |-> f, val |-> 1]
    BY <1>3, <1>4, <1>7 DEF Advanced
  <2>2. Follows(list, ranges[r], k, f)
    BY <1>1, <1>3, StartExact
  <2> HIDE DEF f
  <2>3. c.range = r /\ c.node = f /\ c.val = 1
    BY <2>1
  <2>4. f = 0 \/ (f = k + 1 /\ f \in DOMAIN list /\ In(list, ranges[r], f))
    BY <2>2 DEF Follows
  <2>5. f \in 0..Len(list)
    BY <1>2, <2>4
  <2>6. c \in [range : 1..(Len(ranges) + 1), node : 0..Len(list), val : Nat \ {0}]
    BY <1>1, <1>4, <2>1, <2>5
  <2>7. f # 0 => 1 \in DOMAIN list[f].vals
    BY <1>2, <2>4
  <2>8. Placed(list, ranges, c)
    BY <1>3, <2>3, <2>4, <2>6, <2>7 DEF Placed
  <2>9. ASSUME NEW h \in Hits PROVE Behind(c, h) <=> Behind(at, h) \/ h = Here(at)
    <3>1. h = Here(at) <=> h[1] = r /\ h[2] = k /\ h[3] = v
      BY <1>4, <1>5 DEF Here
    <3>2. Behind(at, h) <=> h[1] < r \/ (h[1] = r /\ (h[2] < k \/ (h[2] = k /\ h[3] < v)))
      BY <1>4 DEF Behind
    <3>3. Behind(c, h) <=> h[1] < r \/ (h[1] = r /\ (f = 0 \/ h[2] < f \/ (h[2] = f /\ h[3] < 1)))
      BY <2>3 DEF Behind
    <3>4. /\ h[1] \in Nat /\ h[2] \in Nat /\ h[3] \in Nat /\ h[2] \in DOMAIN list
          /\ h[3] \in DOMAIN list[h[2]].vals /\ In(list, ranges[h[1]], h[2])
      BY <1>5
    <3>5. h[3] >= 1 /\ (h[2] = k => h[3] <= v)
      BY <1>2, <2>0, <3>4
    <3>6. h[1] = r /\ f = 0 => ~(h[2] > k)
      BY <2>2, <3>4 DEF Follows
    <3>7. h[1] = r => (Behind(c, h) <=> h[2] < k + 1)
      <4>1. CASE f = 0
        BY <1>4, <3>3, <3>4, <3>6, <4>1
      <4>2. CASE f # 0
        BY <1>4, <2>4, <3>3, <3>4, <3>5, <4>2
      <4> QED BY <4>1, <4>2
    <3>8. CASE h[1] = r
      BY <1>4, <3>1, <3>2, <3>4, <3>5, <3>7, <3>8
    <3>9. CASE h[1] # r
      BY <3>1, <3>2, <3>3, <3>9
    <3> QED BY <3>8, <3>9
  <2> QED BY <1>4, <2>3, <2>8, <2>9
<1> QED BY <1>6, <1>7

LEMMA NextMoves ==
    ASSUME PlanInv, CursorInv, Planned, at.node = 0, at.range \in DOMAIN ranges,
           NEW c, c = Start(at.range + 1, ranges)
    PROVE  /\ Placed(list, ranges, c) /\ c.range = at.range + 1
           /\ \A h \in Hits : Behind(c, h) <=> Behind(at, h)
<1>1. /\ Clause(clause) /\ Listing(list)
      /\ Len(ranges) \in Nat \ {0} /\ DOMAIN ranges = 1..Len(ranges)
      /\ \A r \in DOMAIN ranges : IsRange(ranges[r])
  BY PlannedTree DEF PlanInv
<1>2. /\ Len(list) \in Nat /\ DOMAIN list = 1..Len(list)
      /\ \A i \in DOMAIN list : Len(list[i].vals) \in Nat \ {0} /\ DOMAIN list[i].vals = 1..Len(list[i].vals)
  BY <1>1, ListKeys
<1>3. PICK r \in Nat : r = at.range /\ r \in DOMAIN ranges /\ r + 1 \in 1..(Len(ranges) + 1)
  BY <1>1
<1>4. /\ Placed(list, ranges, c) /\ c.range = r + 1 /\ c.val = 1
      /\ r + 1 \in DOMAIN ranges => Starts(list, ranges[r + 1], c.node)
  <2>1. PICK k \in 1..(Len(ranges) + 1) : k = r + 1 /\ c = Start(k, ranges)
    BY <1>3
  <2>2. AllRanges(ranges)
    BY <1>1 DEF AllRanges
  <2>3. Started(list, ranges, k, c)
    BY <1>1, <2>1, <2>2, StartPlaced
  <2> QED BY <2>1, <2>3 DEF Started
<1>5. ASSUME NEW h \in Hits PROVE Behind(c, h) <=> Behind(at, h)
  <2>1. /\ h[1] \in Nat /\ h[2] \in Nat /\ h[3] \in Nat /\ h[1] \in DOMAIN ranges
        /\ h[2] \in DOMAIN list /\ h[3] >= 1 /\ In(list, ranges[h[1]], h[2])
    <3>1. /\ h[1] \in DOMAIN ranges /\ h[2] \in DOMAIN list /\ h[3] \in Nat
          /\ h[3] \in DOMAIN list[h[2]].vals /\ In(list, ranges[h[1]], h[2])
      BY DEF Hits
    <3> QED BY <1>1, <1>2, <3>1
  <2>2. Behind(at, h) <=> h[1] < r \/ h[1] = r
    BY <1>3 DEF Behind
  <2>3. h[1] = r + 1 => ~(c.node = 0 \/ h[2] < c.node)
    BY <1>4, <2>1 DEF Starts
  <2>4. Behind(c, h) <=> \/ h[1] < r + 1
                         \/ h[1] = r + 1 /\ (c.node = 0 \/ h[2] < c.node \/ (h[2] = c.node /\ h[3] < 1))
    BY <1>4 DEF Behind
  <2> QED BY <2>1, <2>2, <2>3, <2>4
<1> QED BY <1>3, <1>4, <1>5

-----------------------------------------------------------------------------
(* What has been returned: the values of the hits behind the cursor, each  *)
(* once and in the order of the scan.                                      *)
Precedes(h, g) ==
    h[1] < g[1] \/ (h[1] = g[1] /\ (h[2] < g[2] \/ (h[2] = g[2] /\ h[3] < g[3])))

Traced(s, H, l, c, pos) ==
    /\ \A x \in DOMAIN s : /\ pos[x] \in H /\ Behind(c, pos[x])
                           /\ s[x] = l[pos[x][2]].vals[pos[x][3]]
    /\ \A x, y \in DOMAIN s : x < y => Precedes(pos[x], pos[y])
    /\ \A h \in H : Behind(c, h) => \E x \in DOMAIN s : pos[x] = h

Ids(l) == UNION {ToSet(l[i].vals) : i \in DOMAIN l}

GotInv ==
    phase \in {"scanning", "done"} =>
        got \in Seq(Ids(list)) /\ \E pos : Traced(got, Hits, list, at, pos)

LEMMA TraceSame ==
    ASSUME NEW s, NEW H, NEW l, NEW c, NEW d, NEW pos, Traced(s, H, l, c, pos),
           \A h \in H : Behind(d, h) <=> Behind(c, h)
    PROVE  Traced(s, H, l, d, pos)
BY DEF Traced

Grown(t, s, v, S) ==
    /\ t \in Seq(S) /\ Len(s) \in Nat /\ DOMAIN s = 1..Len(s)
    /\ DOMAIN t = 1..(Len(s) + 1) /\ t[Len(s) + 1] = v
    /\ \A x \in 1..Len(s) : t[x] = s[x]

LEMMA Appended ==
    ASSUME NEW S, NEW s \in Seq(S), NEW v \in S
    PROVE  Grown(Append(s, v), s, v, S)
BY DEF Grown

ValueAt(l, c, v) == v = l[c.node].vals[c.val]

LEMMA TraceMore ==
    ASSUME NEW S, NEW s, NEW t, NEW v, Grown(t, s, v, S),
           NEW H, NEW l, NEW c, NEW d, NEW pos, Traced(s, H, l, c, pos),
           c.range \in Nat, c.node \in Nat \ {0}, c.val \in Nat, Here(c) \in H,
           \A h \in H : h[1] \in Nat /\ h[2] \in Nat /\ h[3] \in Nat,
           \A h \in H : Behind(d, h) <=> Behind(c, h) \/ h = Here(c),
           ValueAt(l, c, v)
    PROVE  \E p : Traced(t, H, l, d, p)
<1>0. PICK L : L = Len(s)
  OBVIOUS
<1>1. L \in Nat /\ DOMAIN s = 1..L
  BY <1>0 DEF Grown
<1>2. DOMAIN t = 1..(L + 1) /\ t[L + 1] = v /\ \A x \in 1..L : t[x] = s[x]
  BY <1>0 DEF Grown
<1> DEFINE p == [x \in 1..(L + 1) |-> IF x = L + 1 THEN Here(c) ELSE pos[x]]
<1>3. p[L + 1] = Here(c) /\ \A x \in 1..L : p[x] = pos[x]
  <2>1. L + 1 \in 1..(L + 1) /\ \A x \in 1..L : x \in 1..(L + 1) /\ x # L + 1
    BY <1>1
  <2> QED BY <2>1
<1> HIDE DEF p
<1>4. \A x \in 1..(L + 1) : x \in 1..L \/ x = L + 1
  BY <1>1
<1>5. Here(c)[1] = c.range /\ Here(c)[2] = c.node /\ Here(c)[3] = c.val
  BY DEF Here
<1>6. ASSUME NEW x \in DOMAIN t
      PROVE  p[x] \in H /\ Behind(d, p[x]) /\ t[x] = l[p[x][2]].vals[p[x][3]]
  <2>1. CASE x = L + 1
    BY <1>2, <1>3, <1>5, <2>1 DEF ValueAt
  <2>2. CASE x \in 1..L
    <3>1. pos[x] \in H /\ Behind(c, pos[x]) /\ s[x] = l[pos[x][2]].vals[pos[x][3]]
      BY <1>1, <2>2 DEF Traced
    <3> QED BY <1>2, <1>3, <2>2, <3>1
  <2> QED BY <1>2, <1>4, <2>1, <2>2
<1>7. ASSUME NEW x \in DOMAIN t, NEW y \in DOMAIN t, x < y
      PROVE  Precedes(p[x], p[y])
  <2>1. x \in 1..L
    BY <1>1, <1>2, <1>7
  <2>2. CASE y = L + 1
    <3>1. pos[x] \in H /\ Behind(c, pos[x])
      BY <1>1, <2>1 DEF Traced
    <3>2. Precedes(pos[x], Here(c))
      BY <1>5, <3>1 DEF Behind, Precedes
    <3> QED BY <1>3, <2>1, <2>2, <3>2
  <2>3. CASE y \in 1..L
    <3>1. Precedes(pos[x], pos[y])
      BY <1>1, <1>7, <2>1, <2>3 DEF Traced
    <3> QED BY <1>3, <2>1, <2>3, <3>1
  <2> QED BY <1>2, <1>4, <2>2, <2>3
<1>8. ASSUME NEW h \in H, Behind(d, h) PROVE \E x \in DOMAIN t : p[x] = h
  <2>1. CASE h = Here(c)
    <3>1. L + 1 \in DOMAIN t
      BY <1>1, <1>2
    <3> QED BY <1>3, <2>1, <3>1
  <2>2. CASE Behind(c, h)
    <3>1. PICK x \in 1..L : pos[x] = h
      BY <1>1, <2>2 DEF Traced
    <3>2. x \in DOMAIN t
      BY <1>1, <1>2
    <3> QED BY <1>3, <3>1, <3>2
  <2> QED BY <1>8, <2>1, <2>2
<1>9. Traced(t, H, l, d, p)
  BY <1>6, <1>7, <1>8 DEF Traced
<1> QED BY <1>9

-----------------------------------------------------------------------------
QueryInv == PlanInv /\ CursorInv /\ GotInv

LEMMA QueryInit == Init => QueryInv
<1> SUFFICES ASSUME Init PROVE QueryInv
  OBVIOUS
<1>1. PlanInv
  BY PlanInit
<1>2. Len(list) \in Nat
  BY <1>1, ListKeys DEF PlanInv
<1>3. /\ ranges = <<>> /\ at = [range |-> 1, node |-> 0, val |-> 1] /\ got = <<>>
      /\ phase = "parsed"
  BY DEF Init
<1>4. at.node = 0 /\ at \in [range : 1..(Len(ranges) + 1), node : 0..Len(list), val : Nat \ {0}]
  BY <1>2, <1>3
<1>5. CursorInv
  BY <1>3, <1>4 DEF CursorInv, Placed
<1>6. GotInv
  BY <1>3 DEF GotInv
<1> QED BY <1>1, <1>5, <1>6 DEF QueryInv

LEMMA PlanRanges ==
    ASSUME NEW q, Clause(q), Taken(q, 1) # <<>>,
           NEW R, R = Ranges(ScanKeys(q, Taken(q, 1)))
    PROVE  AllRanges(R) /\ 1 \in DOMAIN R
<1>1. PICK T : T = Taken(q, 1)
  OBVIOUS
<1>2. IsPlan(q, T, NumProps)
  BY <1>1, TakenBinds
<1>3. /\ Len(R) \in Nat \ {0} /\ DOMAIN R = 1..Len(R)
      /\ \A r \in DOMAIN R : IsRange(R[r])
  BY <1>1, <1>2, RangesUsable
<1> QED BY <1>3 DEF AllRanges

LEMMA FindStarts ==
    ASSUME QueryInv, Find
    PROVE  CursorInv' /\ GotInv'
<1>1. /\ PlanInv' /\ phase = "parsed" /\ phase' = "scanning" /\ list' = list /\ clause' = clause
      /\ got' = got /\ at' = Start(1, ranges')
  BY FindPlans DEF QueryInv, Find
<1>2. got = <<>> /\ Listing(list)
  BY <1>1 DEF QueryInv, CursorInv, PlanInv
<1>3. Clause(clause') /\ Planned'
  BY <1>1 DEF PlanInv
<1>4. AllRanges(ranges') /\ 1 \in DOMAIN ranges'
  <2>1. Taken(clause', 1) # <<>> /\ ranges' = Ranges(ScanKeys(clause', Taken(clause', 1)))
    BY <1>3 DEF Planned
  <2> QED BY <1>3, <2>1, PlanRanges
<1>5. PICK c : c = at' /\ Started(list, ranges', 1, c)
  <2>1. 1 \in 1..(Len(ranges') + 1)
    BY <1>4 DEF AllRanges
  <2> QED BY <1>1, <1>2, <1>4, <2>1, StartPlaced
<1>6. Placed(list', ranges', at') /\ c.range = 1 /\ c.val = 1 /\ Starts(list, ranges'[1], c.node)
  BY <1>1, <1>4, <1>5 DEF Started
<1>7. CursorInv'
  BY <1>1, <1>4, <1>5, <1>6 DEF CursorInv
<1>8. ASSUME NEW h \in Hits' PROVE ~Behind(c, h)
  <2>1. /\ h[1] \in DOMAIN ranges' /\ h[2] \in DOMAIN list /\ h[3] \in DOMAIN list[h[2]].vals
        /\ In(list, ranges'[h[1]], h[2])
    BY <1>1 DEF Hits
  <2>2. h[1] >= 1 /\ h[2] \in Nat /\ h[3] >= 1 /\ h[1] \in Nat /\ h[3] \in Nat
    BY <1>2, <1>4, <2>1, ListKeys DEF AllRanges
  <2>3. h[1] = 1 => ~(c.node = 0 \/ h[2] < c.node)
    BY <1>6, <2>1 DEF Starts
  <2> QED BY <1>6, <2>2, <2>3 DEF Behind
<1>9. Traced(<<>>, Hits', list', at', <<>>)
  BY <1>5, <1>8 DEF Traced
<1>10. got' = <<>> /\ got' \in Seq(Ids(list'))
  BY <1>1, <1>2
<1>11. GotInv'
  BY <1>9, <1>10 DEF GotInv
<1> QED BY <1>7, <1>11

LEMMA HitsStay ==
    ASSUME tree' = tree, filter' = filter, list' = list, ranges' = ranges
    PROVE  Hits' = Hits
BY DEF Hits, Passing

LEMMA HitNumbers ==
    ASSUME PlanInv, Planned
    PROVE  \A h \in Hits : /\ h = <<h[1], h[2], h[3]>>
                           /\ h[1] \in Nat /\ h[2] \in Nat /\ h[3] \in Nat
                           /\ h[1] \in DOMAIN ranges /\ h[2] \in DOMAIN list
                           /\ h[3] \in DOMAIN list[h[2]].vals
<1>1. DOMAIN ranges = 1..Len(ranges) /\ Listing(list)
  BY PlannedTree DEF PlanInv
<1>2. DOMAIN list = 1..Len(list)
  BY <1>1, ListKeys
<1> QED BY <1>1, <1>2 DEF Hits

(* The cursor moved on without a value, or with one. *)
LEMMA MovesOn ==
    ASSUME QueryInv, phase = "scanning", list' = list, ranges' = ranges, tree' = tree,
           filter' = filter, phase' \in {"scanning", "done"}, got' = got,
           \A h \in Hits : Behind(at', h) <=> Behind(at, h)
    PROVE  GotInv'
<1>1. got \in Seq(Ids(list)) /\ \E pos : Traced(got, Hits, list, at, pos)
  BY DEF QueryInv, GotInv
<1>2. PICK pos : Traced(got, Hits, list, at, pos)
  BY <1>1
<1>3. PICK H : H = Hits
  OBVIOUS
<1>4. PICK c : c = at
  OBVIOUS
<1>5. PICK d : d = at'
  OBVIOUS
<1>6. PICK s, l : s = got /\ l = list
  OBVIOUS
<1>7. Traced(s, H, l, c, pos)
  BY <1>2, <1>3, <1>4, <1>6
<1>8. \A h \in H : Behind(d, h) <=> Behind(c, h)
  BY <1>3, <1>4, <1>5
<1>9. Traced(s, H, l, d, pos)
  BY <1>7, <1>8, TraceSame
<1>10. Hits' = H
  BY <1>3, HitsStay
<1>11. Traced(got', Hits', list', at', pos)
  BY <1>5, <1>6, <1>9, <1>10
<1> QED BY <1>1, <1>11 DEF GotInv

LEMMA ReturnKeeps ==
    ASSUME QueryInv, Planned, Return
    PROVE  GotInv'
<1>1. /\ phase = "scanning" /\ phase' = "scanning" /\ at.node # 0 /\ Passes
      /\ got' = Append(got, list[at.node].vals[at.val]) /\ at' = Advanced
      /\ list' = list /\ ranges' = ranges /\ tree' = tree /\ filter' = filter
  BY DEF Return
<1>2. PlanInv /\ CursorInv
  BY DEF QueryInv
<1>3. PICK d : d = at' /\ \A h \in Hits : Behind(d, h) <=> Behind(at, h) \/ h = Here(at)
  <2>1. PICK d : d = Advanced
    OBVIOUS
  <2>2. \A h \in Hits : Behind(d, h) <=> Behind(at, h) \/ h = Here(at)
    BY <1>1, <1>2, <2>1, AdvancedMoves
  <2> QED BY <1>1, <2>1, <2>2
<1>4. got \in Seq(Ids(list)) /\ \E pos : Traced(got, Hits, list, at, pos)
  BY <1>1 DEF QueryInv, GotInv
<1>5. PICK pos : Traced(got, Hits, list, at, pos)
  BY <1>4
<1>6. PICK H : H = Hits
  OBVIOUS
<1>7. PICK c : c = at
  OBVIOUS
<1>8. PICK s, l : s = got /\ l = list
  OBVIOUS
<1>9. /\ c.range \in DOMAIN ranges /\ c.node \in DOMAIN l /\ c.val \in DOMAIN l[c.node].vals
      /\ In(l, ranges[c.range], c.node) /\ c.val \in Nat
  BY <1>1, <1>2, <1>7, <1>8 DEF CursorInv, Placed
<1>10. c.range \in Nat /\ c.node \in Nat \ {0}
  <2>1. DOMAIN ranges = 1..Len(ranges) /\ Listing(list)
    BY <1>2, PlannedTree DEF PlanInv
  <2>2. DOMAIN list = 1..Len(list)
    BY <2>1, ListKeys
  <2> QED BY <1>8, <1>9, <2>1, <2>2
<1>11. Here(c) \in H
  BY <1>1, <1>6, <1>7, <1>8, <1>9 DEF Hits, Here, Passing, Passes
<1>12. \A h \in H : h[1] \in Nat /\ h[2] \in Nat /\ h[3] \in Nat
  BY <1>2, <1>6, HitNumbers
<1>13. \A h \in H : Behind(d, h) <=> Behind(c, h) \/ h = Here(c)
  BY <1>3, <1>6, <1>7
<1>14. PICK v : v = l[c.node].vals[c.val]
  OBVIOUS
<1>15. v \in Ids(l)
  <2>1. v \in ToSet(l[c.node].vals)
    BY <1>9, <1>14 DEF ToSet
  <2> QED BY <1>9, <2>1 DEF Ids
<1>16. PICK t : t = got' /\ Grown(t, s, v, Ids(l))
  <2>1. s \in Seq(Ids(l))
    BY <1>4, <1>8
  <2>2. Grown(Append(s, v), s, v, Ids(l))
    BY <1>15, <2>1, Appended
  <2> QED BY <1>1, <1>7, <1>8, <1>14, <2>2
<1>17. ValueAt(l, c, v) /\ Traced(s, H, l, c, pos)
  BY <1>5, <1>6, <1>7, <1>8, <1>14 DEF ValueAt
<1>18. PICK p : Traced(t, H, l, d, p)
  BY <1>9, <1>10, <1>11, <1>12, <1>13, <1>16, <1>17, TraceMore
<1>19. Hits' = H
  BY <1>1, <1>6, HitsStay
<1>20. Traced(got', Hits', list', at', p)
  BY <1>1, <1>3, <1>8, <1>16, <1>18, <1>19
<1>21. got' \in Seq(Ids(list'))
  BY <1>1, <1>8, <1>16 DEF Grown
<1> QED BY <1>20, <1>21 DEF GotInv

LEMMA SkipKeeps ==
    ASSUME QueryInv, Planned, Skip
    PROVE  GotInv'
<1>1. /\ phase = "scanning" /\ phase' = "scanning" /\ at.node # 0 /\ ~Passes
      /\ got' = got /\ at' = Advanced
      /\ list' = list /\ ranges' = ranges /\ tree' = tree /\ filter' = filter
  BY DEF Skip
<1>2. PlanInv /\ CursorInv
  BY DEF QueryInv
<1>3. PICK d : d = at' /\ \A h \in Hits : Behind(d, h) <=> Behind(at, h) \/ h = Here(at)
  <2>1. PICK d : d = Advanced
    OBVIOUS
  <2>2. \A h \in Hits : Behind(d, h) <=> Behind(at, h) \/ h = Here(at)
    BY <1>1, <1>2, <2>1, AdvancedMoves
  <2> QED BY <1>1, <2>1, <2>2
<1>4. Here(at) \notin Hits
  <2>1. ~Passing(at.node)
    BY <1>1 DEF Passes, Passing
  <2> QED BY <2>1 DEF Hits, Here
<1>5. \A h \in Hits : Behind(at', h) <=> Behind(at, h)
  BY <1>3, <1>4
<1> QED BY <1>1, <1>5, MovesOn

LEMMA NextRangeKeeps ==
    ASSUME QueryInv, Planned, NextRange
    PROVE  CursorInv' /\ GotInv'
<1>1. /\ phase = "scanning" /\ at.node = 0 /\ got' = got /\ at' = Start(at.range + 1, ranges)
      /\ phase' = IF at.range + 1 \in DOMAIN ranges THEN "scanning" ELSE "done"
      /\ list' = list /\ ranges' = ranges /\ tree' = tree /\ filter' = filter
  BY DEF NextRange
<1>2. PlanInv /\ CursorInv /\ at.range \in DOMAIN ranges
  BY <1>1 DEF QueryInv, CursorInv
<1>3. PICK d : /\ d = at' /\ Placed(list, ranges, d) /\ d.range = at.range + 1
               /\ \A h \in Hits : Behind(d, h) <=> Behind(at, h)
  <2>1. PICK d : d = Start(at.range + 1, ranges)
    OBVIOUS
  <2>2. /\ Placed(list, ranges, d) /\ d.range = at.range + 1
        /\ \A h \in Hits : Behind(d, h) <=> Behind(at, h)
    BY <1>1, <1>2, <2>1, NextMoves
  <2> QED BY <1>1, <2>1, <2>2
<1>4. \A h \in Hits : Behind(at', h) <=> Behind(at, h)
  BY <1>3
<1>5. phase' \in {"scanning", "done"}
  BY <1>1
<1>6. GotInv'
  BY <1>1, <1>4, <1>5, MovesOn
<1>7. at.range + 1 \notin DOMAIN ranges => at.range + 1 = Len(ranges) + 1
  <2>1. DOMAIN ranges = 1..Len(ranges) /\ Len(ranges) \in Nat
    BY <1>2, PlannedTree
  <2> QED BY <1>2, <2>1
<1>8. Placed(list', ranges', at')
  BY <1>1, <1>3
<1>9. CursorInv'
  BY <1>1, <1>3, <1>7, <1>8 DEF CursorInv
<1> QED BY <1>6, <1>9

LEMMA AdvancedKeeps ==
    ASSUME QueryInv, Planned, Return \/ Skip
    PROVE  CursorInv'
<1>1. /\ phase = "scanning" /\ phase' = "scanning" /\ at.node # 0 /\ at' = Advanced
      /\ list' = list /\ ranges' = ranges
  BY DEF Return, Skip
<1>2. PlanInv /\ CursorInv /\ at.range \in DOMAIN ranges
  BY <1>1 DEF QueryInv, CursorInv
<1>3. PICK d : d = at' /\ Placed(list, ranges, d) /\ d.range = at.range
  <2>1. PICK d : d = Advanced
    OBVIOUS
  <2>2. Placed(list, ranges, d) /\ d.range = at.range
    BY <1>1, <1>2, <2>1, AdvancedMoves
  <2> QED BY <1>1, <2>1, <2>2
<1> QED BY <1>1, <1>2, <1>3 DEF CursorInv

LEMMA QueryStep == QueryInv /\ [Next]_vars => QueryInv'
<1> SUFFICES ASSUME QueryInv, [Next]_vars PROVE QueryInv'
  OBVIOUS
<1>1. PlanInv' /\ PlanInv
  BY PlanStep DEF QueryInv
<1>2. phase = "scanning" => Planned
  BY <1>1 DEF PlanInv
<1>3. CASE Find
  BY <1>1, <1>3, FindStarts DEF QueryInv
<1>4. CASE Refuse
  BY <1>1, <1>4 DEF QueryInv, Refuse, CursorInv, GotInv
<1>5. CASE Return
  <2>1. Planned
    BY <1>2, <1>5 DEF Return
  <2> QED BY <1>1, <1>5, <2>1, AdvancedKeeps, ReturnKeeps DEF QueryInv
<1>6. CASE Skip
  <2>1. Planned
    BY <1>2, <1>6 DEF Skip
  <2> QED BY <1>1, <1>6, <2>1, AdvancedKeeps, SkipKeeps DEF QueryInv
<1>7. CASE NextRange
  <2>1. Planned
    BY <1>2, <1>7 DEF NextRange
  <2> QED BY <1>1, <1>7, <2>1, NextRangeKeeps DEF QueryInv
<1>8. CASE Release
  <2>1. phase' \in {"released", "crashed"} /\ ranges' = ranges /\ at' = at /\ list' = list
    BY <1>8 DEF Release
  <2> QED BY <1>1, <2>1 DEF QueryInv, CursorInv, GotInv
<1>9. CASE UNCHANGED vars
  <2>1. Hits' = Hits
    BY <1>9, HitsStay DEF vars
  <2> QED BY <1>1, <1>9, <2>1 DEF vars, QueryInv, CursorInv, GotInv
<1> QED BY <1>3, <1>4, <1>5, <1>6, <1>7, <1>8, <1>9 DEF Next

LEMMA QueryAlways == Spec => []QueryInv
BY QueryInit, QueryStep, PTL DEF Spec

-----------------------------------------------------------------------------
(* The state of a query stays of its type: the cursor is never outside the *)
(* node it stands on, the filter is a node of the tree, and no count of    *)
(* frees is lost (SI_BuildQueryPlan, scan_next, SIQuery_Free).             *)
THEOREM TypeCorrect == Spec => []TypeOK
<1>1. QueryInv => TypeOK
  <2> SUFFICES ASSUME QueryInv PROVE TypeOK
    OBVIOUS
  <2>1. Clause(clause) /\ PlanInv /\ Placed(list, ranges, at)
    BY DEF QueryInv, PlanInv, CursorInv
  <2>2. Unplanned \/ Planned
    BY <2>1 DEF PlanInv
  <2>3. /\ DOMAIN tree = DOMAIN clause /\ root \in DOMAIN tree
        /\ filter \in DOMAIN tree \cup {NoNode}
    <3>1. CASE Unplanned
      <4>1. 1 \in DOMAIN clause
        BY <2>1 DEF Clause
      <4> QED BY <3>1, <4>1 DEF Unplanned
    <3>2. CASE Planned
      BY <2>1, <3>2, PlannedTree DEF TreeOf
    <3> QED BY <2>2, <3>1, <3>2
  <2>4. /\ at \in [range : 1..(Len(ranges) + 1), node : 0..Len(list), val : Nat \ {0}]
        /\ at.node # 0 => at.range \in DOMAIN ranges /\ at.val \in DOMAIN list[at.node].vals
    BY <2>1 DEF Placed
  <2>5. freed \in [DOMAIN clause -> Nat]
    <3>1. freed = [n \in DOMAIN clause |-> IF n \in Under(tree, root) /\ ~Over THEN 0 ELSE 1]
      BY <2>1 DEF PlanInv
    <3>2. \A n : (IF n \in Under(tree, root) /\ ~Over THEN 0 ELSE 1) \in Nat
      OBVIOUS
    <3> QED BY <3>1, <3>2
  <2>6. phase \in {"parsed", "scanning", "refused", "done", "released", "crashed"}
    BY <2>1 DEF PlanInv
  <2> QED BY <2>3, <2>4, <2>5, <2>6 DEF TypeOK
<1> QED BY <1>1, QueryAlways, PTL

-----------------------------------------------------------------------------
Good == {i \in DOMAIN list : Meets(list[i].key)}

LEMMA ListVals ==
    ASSUME NEW l, Listing(l)
    PROVE  \A i \in DOMAIN l : l[i].vals \in Seq(Ids(l))
<1> DEFINE ids == UNION {ToSet(l[i].vals) : i \in DOMAIN l}
<1>1. ids = Ids(l)
  BY DEF Ids
<1> HIDE DEF ids
<1>2. l \in Seq([key : [1..NumProps -> Value], vals : Seq(ids) \ {<<>>}])
  BY DEF Listing, ids
<1>3. PICK V, K : V = Seq(ids) \ {<<>>} /\ K = [1..NumProps -> Value]
  OBVIOUS
<1>4. PICK W : W = [key : K, vals : V]
  OBVIOUS
<1>5. l \in Seq(W)
  BY <1>2, <1>3, <1>4
<1>6. \A w \in W : w.vals \in V
  BY <1>4
<1>7. \A i \in DOMAIN l : l[i] \in W
  BY <1>5
<1> QED BY <1>1, <1>3, <1>6, <1>7

(* The answer runs through the nodes whose key meets the clause. *)
LEMMA AnswerRuns ==
    ASSUME Listing(list)
    PROVE  /\ Answer \in Seq(Ids(list))
           /\ \E row, col : Runs(Answer, list, Good, row, col) /\ InOrder(Answer, row, col)
<1> DEFINE seqs == [i \in DOMAIN list |-> IF Meets(list[i].key) THEN list[i].vals ELSE <<>>]
<1>1. PICK n \in Nat : n = Len(list) /\ DOMAIN list = 1..n
  BY ListKeys
<1>2. PICK I, l, G : I = Ids(list) /\ l = list /\ G = Good
  OBVIOUS
<1>3. \A i \in 1..n : l[i].vals \in Seq(I)
  <2>1. \A i \in 1..n : list[i].vals \in Seq(Ids(list))
    BY <1>1, ListVals
  <2> QED BY <1>2, <2>1
<1>4. G \in SUBSET (1..n)
  BY <1>1, <1>2 DEF Good
<1>5. seqs = [i \in 1..n |-> IF i \in G THEN l[i].vals ELSE <<>>]
  <2>1. \A i \in 1..n : seqs[i] = IF i \in G THEN l[i].vals ELSE <<>>
    BY <1>1, <1>2 DEF Good
  <2>2. seqs = [i \in 1..n |-> seqs[i]]
    BY <1>1
  <2> HIDE DEF seqs
  <2> QED BY <2>1, <2>2
<1>6. Answer = FlattenSeq(seqs)
  BY DEF Answer
<1> HIDE DEF seqs
<1>7. PICK q : q = seqs
  OBVIOUS
<1>8. /\ FlattenSeq(q) \in Seq(I)
      /\ \E row, col : Runs(FlattenSeq(q), l, G, row, col) /\ InOrder(FlattenSeq(q), row, col)
  <2>1. q = [i \in 1..n |-> IF i \in G THEN l[i].vals ELSE <<>>]
    BY <1>5, <1>7
  <2> QED BY <1>3, <1>4, <2>1, FlatRuns
<1> QED BY <1>2, <1>6, <1>7, <1>8

(* On a key that meets the conditions taken, the filter decides the clause. *)
LEMMA PassesExact ==
    ASSUME Clause(clause), Planned, Evaluable, NEW key \in Tuples,
           AllMet(clause, ToSet(Taken(clause, 1)), key)
    PROVE  (filter # NoNode => EvalKey(tree, filter, key)) <=> Meets(key)
<1>1. PICK q : q = clause
  OBVIOUS
<1>2. PICK X : X = ToSet(Taken(q, 1))
  OBVIOUS
<1>3. /\ Clause(q) /\ Bound(q, X) /\ AllMet(q, X, key)
      /\ \A k \in X : q[k].type = "PRED"
  BY <1>1, <1>2, TakenBinds
<1>4. IsTree(q, Len(q)) /\ DOMAIN q = 1..Len(q) /\ 1 \in 1..Len(q)
  BY <1>3, ClauseTree DEF Clause
<1>5. Meets(key) <=> MeetsAt(q, 1, key)
  BY <1>1 DEF Meets, MeetsAt
<1>6. \/ Mark(q, X)[1].passthru /\ filter = NoNode
      \/ filter = Clean(Mark(q, X), 1).root /\ tree = Clean(Mark(q, X), 1).tree
  BY <1>1, <1>2 DEF Planned
<1>7. CASE Mark(q, X)[1].passthru /\ filter = NoNode
  <2>1. Marks(q, X, Mark(q, X))
    BY <1>3, MarkIs
  <2>2. 1 \in X
    BY <1>4, <1>7, <2>1 DEF Marks
  <2>3. MeetsCondition(q[1].cond, key) /\ q[1].type = "PRED"
    BY <1>3, <2>2 DEF AllMet
  <2>4. MeetsAt(q, 1, key)
    BY <1>4, <2>3, MeetsIs
  <2> QED BY <1>5, <1>7, <2>4
<1>8. CASE filter = Clean(Mark(q, X), 1).root /\ tree = Clean(Mark(q, X), 1).tree
  <2>1. PICK c : c = Clean(Mark(q, X), 1)
    OBVIOUS
  <2>2. filter = c.root /\ tree = c.tree
    BY <1>8, <2>1
  <2>3. c.root # NoNode /\ \E done, for : Prunes(q, X, c.tree, done, for) /\ c.root = for[1]
    BY <1>3, <2>1, CleanedTree
  <2>4. PICK u, done, for : u = tree /\ Prunes(q, X, u, done, for) /\ filter = for[1]
    BY <2>2, <2>3
  <2>5. filter # NoNode /\ IsTree(u, Len(q)) /\ for[1] \in 1..Len(q)
    BY <1>4, <2>2, <2>3, <2>4 DEF Prunes
  <2>6. CASE done[1]
    <3>1. for[1] = 1 /\ u[1].passthru
      BY <1>4, <2>4, <2>6 DEF Prunes
    <3>2. EvalKey(u, 1, key)
      BY <1>4, <2>5, <3>1, EvalIs
    <3>3. MeetsAt(q, 1, key)
      BY <1>3, <1>4, <2>4, <2>6, DoneHolds
    <3> QED BY <1>5, <2>4, <3>1, <3>2, <3>3
  <2>7. CASE ~done[1]
    <3>1. Evaluates(u, for[1])
      BY <2>4, <2>5 DEF Evaluates, Evaluable, Residual
    <3>2. EvalKey(u, for[1], key) <=> MeetsAt(q, 1, key)
      BY <1>3, <1>4, <2>4, <2>7, <3>1, FilterExact
    <3> QED BY <1>5, <2>4, <2>5, <3>2
  <2> QED BY <2>6, <2>7
<1> QED BY <1>6, <1>7, <1>8

(* A node is scanned and passes the filter, in one range only, exactly     *)
(* when its key meets the clause.                                          *)
LEMMA HitsExact ==
    ASSUME PlanInv, Planned, Evaluable, NEW i \in DOMAIN list
    PROVE  /\ i \in Good <=> \E r \in DOMAIN ranges : In(list, ranges[r], i) /\ Passing(i)
           /\ \A r, s \in DOMAIN ranges : In(list, ranges[r], i) /\ In(list, ranges[s], i) => r = s
<1>1. Clause(clause) /\ Listing(list)
  BY DEF PlanInv
<1>2. PICK key \in Tuples : key = list[i].key
  BY <1>1, ListKeys
<1>3. PICK T : T = Taken(clause, 1)
  OBVIOUS
<1>4. /\ IsPlan(clause, T, NumProps) /\ Bound(clause, ToSet(T))
      /\ T # <<>> /\ ranges = Ranges(ScanKeys(clause, T))
  BY <1>1, <1>3, TakenBinds DEF Planned
<1>5. /\ TakenMet(clause, T, key) <=> \E r \in DOMAIN ranges : InRange(key, ranges[r])
      /\ \A r, s \in DOMAIN ranges : InRange(key, ranges[r]) /\ InRange(key, ranges[s]) => r = s
  BY <1>1, <1>4, PlanExact
<1>6. TakenMet(clause, T, key) <=> AllMet(clause, ToSet(T), key)
  BY <1>1, <1>4, PlanBinds
<1>7. AllMet(clause, ToSet(T), key) => (Passing(i) <=> Meets(key))
  BY <1>1, <1>2, <1>3, PassesExact DEF Passing
<1>8. Meets(key) => AllMet(clause, ToSet(T), key)
  <2>1. Meets(key) <=> MeetsAt(clause, 1, key)
    BY DEF Meets, MeetsAt
  <2>2. ASSUME MeetsAt(clause, 1, key) PROVE AllMet(clause, ToSet(T), key)
    BY <1>1, <1>4, <2>2, BoundNeeded
  <2> QED BY <2>1, <2>2
<1>9. i \in Good <=> Meets(key)
  BY <1>2 DEF Good
<1>10. \A r \in DOMAIN ranges : In(list, ranges[r], i) <=> InRange(key, ranges[r])
  BY <1>2 DEF In
<1> QED BY <1>5, <1>6, <1>7, <1>8, <1>9, <1>10

(* A finished cursor has run through the nodes whose key meets the clause. *)
LEMMA GotRuns ==
    ASSUME QueryInv, phase = "done", Evaluable
    PROVE  /\ got \in Seq(Ids(list))
           /\ \E node, val : /\ Runs(got, list, Good, node, val)
                             /\ Len(ranges) = 1 => InOrder(got, node, val)
<1>1. PlanInv /\ Planned /\ at.range = Len(ranges) + 1
  BY DEF QueryInv, PlanInv, CursorInv
<1>2. got \in Seq(Ids(list)) /\ \E pos : Traced(got, Hits, list, at, pos)
  BY DEF QueryInv, GotInv
<1>3. PICK pos : Traced(got, Hits, list, at, pos)
  BY <1>2
<1>4. DOMAIN ranges = 1..Len(ranges) /\ Len(ranges) \in Nat
  BY <1>1, PlannedTree DEF PlanInv
<1>5. PICK s : s = got /\ DOMAIN s \subseteq Nat
  BY <1>2
<1> DEFINE node == [x \in DOMAIN s |-> pos[x][2]]
           val == [x \in DOMAIN s |-> pos[x][3]]
<1>6. \A x \in DOMAIN s : /\ pos[x] \in Hits /\ s[x] = list[node[x]].vals[val[x]]
                          /\ node[x] = pos[x][2] /\ val[x] = pos[x][3]
  BY <1>3, <1>5 DEF Traced
<1> HIDE DEF node, val
<1>7. \A h \in Hits : /\ h[1] \in Nat /\ h[2] \in Nat /\ h[3] \in Nat
                      /\ h[1] \in DOMAIN ranges /\ h[2] \in DOMAIN list
                      /\ h[3] \in DOMAIN list[h[2]].vals
  BY <1>1, HitNumbers
<1>8. \A h \in Hits : /\ In(list, ranges[h[1]], h[2]) /\ Passing(h[2])
  BY DEF Hits
<1>9. \A i \in DOMAIN list :
          /\ i \in Good <=> \E r \in DOMAIN ranges : In(list, ranges[r], i) /\ Passing(i)
          /\ \A r, t \in DOMAIN ranges : In(list, ranges[r], i) /\ In(list, ranges[t], i) => r = t
  BY <1>1, HitsExact
<1>10. \A x \in DOMAIN s : /\ node[x] \in Good /\ val[x] \in DOMAIN list[node[x]].vals
                           /\ node[x] \in Nat /\ val[x] \in Nat
  BY <1>6, <1>7, <1>8, <1>9
<1>11. \A x, y \in DOMAIN s : x < y => Precedes(pos[x], pos[y])
  BY <1>3, <1>5 DEF Traced
<1>12. ASSUME NEW x \in DOMAIN s, NEW y \in DOMAIN s, node[x] = node[y], val[x] = val[y]
       PROVE  x = y
  <2>1. pos[x][2] = pos[y][2] /\ pos[x][3] = pos[y][3]
    BY <1>6, <1>12
  <2>2. pos[x][1] = pos[y][1]
    BY <1>6, <1>7, <1>8, <1>9, <2>1
  <2>3. /\ pos[x][1] \in Nat /\ pos[x][2] \in Nat /\ pos[x][3] \in Nat
    BY <1>6, <1>7
  <2>4. ~Precedes(pos[x], pos[y]) /\ ~Precedes(pos[y], pos[x])
    BY <2>1, <2>2, <2>3 DEF Precedes
  <2>5. ~(x < y) /\ ~(y < x)
    BY <1>11, <2>4
  <2>6. x \in Nat /\ y \in Nat
    BY <1>5
  <2> QED BY <2>5, <2>6
<1>13. ASSUME NEW i \in Good, NEW j \in DOMAIN list[i].vals
       PROVE  \E x \in DOMAIN s : node[x] = i /\ val[x] = j
  <2>1. i \in DOMAIN list
    BY DEF Good
  <2>2. PICK r \in DOMAIN ranges : In(list, ranges[r], i) /\ Passing(i)
    BY <1>9, <2>1
  <2>3. j \in Nat
    <3>1. DOMAIN list[i].vals = 1..Len(list[i].vals)
      BY <1>1, <2>1, ListKeys DEF PlanInv
    <3> QED BY <3>1
  <2>4. PICK h : h = <<r, i, j>>
    OBVIOUS
  <2>5. h \in Hits /\ h[1] = r /\ h[2] = i /\ h[3] = j
    BY <2>1, <2>2, <2>3, <2>4 DEF Hits
  <2>6. Behind(at, h)
    BY <1>1, <1>4, <2>5 DEF Behind
  <2>7. PICK x \in DOMAIN s : pos[x] = h
    BY <1>3, <1>5, <2>5, <2>6 DEF Traced
  <2> QED BY <1>6, <2>5, <2>7
<1>14. Runs(s, list, Good, node, val)
  BY <1>6, <1>10, <1>12, <1>13 DEF Runs
<1>15. ASSUME Len(ranges) = 1 PROVE InOrder(s, node, val)
  <2>1. \A x \in DOMAIN s : pos[x][1] = 1
    <3>1. \A r \in DOMAIN ranges : r = 1
      BY <1>4, <1>15
    <3> QED BY <1>6, <1>7, <3>1
  <2>2. \A x, y \in DOMAIN s : x < y => node[x] < node[y] \/ (node[x] = node[y] /\ val[x] < val[y])
    BY <1>6, <1>11, <2>1 DEF Precedes
  <2> QED BY <2>2 DEF InOrder
<1> QED BY <1>2, <1>5, <1>14, <1>15

(* A finished cursor has returned every id whose key meets the clause,     *)
(* once, and no other; in the order of the index when it scanned a single  *)
(* range (SI_BuildQueryPlan, scan_next).                                   *)
THEOREM AnswerStaysExact == Spec => []AnswerExact
<1>1. QueryInv => AnswerExact
  <2> SUFFICES ASSUME QueryInv, phase = "done", Evaluable
               PROVE  /\ ToSet(got) = ToSet(Answer) /\ Len(got) = Len(Answer)
                      /\ Len(ranges) = 1 => got = Answer
    BY DEF AnswerExact
  <2>1. Listing(list)
    BY DEF QueryInv, PlanInv
  <2>2. PICK a, row, col : /\ a = Answer /\ a \in Seq(Ids(list))
                           /\ Runs(a, list, Good, row, col) /\ InOrder(a, row, col)
    BY <2>1, AnswerRuns
  <2>3. PICK s, node, val : /\ s = got /\ s \in Seq(Ids(list))
                            /\ Runs(s, list, Good, node, val)
                            /\ Len(ranges) = 1 => InOrder(s, node, val)
    BY GotRuns
  <2>4. PICK f \in [DOMAIN s -> DOMAIN a] : Pairs(s, a, f)
    <3>1. Paired(s, a, node, val, row, col)
      BY <2>2, <2>3, RunsPair
    <3> QED BY <3>1 DEF Paired
  <2>5. ToSet(s) = ToSet(a) /\ Len(s) = Len(a)
    BY <2>2, <2>3, <2>4, PairsAlike
  <2>6. ASSUME Len(ranges) = 1 PROVE s = a
    BY <2>2, <2>3, <2>6, OrderedAlike
  <2> QED BY <2>2, <2>3, <2>5, <2>6
<1> QED BY <1>1, QueryAlways, PTL

=============================================================================
