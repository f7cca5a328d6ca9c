---------------------------- MODULE MemoryProofs ---------------------------
(***************************************************************************)
(* The memory of a query (WhereQuery.tla), for every text, every size of   *)
(* the parser's stack and every schema: each block is owned once, from the *)
(* lexer that copies a name to the SIQuery_Free that ends the query.       *)
(*                                                                         *)
(* While the text is parsed a block has one owner, a symbol on the stack   *)
(* or the lexer (HeapInv); after the parse the owners are the tree and the *)
(* values of the query, and heap counts them (UseInv).                     *)
(***************************************************************************)
EXTENDS WhereProofs

-----------------------------------------------------------------------------
(* Who owns the memory of a parse: the blocks of a node, of a tree, and of *)
(* a symbol on the stack with the value it carries, a name the lexer has   *)
(* copied and a string literal among them.                                 *)
BlocksOf(nd, n) ==
    {<<"node", n>>}
        \cup IF nd[n].t = "N_COND" THEN {}
             ELSE Strings(nd[n].vals)
                      \cup (IF nd[n].prop.named THEN {<<"string", nd[n].prop.at>>} ELSE {})
                      \cup (IF nd[n].op = "IN" THEN {<<"vector", nd[n].vals[1].at>>} ELSE {})

TreeOf(nd, n) == UNION {BlocksOf(nd, m) : m \in Below(nd, n)}

Claim(major, m, nd) ==
    CASE major = 35 -> TreeOf(nd, m.at)
      [] major = 37 -> IF m.named THEN {<<"string", m.at>>} ELSE {}
      [] major \in {39, 41} -> Strings(m.vals) \cup {<<"vector", m.vals[1].at>>}
      [] major = 38 -> IF m.type = "T_STRING" THEN {<<"string", m.at>>} ELSE {}
      [] major = 23 -> {<<"string", m.at>>}
      [] OTHER -> {}

(* The symbols that own nothing.                                           *)
Silent == (0..32 \ {23}) \cup {36, 40, 42}

(* Claim, symbol by symbol.                                                *)
LEMMA Claims ==
    ASSUME NEW m, NEW nd
    PROVE  /\ Claim(35, m, nd) = TreeOf(nd, m.at)
           /\ Claim(37, m, nd) = IF m.named THEN {<<"string", m.at>>} ELSE {}
           /\ Claim(39, m, nd) = Strings(m.vals) \cup {<<"vector", m.vals[1].at>>}
           /\ Claim(41, m, nd) = Strings(m.vals) \cup {<<"vector", m.vals[1].at>>}
           /\ Claim(38, m, nd) = IF m.type = "T_STRING" THEN {<<"string", m.at>>} ELSE {}
           /\ Claim(23, m, nd) = {<<"string", m.at>>}
           /\ \A major \in Silent : Claim(major, m, nd) = {}
BY DEF Claim, Silent

(* A tree owns what its root and what the operands own.                    *)
LEMMA TreeJoins ==
    ASSUME NEW nd, NEW low, NEW high, NEW max \in Nat, Shaped(nd, low, high, max), NEW k \in DOMAIN nd
    PROVE  TreeOf(nd, k) = BlocksOf(nd, k) \cup IF IsCond(nd, k) THEN TreeOf(nd, nd[k].left) \cup TreeOf(nd, nd[k].right)
                                                               ELSE {}
<1>1. \A n, b : b \in TreeOf(nd, n) <=> \E m \in Below(nd, n) : b \in BlocksOf(nd, m)
  BY DEF TreeOf
<1>2. Below(nd, k) = {k} \cup IF IsCond(nd, k) THEN Below(nd, nd[k].left) \cup Below(nd, nd[k].right) ELSE {}
  BY BelowIs
<1>3. CASE IsCond(nd, k)
  <2>1. PICK B, l, r, T, Tl, Tr, O :
          /\ B = Below(nd, k) /\ l = Below(nd, nd[k].left) /\ r = Below(nd, nd[k].right)
          /\ T = TreeOf(nd, k) /\ Tl = TreeOf(nd, nd[k].left) /\ Tr = TreeOf(nd, nd[k].right)
          /\ O = BlocksOf(nd, k)
    OBVIOUS
  <2>2. B = {k} \cup (l \cup r)
    BY <1>2, <1>3, <2>1
  <2>3. /\ \A b : b \in T <=> \E m \in B : b \in BlocksOf(nd, m)
        /\ \A b : b \in Tl <=> \E m \in l : b \in BlocksOf(nd, m)
        /\ \A b : b \in Tr <=> \E m \in r : b \in BlocksOf(nd, m)
    BY <1>1, <2>1
  <2>4. \A b : b \in T <=> b \in O \cup (Tl \cup Tr)
    BY <2>1, <2>2, <2>3
  <2>5. T = O \cup (Tl \cup Tr)
    BY <2>4
  <2> QED BY <1>3, <2>1, <2>5
<1>4. CASE ~IsCond(nd, k)
  <2>1. PICK T, O : T = TreeOf(nd, k) /\ O = BlocksOf(nd, k)
    OBVIOUS
  <2>2. Below(nd, k) = {k}
    BY <1>2, <1>4
  <2>3. \A b : b \in T <=> b \in O
    BY <1>1, <2>1, <2>2
  <2>4. T = O
    BY <2>3
  <2> QED BY <1>4, <2>1, <2>4
<1> QED BY <1>3, <1>4

(* ParseNode_Free reaches what the tree owns.                              *)
LEMMA TreeBlocksAre ==
    ASSUME NEW low, NEW high, NEW max \in Nat, Shaped(node, low, high, max), NEW k \in DOMAIN node
    PROVE  TreeBlocks(k) = TreeOf(node, k)
<1> DEFINE F(b) == [m \in DOMAIN node |->
                       IF node[m].t = "N_COND" THEN NodeBlocks(m) \cup b[node[m].left] \cup b[node[m].right]
                       ELSE NodeBlocks(m)]
           U == CHOOSE b : b = F(b)
           f == [m \in DOMAIN node |-> TreeOf(node, m)]
           S == {m \in DOMAIN node : U[m] = TreeOf(node, m)}
<1>1. \A m : NodeBlocks(m) = BlocksOf(node, m)
  BY DEF NodeBlocks, BlocksOf
<1>2. ASSUME NEW m \in DOMAIN node
      PROVE  f[m] = IF node[m].t = "N_COND" THEN NodeBlocks(m) \cup f[node[m].left] \cup f[node[m].right]
                    ELSE NodeBlocks(m)
  <2>1. CASE IsCond(node, m)
    <3>1. node[m].left \in DOMAIN node /\ node[m].right \in DOMAIN node
      BY <2>1 DEF Shaped
    <3>2. TreeOf(node, m) = NodeBlocks(m) \cup (TreeOf(node, node[m].left) \cup TreeOf(node, node[m].right))
      BY <1>1, <2>1, TreeJoins
    <3> QED BY <2>1, <3>1, <3>2 DEF IsCond
  <2>2. CASE ~IsCond(node, m)
    <3>1. TreeOf(node, m) = NodeBlocks(m)
      BY <1>1, <2>2, TreeJoins
    <3> QED BY <2>2, <3>1 DEF IsCond
  <2> QED BY <2>1, <2>2
<1>3. f = F(f)
  <2> HIDE DEF f
  <2>1. DOMAIN f = DOMAIN node /\ f = [m \in DOMAIN f |-> f[m]]
    BY DEF f
  <2>2. \A m \in DOMAIN node : f[m] = F(f)[m]
    BY <1>2
  <2> QED BY <2>1, <2>2
<1>4. U = F(U)
  <2> HIDE DEF F, f
  <2> QED BY <1>3
<1>5. \A n : TreeBlocks(n) = U[n]
  BY Zenon DEF TreeBlocks
<1>6. ASSUME NEW n \in DOMAIN node, IsCond(node, n) => node[n].left \in S /\ node[n].right \in S
      PROVE  n \in S
  <2>1. U[n] = F(U)[n]
    BY <1>4
  <2> HIDE DEF U
  <2>2. CASE IsCond(node, n)
    <3>1. U[n] = NodeBlocks(n) \cup U[node[n].left] \cup U[node[n].right]
      BY <2>1, <2>2 DEF IsCond
    <3>2. U[node[n].left] = TreeOf(node, node[n].left) /\ U[node[n].right] = TreeOf(node, node[n].right)
      BY <1>6, <2>2
    <3>3. TreeOf(node, n) = NodeBlocks(n) \cup (TreeOf(node, node[n].left) \cup TreeOf(node, node[n].right))
      BY <1>1, <2>2, TreeJoins
    <3> QED BY <3>1, <3>2, <3>3
  <2>3. CASE ~IsCond(node, n)
    <3>1. U[n] = NodeBlocks(n)
      BY <2>1, <2>3 DEF IsCond
    <3>2. TreeOf(node, n) = NodeBlocks(n)
      BY <1>1, <2>3, TreeJoins
    <3> QED BY <3>1, <3>2
  <2> QED BY <2>2, <2>3
<1>7. k \in S
  <2> HIDE DEF S
  <2> QED BY <1>6, FromLeaves
<1> HIDE DEF U
<1> QED BY <1>5, <1>7

(* Nodes that are added change no tree that was there.                     *)
LEMMA TreeKept ==
    ASSUME NEW nd, NEW low, NEW high, NEW max \in Nat, Shaped(nd, low, high, max),
           NEW nd2, NEW low2, NEW high2, Shaped(nd2, low2, high2, max),
           \A n \in DOMAIN nd : n \in DOMAIN nd2 /\ nd2[n] = nd[n]
    PROVE  \A n \in DOMAIN nd : TreeOf(nd2, n) = TreeOf(nd, n)
<1> DEFINE S == {n \in DOMAIN nd : TreeOf(nd2, n) = TreeOf(nd, n)}
<1>1. ASSUME NEW n \in DOMAIN nd, IsCond(nd, n) => nd[n].left \in S /\ nd[n].right \in S
      PROVE  n \in S
  <2>1. BlocksOf(nd2, n) = BlocksOf(nd, n)
    BY DEF BlocksOf
  <2>2. n \in DOMAIN nd2 /\ nd2[n] = nd[n] /\ (IsCond(nd2, n) <=> IsCond(nd, n))
    BY DEF IsCond
  <2>3. CASE IsCond(nd, n)
    <3>1. TreeOf(nd2, n) = BlocksOf(nd2, n) \cup (TreeOf(nd2, nd[n].left) \cup TreeOf(nd2, nd[n].right))
      BY <2>2, <2>3, TreeJoins
    <3>2. TreeOf(nd, n) = BlocksOf(nd, n) \cup (TreeOf(nd, nd[n].left) \cup TreeOf(nd, nd[n].right))
      BY <2>3, TreeJoins
    <3>3. TreeOf(nd2, nd[n].left) = TreeOf(nd, nd[n].left) /\ TreeOf(nd2, nd[n].right) = TreeOf(nd, nd[n].right)
      BY <1>1, <2>3
    <3> QED BY <2>1, <3>1, <3>2, <3>3
  <2>4. CASE ~IsCond(nd, n)
    <3>1. TreeOf(nd2, n) = BlocksOf(nd2, n)
      BY <2>2, <2>4, TreeJoins
    <3>2. TreeOf(nd, n) = BlocksOf(nd, n)
      BY <2>4, TreeJoins
    <3> QED BY <2>1, <3>1, <3>2
  <2> QED BY <2>3, <2>4
<1>2. \A n \in DOMAIN nd : n \in S
  <2> HIDE DEF S
  <2> QED BY <1>1, FromLeaves
<1> QED BY <1>2

-----------------------------------------------------------------------------
(* The string of a value.                                                  *)
Text(v) == IF v.type = "T_STRING" THEN {<<"string", v.at>>} ELSE {}

(* The strings of a list are those of its values:                          *)
LEMMA StringsAre ==
    ASSUME NEW vals, IsList(vals)
    PROVE  \A b : b \in Strings(vals) <=> \E i \in 1..Len(vals) : b \in Text(vals[i])
<1>1. DOMAIN vals = 1..Len(vals)
  BY DEF IsList
<1> QED BY <1>1 DEF Strings, Text

(* one string at most when it has one value,                               *)
LEMMA StringsOne == ASSUME NEW v PROVE Strings(<<v>>) = Text(v)
<1>1. PICK s : s = <<v>>
  OBVIOUS
<1>2. IsList(s) /\ Len(s) = 1 /\ s[1] = v
  BY <1>1, OneList
<1>3. \A b : b \in Strings(s) <=> b \in Text(v)
  <2>1. \A i \in 1..1 : i = 1
    OBVIOUS
  <2> QED BY <1>2, <2>1, StringsAre
<1>4. PICK S, T : S = Strings(s) /\ T = Text(v)
  OBVIOUS
<1>5. S = T
  BY <1>3, <1>4
<1> QED BY <1>1, <1>4, <1>5

(* two when it has two,                                                    *)
LEMMA StringsTwo == ASSUME NEW v, NEW w PROVE Strings(<<v, w>>) = Text(v) \cup Text(w)
<1>1. PICK s : s = <<v, w>>
  OBVIOUS
<1>2. IsList(s) /\ Len(s) = 2 /\ s[1] = v /\ s[2] = w
  BY <1>1, TwoList
<1>3. PICK S, T, U : S = Strings(s) /\ T = Text(v) /\ U = Text(w)
  OBVIOUS
<1>4. \A b : b \in S <=> b \in T \cup U
  <2>1. \A i : i \in 1..2 <=> i = 1 \/ i = 2
    OBVIOUS
  <2>2. \A b : b \in Strings(s) <=> b \in Text(v) \/ b \in Text(w)
    BY <1>2, <2>1, StringsAre
  <2> QED BY <1>3, <2>2
<1>5. S = T \cup U
  BY <1>4
<1> QED BY <1>1, <1>3, <1>5

(* and one more when a value is appended.                                  *)
LEMMA StringsMore ==
    ASSUME NEW vals, IsList(vals), Len(vals) >= 1, NEW w
    PROVE  Strings(Append(vals, w)) = Strings(vals) \cup Text(w) /\ Append(vals, w)[1] = vals[1]
<1>1. PICK s, n : s = Append(vals, w) /\ n = Len(vals)
  OBVIOUS
<1>2. PICK S : vals \in Seq(S)
  BY DEF IsList
<1>3. s \in Seq(S \cup {w}) /\ Len(s) = n + 1 /\ s[n + 1] = w /\ n \in Nat /\ n >= 1 /\ \A i \in 1..n : s[i] = vals[i]
  BY <1>1, <1>2
<1>4. IsList(s)
  BY <1>3 DEF IsList
<1>5. PICK A, B, C : A = Strings(s) /\ B = Strings(vals) /\ C = Text(w)
  OBVIOUS
<1>6. \A b : b \in A <=> \E i \in 1..(n + 1) : b \in Text(s[i])
  BY <1>3, <1>4, <1>5, StringsAre
<1>7. \A b : b \in B <=> \E i \in 1..n : b \in Text(vals[i])
  BY <1>1, <1>5, StringsAre
<1>8. \A i : i \in 1..(n + 1) <=> i \in 1..n \/ i = n + 1
  BY <1>3
<1>9. \A b : b \in A <=> b \in B \cup C
  BY <1>3, <1>5, <1>6, <1>7, <1>8
<1>10. A = B \cup C
  BY <1>9
<1>11. s[1] = vals[1]
  BY <1>3
<1> QED BY <1>1, <1>5, <1>10, <1>11

-----------------------------------------------------------------------------
(* What a rule gathers: the blocks its code allocates and those of its     *)
(* right-hand side.                                                        *)
Gathers(b, rule, rhs, nd) ==
    b \in NewBlocks(rule, rhs) \/ \E i \in 1..nrhs[rule + 1] : b \in Claim(rightSides[rule][i], rhs[i], nd)

(* The symbol the rule makes owns what the rule gathers.                   *)
HandsOn(rule, rhs, nd, nd2) ==
    \A b : b \in Claim(lhs[rule + 1], Minor(rule, rhs), nd2) <=> Gathers(b, rule, rhs, nd)

(* A right-hand side of one symbol.                                        *)
LEMMA GathersOne ==
    ASSUME NEW rule, nrhs[rule + 1] = 1, NEW rhs, NEW nd
    PROVE  \A b : Gathers(b, rule, rhs, nd) <=> b \in NewBlocks(rule, rhs) \/ b \in Claim(rightSides[rule][1], rhs[1], nd)
<1>1. \A i : i \in 1..1 <=> i = 1
  OBVIOUS
<1> QED BY <1>1 DEF Gathers

(* A right-hand side of three symbols.                                     *)
LEMMA GathersThree ==
    ASSUME NEW rule, nrhs[rule + 1] = 3, NEW rhs, NEW nd
    PROVE  \A b : Gathers(b, rule, rhs, nd) <=> \/ b \in NewBlocks(rule, rhs)
                                                \/ b \in Claim(rightSides[rule][1], rhs[1], nd)
                                                \/ b \in Claim(rightSides[rule][2], rhs[2], nd)
                                                \/ b \in Claim(rightSides[rule][3], rhs[3], nd)
<1>1. \A i : i \in 1..3 <=> i = 1 \/ i = 2 \/ i = 3
  OBVIOUS
<1> QED BY <1>1 DEF Gathers

(* NewBlocks, rule by rule.                                                *)
LEMMA Blocks ==
    ASSUME NEW rhs
    PROVE  /\ NewBlocks(7, rhs) = {<<"node", rhs[1].at>>}
           /\ NewBlocks(8, rhs) = {<<"string", rhs[3].at>>, <<"node", rhs[1].at>>}
           /\ NewBlocks(9, rhs) = {<<"node", rhs[1].at>>}
           /\ NewBlocks(10, rhs) = {<<"node", rhs[1].at>>}
           /\ NewBlocks(12, rhs) = {<<"node", rhs[2].at>>}
           /\ NewBlocks(13, rhs) = {<<"node", rhs[2].at>>}
           /\ NewBlocks(15, rhs) = {<<"string", rhs[1].at>>}
           /\ NewBlocks(21, rhs) = {<<"vector", rhs[1].at>>}
           /\ \A rule \in 1..34 \ {7, 8, 9, 10, 12, 13, 15, 21} : NewBlocks(rule, rhs) = {}
BY DEF NewBlocks

(* The rules of operators, times and durations, which own nothing.         *)
LEMMA QuietRules ==
    ASSUME NEW rule \in (1..6) \cup (25..34)
    PROVE  /\ lhs[rule + 1] \in Silent
           /\ \A i \in 1..nrhs[rule + 1] : rightSides[rule][i] \in Silent
<1>1. CASE rule \in 1..6
  BY <1>1 DEF nrhs, lhs, rightSides, Silent
<1>2. CASE rule \in 25..26
  BY <1>2 DEF nrhs, lhs, rightSides, Silent
<1>3. CASE rule \in 27..28
  <2>1. nrhs[rule + 1] = 4 /\ lhs[rule + 1] = 40
    BY <1>3 DEF nrhs, lhs
  <2>2. rightSides[rule][1] \in {25, 26} /\ rightSides[rule][2] = 15 /\ rightSides[rule][3] = 17 /\ rightSides[rule][4] = 16
    BY <1>3 DEF rightSides
  <2>3. \A i \in 1..4 : i = 1 \/ i = 2 \/ i = 3 \/ i = 4
    OBVIOUS
  <2> QED BY <2>1, <2>2, <2>3 DEF Silent
<1>4. CASE rule \in 29..30
  <2>1. nrhs[rule + 1] = 6 /\ lhs[rule + 1] = 40
    BY <1>4 DEF nrhs, lhs
  <2>2. /\ rightSides[rule][1] \in {27, 28} /\ rightSides[rule][2] = 15 /\ rightSides[rule][3] = 40
        /\ rightSides[rule][4] = 21 /\ rightSides[rule][5] = 42 /\ rightSides[rule][6] = 16
    BY <1>4 DEF rightSides
  <2>3. \A i \in 1..6 : i = 1 \/ i = 2 \/ i = 3 \/ i = 4 \/ i = 5 \/ i = 6
    OBVIOUS
  <2> QED BY <2>1, <2>2, <2>3 DEF Silent
<1>5. CASE rule \in 31..34
  <2>1. nrhs[rule + 1] = 4 /\ lhs[rule + 1] = 42
    BY <1>5 DEF nrhs, lhs
  <2>2. rightSides[rule][1] \in 29..32 /\ rightSides[rule][2] = 15 /\ rightSides[rule][3] = 17 /\ rightSides[rule][4] = 16
    BY <1>5 DEF rightSides
  <2>3. \A i \in 1..4 : i = 1 \/ i = 2 \/ i = 3 \/ i = 4
    OBVIOUS
  <2> QED BY <2>1, <2>2, <2>3 DEF Silent
<1> QED BY <1>1, <1>2, <1>3, <1>4, <1>5

(* They hand on what they gather: nothing.                                 *)
LEMMA QuietHands ==
    ASSUME NEW rule \in (1..6) \cup (25..34), NEW rhs, NEW nd, NEW nd2
    PROVE  HandsOn(rule, rhs, nd, nd2)
<1>1. NewBlocks(rule, rhs) = {}
  <2>1. rule \in 1..34 \ {7, 8, 9, 10, 12, 13, 15, 21}
    OBVIOUS
  <2> QED BY <2>1, Blocks
<1>2. Claim(lhs[rule + 1], Minor(rule, rhs), nd2) = {}
  BY QuietRules, Claims
<1>3. \A i \in 1..nrhs[rule + 1] : Claim(rightSides[rule][i], rhs[i], nd) = {}
  BY QuietRules, Claims
<1> QED BY <1>1, <1>2, <1>3 DEF HandsOn, Gathers

(* The rules of literals and of properties.                                *)
LEMMA LiteralHands ==
    ASSUME NEW rule \in (14..19) \cup {23, 24}, NEW rhs, NEW nd, NEW nd2
    PROVE  HandsOn(rule, rhs, nd, nd2)
<1>1. nrhs[rule + 1] = 1
  BY DEF nrhs
<1>2. \A b : Gathers(b, rule, rhs, nd) <=> b \in NewBlocks(rule, rhs) \/ b \in Claim(rightSides[rule][1], rhs[1], nd)
  BY <1>1, GathersOne
<1>3. CASE rule \in {14, 16, 17, 18, 19}
  <2>1. lhs[rule + 1] = 38 /\ rightSides[rule][1] \in {17, 18, 19, 20, 40}
    BY <1>3 DEF lhs, rightSides
  <2>2. Minor(rule, rhs).type # "T_STRING"
    <3>1. CASE rule = 14
      <4>1. Minor(rule, rhs) = [type |-> "T_INT64", at |-> rhs[1].at]
        BY <3>1, Minors DEF Value
      <4> QED BY <4>1
    <3>2. CASE rule = 16
      <4>1. Minor(rule, rhs) = [type |-> "T_DOUBLE", at |-> rhs[1].at]
        BY <3>2, Minors DEF Value
      <4> QED BY <4>1
    <3>3. CASE rule \in {17, 18}
      <4>1. Minor(rule, rhs) = [type |-> "T_BOOL", at |-> rhs[1].at]
        BY <3>3, Minors DEF Value
      <4> QED BY <4>1
    <3>4. CASE rule = 19
      <4>1. Minor(rule, rhs) = [type |-> "T_TIME", at |-> rhs[1].base.at, shifts |-> rhs[1].shifts]
        BY <3>4, Minors
      <4> QED BY <4>1
    <3> QED BY <1>3, <3>1, <3>2, <3>3, <3>4
  <2>3. Claim(lhs[rule + 1], Minor(rule, rhs), nd2) = {}
    BY <2>1, <2>2, Claims
  <2>4. Claim(rightSides[rule][1], rhs[1], nd) = {}
    <3>1. rightSides[rule][1] \in Silent
      BY <2>1 DEF Silent
    <3> QED BY <3>1, Claims
  <2>5. NewBlocks(rule, rhs) = {}
    <3>1. rule \in 1..34 \ {7, 8, 9, 10, 12, 13, 15, 21}
      BY <1>3
    <3> QED BY <3>1, Blocks
  <2> QED BY <1>2, <2>3, <2>4, <2>5 DEF HandsOn
<1>4. CASE rule = 15
  <2>1. lhs[rule + 1] = 38 /\ rightSides[rule][1] = 13 /\ 13 \in Silent
    BY <1>4 DEF lhs, rightSides, Silent
  <2>2. Minor(rule, rhs) = [type |-> "T_STRING", at |-> rhs[1].at]
    BY <1>4, Minors DEF Value
  <2>3. Claim(lhs[rule + 1], Minor(rule, rhs), nd2) = {<<"string", rhs[1].at>>}
    BY <2>1, <2>2, Claims
  <2>4. Claim(rightSides[rule][1], rhs[1], nd) = {}
    BY <2>1, Claims
  <2>5. NewBlocks(rule, rhs) = {<<"string", rhs[1].at>>}
    BY <1>4, Blocks
  <2> QED BY <1>2, <2>3, <2>4, <2>5 DEF HandsOn
<1>5. CASE rule = 23
  <2>1. lhs[rule + 1] = 37 /\ rightSides[rule][1] = 22 /\ 22 \in Silent
    BY <1>5 DEF lhs, rightSides, Silent
  <2>2. Minor(rule, rhs) = [named |-> FALSE, at |-> rhs[1].at]
    BY <1>5, Minors
  <2>3. Claim(lhs[rule + 1], Minor(rule, rhs), nd2) = {}
    BY <2>1, <2>2, Claims
  <2>4. Claim(rightSides[rule][1], rhs[1], nd) = {}
    BY <2>1, Claims
  <2>5. NewBlocks(rule, rhs) = {}
    BY <1>5, Blocks
  <2> QED BY <1>2, <2>3, <2>4, <2>5 DEF HandsOn
<1>6. CASE rule = 24
  <2>1. lhs[rule + 1] = 37 /\ rightSides[rule][1] = 23
    BY <1>6 DEF lhs, rightSides
  <2>2. Minor(rule, rhs) = [named |-> TRUE, at |-> rhs[1].at]
    BY <1>6, Minors
  <2>3. Claim(lhs[rule + 1], Minor(rule, rhs), nd2) = {<<"string", rhs[1].at>>}
    BY <2>1, <2>2, Claims
  <2>4. Claim(rightSides[rule][1], rhs[1], nd) = {<<"string", rhs[1].at>>}
    BY <2>1, Claims
  <2>5. NewBlocks(rule, rhs) = {}
    BY <1>6, Blocks
  <2> QED BY <1>2, <2>3, <2>4, <2>5 DEF HandsOn
<1> QED BY <1>3, <1>4, <1>5, <1>6

(* The rules of lists and of parentheses.                                  *)
LEMMA ListHands ==
    ASSUME NEW rule \in {11, 20, 21, 22}, NEW rhs, NEW a, NEW nd, NEW low, NEW high,
           SideFits(rule, rhs, a, nd, low, high), NEW nd2, nd2 = nd
    PROVE  HandsOn(rule, rhs, nd, nd2)
<1>1. nrhs[rule + 1] = 3
  BY DEF nrhs
<1>2. \A b : Gathers(b, rule, rhs, nd) <=> \/ b \in NewBlocks(rule, rhs)
                                           \/ b \in Claim(rightSides[rule][1], rhs[1], nd)
                                           \/ b \in Claim(rightSides[rule][2], rhs[2], nd)
                                           \/ b \in Claim(rightSides[rule][3], rhs[3], nd)
  BY <1>1, GathersThree
<1>3. CASE rule \in {11, 20}
  <2>1. 15 \in Silent /\ 16 \in Silent /\ rightSides[rule][1] = 15 /\ rightSides[rule][3] = 16
    BY <1>3 DEF rightSides, Silent
  <2>2. Minor(rule, rhs) = rhs[2]
    BY <1>3, Minors
  <2>3. Claim(lhs[rule + 1], Minor(rule, rhs), nd2) = Claim(rightSides[rule][2], rhs[2], nd)
    <3>1. CASE rule = 11
      <4>1. lhs[rule + 1] = 35 /\ rightSides[rule][2] = 35
        BY <3>1 DEF lhs, rightSides
      <4> QED BY <2>2, <4>1
    <3>2. CASE rule = 20
      <4>1. lhs[rule + 1] = 39 /\ rightSides[rule][2] = 41
        BY <3>2 DEF lhs, rightSides
      <4>2. PICK m : m = rhs[2]
        OBVIOUS
      <4>3. Claim(39, m, nd2) = Claim(41, m, nd)
        <5>1. PICK X : X = Strings(m.vals) \cup {<<"vector", m.vals[1].at>>}
          OBVIOUS
        <5>2. Claim(39, m, nd2) = X
          BY <5>1, Claims
        <5>3. Claim(41, m, nd) = X
          BY <5>1, Claims
        <5> QED BY <5>2, <5>3
      <4> QED BY <2>2, <4>1, <4>2, <4>3
    <3> QED BY <1>3, <3>1, <3>2
  <2>4. Claim(rightSides[rule][1], rhs[1], nd) = {} /\ Claim(rightSides[rule][3], rhs[3], nd) = {}
    BY <2>1, Claims
  <2>5. NewBlocks(rule, rhs) = {}
    <3>1. rule \in 1..34 \ {7, 8, 9, 10, 12, 13, 15, 21}
      BY <1>3
    <3> QED BY <3>1, Blocks
  <2> QED BY <1>2, <2>3, <2>4, <2>5 DEF HandsOn
<1>4. CASE rule = 21
  <2>1. lhs[rule + 1] = 41 /\ rightSides[rule][1] = 38 /\ rightSides[rule][2] = 21 /\ rightSides[rule][3] = 38 /\ 21 \in Silent
    BY <1>4 DEF lhs, rightSides, Silent
  <2>2. PICK v, w, vals : v = rhs[1] /\ w = rhs[3] /\ vals = <<v, w>>
    OBVIOUS
  <2>3. Minor(rule, rhs) = [vals |-> vals]
    BY <1>4, <2>2, Minors
  <2>4. vals[1] = v /\ Strings(vals) = Text(v) \cup Text(w)
    BY <2>2, TwoList, StringsTwo
  <2>5. Claim(lhs[rule + 1], Minor(rule, rhs), nd2) = Text(v) \cup Text(w) \cup {<<"vector", v.at>>}
    BY <2>1, <2>3, <2>4, Claims
  <2>6. /\ Claim(rightSides[rule][1], rhs[1], nd) = Text(v) /\ Claim(rightSides[rule][3], rhs[3], nd) = Text(w)
        /\ Claim(rightSides[rule][2], rhs[2], nd) = {}
    <3>1. Claim(38, v, nd) = Text(v) /\ Claim(38, w, nd) = Text(w)
      BY Claims DEF Text
    <3> QED BY <2>1, <2>2, <3>1, Claims
  <2>7. NewBlocks(rule, rhs) = {<<"vector", v.at>>}
    BY <1>4, <2>2, Blocks
  <2> QED BY <1>2, <2>5, <2>6, <2>7 DEF HandsOn
<1>5. CASE rule = 22
  <2>1. lhs[rule + 1] = 41 /\ rightSides[rule][1] = 41 /\ rightSides[rule][2] = 21 /\ rightSides[rule][3] = 38 /\ 21 \in Silent
    BY <1>5 DEF lhs, rightSides, Silent
  <2>2. PICK vals : rhs[1] = [vals |-> vals] /\ AreValues(vals, a[0] + 1, a[1])
    <3>1. 1 \in 1..nrhs[rule + 1] /\ 1 - 1 = 0
      BY <1>1
    <3>2. Fits(41, rhs[1], a[1 - 1] + 1, a[1], nd, low, high)
      BY <2>1, <3>1 DEF SideFits
    <3> QED BY <3>1, <3>2 DEF Fits
  <2>3. IsList(vals) /\ Len(vals) >= 1
    BY <2>2 DEF AreValues
  <2>4. PICK w, more : w = rhs[3] /\ more = Append(vals, w)
    OBVIOUS
  <2>5. Minor(rule, rhs) = [vals |-> more]
    <3>1. rhs[1].vals = vals
      BY <2>2
    <3>2. Minor(22, rhs) = [vals |-> Append(rhs[1].vals, rhs[3])]
      BY Minors
    <3> QED BY <1>5, <2>4, <3>1, <3>2
  <2>6. Strings(more) = Strings(vals) \cup Text(w) /\ more[1] = vals[1]
    BY <2>3, <2>4, StringsMore
  <2>7. Claim(lhs[rule + 1], Minor(rule, rhs), nd2) = Strings(vals) \cup Text(w) \cup {<<"vector", vals[1].at>>}
    BY <2>1, <2>5, <2>6, Claims
  <2>8. /\ Claim(rightSides[rule][1], rhs[1], nd) = Strings(vals) \cup {<<"vector", vals[1].at>>}
        /\ Claim(rightSides[rule][3], rhs[3], nd) = Text(w)
        /\ Claim(rightSides[rule][2], rhs[2], nd) = {}
    <3>1. Claim(38, w, nd) = Text(w)
      BY Claims DEF Text
    <3>2. rhs[1].vals = vals
      BY <2>2
    <3> QED BY <2>1, <2>4, <3>1, <3>2, Claims, ZenonT(30)
  <2>9. NewBlocks(rule, rhs) = {}
    <3>1. rule \in 1..34 \ {7, 8, 9, 10, 12, 13, 15, 21}
      BY <1>5
    <3> QED BY <3>1, Blocks
  <2> QED BY <1>2, <2>7, <2>8, <2>9 DEF HandsOn
<1> QED BY <1>3, <1>4, <1>5

-----------------------------------------------------------------------------
(* What a new predicate owns.                                              *)
LEMMA PredicateBlocks ==
    ASSUME NEW nd, NEW made, NEW p, NEW op, NEW vals, nd[made] = Predicate(p, op, vals)
    PROVE  /\ ~IsCond(nd, made)
           /\ \A b : b \in BlocksOf(nd, made) <=> \/ b = <<"node", made>>
                                                  \/ b \in Strings(vals)
                                                  \/ p.named /\ b = <<"string", p.at>>
                                                  \/ op = "IN" /\ b = <<"vector", vals[1].at>>
<1>1. PICK x : x = nd[made]
  OBVIOUS
<1>2. x.t = "N_PRED" /\ x.prop = p /\ x.op = op /\ x.vals = vals
  BY <1>1 DEF Predicate
<1>3. ~IsCond(nd, made)
  BY <1>1, <1>2 DEF IsCond
<1>4. BlocksOf(nd, made) = {<<"node", made>>} \cup (Strings(vals) \cup (IF p.named THEN {<<"string", p.at>>} ELSE {})
                               \cup (IF op = "IN" THEN {<<"vector", vals[1].at>>} ELSE {}))
  BY <1>1, <1>2 DEF BlocksOf
<1> QED BY <1>3, <1>4

(* The rules of predicates: the node owns the name, the values and their   *)
(* vector.                                                                 *)
LEMMA PredicateHands ==
    ASSUME NEW rule \in 7..10, NEW rhs, NEW a, NEW nd, NEW low, NEW high, SideFits(rule, rhs, a, nd, low, high),
           NEW nd2, NEW low2, NEW high2, NEW max \in Nat, Shaped(nd2, low2, high2, max),
           nd2 = NodesAfter(nd, rule, rhs)
    PROVE  HandsOn(rule, rhs, nd, nd2)
<1>1. nrhs[rule + 1] = 3 /\ lhs[rule + 1] = 35 /\ rule \in MakesNode /\ rightSides[rule][1] = 37
  BY DEF nrhs, lhs, MakesNode, rightSides
<1>2. PICK p, vals : p = rhs[1] /\ vals = rhs[3].vals
  OBVIOUS
<1>3. PICK made : made = p.at
  OBVIOUS
<1>4. Minor(rule, rhs) = [at |-> made] /\ Minor(rule, rhs).at = made
  <2>1. Minor(rule, rhs) = [at |-> made]
    <3>1. rule = 7 \/ rule = 8 \/ rule = 9 \/ rule = 10
      OBVIOUS
    <3> QED BY <1>2, <1>3, <3>1, Minors
  <2> QED BY <2>1
<1>5. made \in DOMAIN nd2 /\ nd2[made] = NewNode(rule, rhs)
  BY <1>1, <1>4 DEF NodesAfter, Grown
<1>6. ASSUME NEW op, NEW v, NewNode(rule, rhs) = Predicate(p, op, v)
      PROVE  \A b : b \in Claim(35, Minor(rule, rhs), nd2) <=> \/ b = <<"node", made>>
                                                               \/ b \in Strings(v)
                                                               \/ p.named /\ b = <<"string", p.at>>
                                                               \/ op = "IN" /\ b = <<"vector", v[1].at>>
  <2>1. nd2[made] = Predicate(p, op, v)
    BY <1>5, <1>6
  <2>2. ~IsCond(nd2, made)
    BY <2>1, PredicateBlocks
  <2>3. TreeOf(nd2, made) = BlocksOf(nd2, made)
    BY <1>5, <2>2, TreeJoins
  <2>4. Claim(35, Minor(rule, rhs), nd2) = BlocksOf(nd2, made)
    BY <1>4, <2>3, Claims
  <2>5. PICK B : B = BlocksOf(nd2, made)
    OBVIOUS
  <2>6. \A b : b \in BlocksOf(nd2, made) <=> \/ b = <<"node", made>>
                                             \/ b \in Strings(v)
                                             \/ p.named /\ b = <<"string", p.at>>
                                             \/ op = "IN" /\ b = <<"vector", v[1].at>>
    BY <2>1, PredicateBlocks, SMTT(30)
  <2> QED BY <2>4, <2>5, <2>6
<1>7. \A b : Gathers(b, rule, rhs, nd) <=> \/ b \in NewBlocks(rule, rhs)
                                           \/ b \in Claim(rightSides[rule][1], rhs[1], nd)
                                           \/ b \in Claim(rightSides[rule][2], rhs[2], nd)
                                           \/ b \in Claim(rightSides[rule][3], rhs[3], nd)
  BY <1>1, GathersThree
<1>8. \A b : b \in Claim(rightSides[rule][1], rhs[1], nd) <=> p.named /\ b = <<"string", p.at>>
  <2>1. Claim(37, p, nd) = IF p.named THEN {<<"string", p.at>>} ELSE {}
    BY Claims
  <2> QED BY <1>1, <1>2, <2>1
<1>9. 1 \in 1..nrhs[rule + 1] /\ 2 \in 1..nrhs[rule + 1] /\ 3 \in 1..nrhs[rule + 1]
  BY <1>1
<1>10. CASE rule = 7
  <2>1. rightSides[rule][2] = 36 /\ rightSides[rule][3] = 38 /\ 36 \in Silent
    BY <1>10 DEF rightSides, Silent
  <2>2. PICK word \in Comparisons : rhs[2].word = word
    <3>1. Fits(36, rhs[2], a[2 - 1] + 1, a[2], nd, low, high)
      BY <1>9, <2>1 DEF SideFits
    <3>2. PICK word \in Comparisons : rhs[2] = [word |-> word, at |-> a[2]]
      BY <3>1 DEF Fits
    <3>3. rhs[2].word = word
      BY <3>2
    <3> QED BY <3>3
  <2>3. PICK v : v = rhs[3]
    OBVIOUS
  <2>4. NewNode(rule, rhs) = Predicate(p, word, <<v>>)
    BY <1>2, <1>10, <2>2, <2>3, Nodes
  <2>5. word # "IN"
    BY DEF Comparisons
  <2>6. Strings(<<v>>) = Text(v)
    BY StringsOne
  <2>7. \A b : b \in Claim(35, Minor(rule, rhs), nd2) <=> \/ b = <<"node", made>>
                                                          \/ b \in Text(v)
                                                          \/ p.named /\ b = <<"string", p.at>>
    BY <1>6, <2>4, <2>5, <2>6
  <2>8. Claim(rightSides[rule][2], rhs[2], nd) = {} /\ Claim(rightSides[rule][3], rhs[3], nd) = Text(v)
    <3>1. Claim(38, v, nd) = Text(v)
      BY Claims DEF Text
    <3> QED BY <2>1, <2>3, <3>1, Claims
  <2>9. NewBlocks(rule, rhs) = {<<"node", made>>}
    BY <1>2, <1>3, <1>10, Blocks
  <2> QED BY <1>1, <1>7, <1>8, <2>7, <2>8, <2>9 DEF HandsOn
<1>11. CASE rule = 8
  <2>1. rightSides[rule][2] = 12 /\ rightSides[rule][3] = 13 /\ 12 \in Silent /\ 13 \in Silent
    BY <1>11 DEF rightSides, Silent
  <2>2. PICK v, q : q = rhs[3].at /\ v = [type |-> "T_STRING", at |-> q]
    OBVIOUS
  <2>3. NewNode(rule, rhs) = Predicate(p, "LIKE", <<v>>)
    BY <1>2, <1>11, <2>2, Nodes DEF Value
  <2>4. Strings(<<v>>) = {<<"string", q>>}
    <3>1. Text(v) = {<<"string", q>>}
      BY <2>2 DEF Text
    <3> QED BY <3>1, StringsOne
  <2>5. \A b : b \in Claim(35, Minor(rule, rhs), nd2) <=> \/ b = <<"node", made>>
                                                          \/ b = <<"string", q>>
                                                          \/ p.named /\ b = <<"string", p.at>>
    BY <1>6, <2>3, <2>4
  <2>6. Claim(rightSides[rule][2], rhs[2], nd) = {} /\ Claim(rightSides[rule][3], rhs[3], nd) = {}
    BY <2>1, Claims
  <2>7. NewBlocks(rule, rhs) = {<<"string", q>>, <<"node", made>>}
    BY <1>2, <1>3, <1>11, <2>2, Blocks
  <2> QED BY <1>1, <1>7, <1>8, <2>5, <2>6, <2>7 DEF HandsOn
<1>12. CASE rule = 9
  <2>1. rightSides[rule][2] = 10 /\ rightSides[rule][3] = 14 /\ 10 \in Silent /\ 14 \in Silent
    BY <1>12 DEF rightSides, Silent
  <2>2. NewNode(rule, rhs) = Predicate(p, "IS", <<Null>>)
    BY <1>2, <1>12, Nodes
  <2>3. Strings(<<Null>>) = {}
    <3>1. Text(Null) = {}
      BY DEF Text, Null
    <3> QED BY <3>1, StringsOne
  <2>4. \A b : b \in Claim(35, Minor(rule, rhs), nd2) <=> b = <<"node", made>> \/ (p.named /\ b = <<"string", p.at>>)
    BY <1>6, <2>2, <2>3
  <2>5. Claim(rightSides[rule][2], rhs[2], nd) = {} /\ Claim(rightSides[rule][3], rhs[3], nd) = {}
    BY <2>1, Claims
  <2>6. NewBlocks(rule, rhs) = {<<"node", made>>}
    BY <1>2, <1>3, <1>12, Blocks
  <2> QED BY <1>1, <1>7, <1>8, <2>4, <2>5, <2>6 DEF HandsOn
<1>13. CASE rule = 10
  <2>1. rightSides[rule][2] = 9 /\ rightSides[rule][3] = 39 /\ 9 \in Silent
    BY <1>13 DEF rightSides, Silent
  <2>2. NewNode(rule, rhs) = Predicate(p, "IN", vals)
    BY <1>2, <1>13, Nodes
  <2>3. \A b : b \in Claim(35, Minor(rule, rhs), nd2) <=> \/ b = <<"node", made>>
                                                          \/ b \in Strings(vals)
                                                          \/ p.named /\ b = <<"string", p.at>>
                                                          \/ b = <<"vector", vals[1].at>>
    BY <1>6, <2>2
  <2>4. /\ Claim(rightSides[rule][2], rhs[2], nd) = {}
        /\ Claim(rightSides[rule][3], rhs[3], nd) = Strings(vals) \cup {<<"vector", vals[1].at>>}
    BY <1>2, <2>1, Claims
  <2>5. NewBlocks(rule, rhs) = {<<"node", made>>}
    BY <1>2, <1>3, <1>13, Blocks
  <2> QED BY <1>1, <1>7, <1>8, <2>3, <2>4, <2>5 DEF HandsOn
<1> QED BY <1>10, <1>11, <1>12, <1>13

(* The rules of AND and OR: the node owns its operands.                    *)
LEMMA ConditionHands ==
    ASSUME NEW rule \in {12, 13}, NEW rhs, NEW a, NEW nd, NEW low, NEW high, SideFits(rule, rhs, a, nd, low, high),
           NEW max \in Nat, Shaped(nd, low, high, max),
           NEW nd2, NEW low2, NEW high2, Shaped(nd2, low2, high2, max),
           Keeps(nd, low, high, nd2, low2, high2), nd2 = NodesAfter(nd, rule, rhs)
    PROVE  HandsOn(rule, rhs, nd, nd2)
<1>1. nrhs[rule + 1] = 3 /\ lhs[rule + 1] = 35 /\ rule \in MakesNode
      /\ rightSides[rule][1] = 35 /\ rightSides[rule][2] \in 1..2 /\ rightSides[rule][3] = 35
  BY DEF nrhs, lhs, MakesNode, rightSides
<1>2. 1 \in 1..nrhs[rule + 1] /\ 3 \in 1..nrhs[rule + 1]
  BY <1>1
<1>3. PICK l \in DOMAIN nd : rhs[1] = [at |-> l]
  <2>1. Fits(35, rhs[1], a[1 - 1] + 1, a[1], nd, low, high)
    BY <1>1, <1>2 DEF SideFits
  <2> QED BY <2>1 DEF Fits
<1>4. PICK r \in DOMAIN nd : rhs[3] = [at |-> r]
  <2>1. Fits(35, rhs[3], a[3 - 1] + 1, a[3], nd, low, high)
    BY <1>1, <1>2 DEF SideFits
  <2> QED BY <2>1 DEF Fits
<1>5. rhs[1].at = l /\ rhs[3].at = r
  BY <1>3, <1>4
<1>6. PICK made : made = rhs[2].at
  OBVIOUS
<1>7. Minor(rule, rhs) = [at |-> made] /\ Minor(rule, rhs).at = made
  <2>1. Minor(rule, rhs) = [at |-> made]
    <3>1. rule = 12 \/ rule = 13
      OBVIOUS
    <3> QED BY <1>6, <3>1, Minors
  <2> QED BY <2>1
<1>8. made \in DOMAIN nd2 /\ nd2[made] = NewNode(rule, rhs)
  BY <1>1, <1>7 DEF NodesAfter, Grown
<1>9. PICK op : NewNode(rule, rhs) = Condition(l, op, r)
  <2>1. CASE rule = 12
    BY <1>5, <2>1, Nodes
  <2>2. CASE rule = 13
    BY <1>5, <2>2, Nodes
  <2> QED BY <2>1, <2>2
<1>10. IsCond(nd2, made) /\ nd2[made].left = l /\ nd2[made].right = r
  <2>1. PICK x : x = nd2[made]
    OBVIOUS
  <2>2. x.t = "N_COND" /\ x.left = l /\ x.right = r
    BY <1>8, <1>9, <2>1 DEF Condition
  <2> QED BY <2>1, <2>2 DEF IsCond
<1>11. BlocksOf(nd2, made) = {<<"node", made>>}
  BY <1>10 DEF BlocksOf, IsCond
<1>12. TreeOf(nd2, l) = TreeOf(nd, l) /\ TreeOf(nd2, r) = TreeOf(nd, r)
  <2>1. \A n \in DOMAIN nd : n \in DOMAIN nd2 /\ nd2[n] = nd[n]
    BY DEF Keeps
  <2> QED BY <2>1, TreeKept
<1>13. TreeOf(nd2, made) = {<<"node", made>>} \cup (TreeOf(nd, l) \cup TreeOf(nd, r))
  BY <1>8, <1>10, <1>11, <1>12, TreeJoins
<1>14. Claim(35, Minor(rule, rhs), nd2) = {<<"node", made>>} \cup (TreeOf(nd, l) \cup TreeOf(nd, r))
  BY <1>7, <1>13, Claims
<1>15. /\ Claim(rightSides[rule][1], rhs[1], nd) = TreeOf(nd, l)
       /\ Claim(rightSides[rule][3], rhs[3], nd) = TreeOf(nd, r)
       /\ Claim(rightSides[rule][2], rhs[2], nd) = {}
  <2>1. rightSides[rule][2] \in Silent
    BY <1>1 DEF Silent
  <2>2. PICK m, w : m = rhs[1] /\ w = rhs[3]
    OBVIOUS
  <2>3. Claim(35, m, nd) = TreeOf(nd, l) /\ Claim(35, w, nd) = TreeOf(nd, r)
    BY <1>5, <2>2, Claims
  <2> QED BY <1>1, <2>1, <2>2, <2>3, Claims
<1>16. NewBlocks(rule, rhs) = {<<"node", made>>}
  <2>1. rule = 12 \/ rule = 13
    OBVIOUS
  <2> QED BY <1>6, <2>1, Blocks
<1>17. \A b : Gathers(b, rule, rhs, nd) <=> \/ b \in NewBlocks(rule, rhs)
                                            \/ b \in Claim(rightSides[rule][1], rhs[1], nd)
                                            \/ b \in Claim(rightSides[rule][2], rhs[2], nd)
                                            \/ b \in Claim(rightSides[rule][3], rhs[3], nd)
  BY <1>1, GathersThree
<1> QED BY <1>1, <1>14, <1>15, <1>16, <1>17 DEF HandsOn

(* What a rule makes owns what the rule has gathered, and nothing else.    *)
LEMMA Hands ==
    ASSUME NEW rule \in 1..34, NEW rhs, NEW a, NEW nd, NEW low, NEW high, SideFits(rule, rhs, a, nd, low, high),
           NEW max \in Nat, Shaped(nd, low, high, max),
           NEW nd2, NEW low2, NEW high2, Shaped(nd2, low2, high2, max),
           Keeps(nd, low, high, nd2, low2, high2), nd2 = NodesAfter(nd, rule, rhs)
    PROVE  HandsOn(rule, rhs, nd, nd2)
<1>1. CASE rule \in (1..6) \cup (25..34)
  BY <1>1, QuietHands
<1>2. CASE rule \in (14..19) \cup {23, 24}
  BY <1>2, LiteralHands
<1>3. CASE rule \in {11, 20, 21, 22}
  <2>1. nd2 = nd
    BY <1>3 DEF NodesAfter, MakesNode
  <2> QED BY <1>3, <2>1, ListHands
<1>4. CASE rule \in 7..10
  BY <1>4, PredicateHands
<1>5. CASE rule \in {12, 13}
  BY <1>5, ConditionHands
<1>6. \/ rule \in (1..6) \cup (25..34) \/ rule \in (14..19) \cup {23, 24} \/ rule \in {11, 20, 21, 22}
      \/ rule \in 7..10 \/ rule \in {12, 13}
  OBVIOUS
<1> QED BY <1>1, <1>2, <1>3, <1>4, <1>5, <1>6

-----------------------------------------------------------------------------
(* Where a block comes from: a word of the text.                           *)
Placed(b, lo, hi) == \E kind \in {"string", "vector", "node"}, p \in lo..hi : b = <<kind, p>>

(* A block of some words is one of more words,                             *)
LEMMA PlacedWider ==
    ASSUME NEW b, NEW lo \in Nat, NEW hi \in Nat, NEW lo2 \in Nat, NEW hi2 \in Nat, lo2 <= lo, hi <= hi2,
           Placed(b, lo, hi)
    PROVE  Placed(b, lo2, hi2)
<1>1. lo..hi \subseteq lo2..hi2
  OBVIOUS
<1> QED BY <1>1 DEF Placed

(* and of no other words.                                                  *)
LEMMA PlacedApart ==
    ASSUME NEW b, NEW lo \in Nat, NEW hi \in Nat, NEW lo2 \in Nat, NEW hi2 \in Nat, hi < lo2,
           Placed(b, lo, hi), Placed(b, lo2, hi2)
    PROVE  FALSE
<1>1. PICK p \in lo..hi : b[2] = p
  BY DEF Placed
<1>2. PICK q \in lo2..hi2 : b[2] = q
  BY DEF Placed
<1> QED BY <1>1, <1>2

(* The place of a value.                                                   *)
LEMMA ValuePlace ==
    ASSUME NEW v, NEW lo, NEW hi, IsValue(v, lo, hi)
    PROVE  v.at \in lo..hi
BY DEF IsValue

(* The texts and the vector of a list lie where its values do.             *)
LEMMA ValuesPlaced ==
    ASSUME NEW vals, NEW lo, NEW hi, AreValues(vals, lo, hi)
    PROVE  /\ \A b \in Strings(vals) : Placed(b, lo, hi)
           /\ Placed(<<"vector", vals[1].at>>, lo, hi)
<1>1. IsList(vals) /\ Len(vals) >= 1 /\ \A i \in 1..Len(vals) : vals[i].at \in lo..hi
  BY ValuePlace DEF AreValues
<1>2. DOMAIN vals = 1..Len(vals) /\ Len(vals) \in Nat
  BY <1>1 DEF IsList
<1>3. 1 \in 1..Len(vals)
  BY <1>1, <1>2
<1>4. PICK p \in lo..hi : vals[1].at = p
  BY <1>1, <1>3
<1>5. Placed(<<"vector", vals[1].at>>, lo, hi)
  BY <1>4 DEF Placed
<1>6. ASSUME NEW b \in Strings(vals) PROVE Placed(b, lo, hi)
  <2>1. PICK i \in 1..Len(vals) : b = <<"string", vals[i].at>>
    BY <1>2 DEF Strings
  <2>2. PICK q \in lo..hi : vals[i].at = q
    BY <1>1
  <2> QED BY <2>1, <2>2 DEF Placed
<1> QED BY <1>5, <1>6

(* What a node owns lies among its words,                                  *)
LEMMA BlocksPlaced ==
    ASSUME NEW nd, NEW low, NEW high, NEW max, Forest(nd, low, high, max), NEW n \in DOMAIN nd, NEW b \in BlocksOf(nd, n)
    PROVE  Placed(b, low[n], high[n])
<1>1. n \in low[n]..high[n] /\ low[n] \in Nat /\ high[n] \in Nat
  BY DEF Forest, Shaped
<1>2. Placed(<<"node", n>>, low[n], high[n]) /\ Placed(<<"string", n>>, low[n], high[n])
  BY <1>1 DEF Placed
<1>3. CASE IsCond(nd, n)
  BY <1>2, <1>3 DEF BlocksOf, IsCond
<1>4. CASE ~IsCond(nd, n)
  <2>1. IsPredicate(nd[n], n, low[n], high[n])
    <3>1. ~IsCondition(nd[n])
      BY <1>4 DEF IsCondition, IsCond
    <3> QED BY <3>1 DEF Forest, NodeFits
  <2>2. PICK named \in BOOLEAN, op \in Operations : \E vals :
        /\ nd[n] = [t |-> "N_PRED", prop |-> [named |-> named, at |-> n], op |-> op, vals |-> vals]
        /\ op = "IS" => vals = <<Null>>
        /\ op # "IS" => AreValues(vals, low[n], high[n])
        /\ op # "IN" => Len(vals) = 1
    BY <2>1 DEF IsPredicate
  <2>3. PICK vals :
        /\ nd[n] = [t |-> "N_PRED", prop |-> [named |-> named, at |-> n], op |-> op, vals |-> vals]
        /\ op = "IS" => vals = <<Null>>
        /\ op # "IS" => AreValues(vals, low[n], high[n])
    BY <2>2
  <2>4. PICK p : p = [named |-> named, at |-> n]
    OBVIOUS
  <2>5. nd[n] = Predicate(p, op, vals) /\ p.at = n
    BY <2>3, <2>4 DEF Predicate
  <2>6. \/ b = <<"node", n>>
        \/ b \in Strings(vals)
        \/ p.named /\ b = <<"string", p.at>>
        \/ op = "IN" /\ b = <<"vector", vals[1].at>>
    BY <2>5, PredicateBlocks
  <2>7. CASE op = "IS"
    <3>1. Strings(<<Null>>) = {}
      <4>1. Text(Null) = {}
        BY DEF Text, Null
      <4> QED BY <4>1, StringsOne
    <3> QED BY <1>2, <2>3, <2>5, <2>6, <2>7, <3>1
  <2>8. CASE op # "IS"
    BY <1>2, <2>3, <2>5, <2>6, <2>8, ValuesPlaced
  <2> QED BY <2>7, <2>8
<1> QED BY <1>3, <1>4

(* and what a tree owns among the words of the tree.                       *)
LEMMA TreePlaced ==
    ASSUME NEW nd, NEW low, NEW high, NEW max, Forest(nd, low, high, max), NEW n \in DOMAIN nd, NEW b \in TreeOf(nd, n)
    PROVE  Placed(b, low[n], high[n])
<1>1. max \in Nat /\ Shaped(nd, low, high, max)
  BY DEF Forest
<1>2. PICK m \in Below(nd, n) : b \in BlocksOf(nd, m)
  BY DEF TreeOf
<1>3. m \in DOMAIN nd /\ low[n] <= low[m] /\ high[m] <= high[n]
  BY <1>1, <1>2, BelowFacts
<1>4. low[n] \in Nat /\ low[m] \in Nat /\ high[n] \in Nat /\ high[m] \in Nat
  BY <1>1, <1>3 DEF Shaped
<1>5. Placed(b, low[m], high[m])
  BY <1>2, <1>3, BlocksPlaced
<1> QED BY <1>3, <1>4, <1>5, PlacedWider

(* A symbol owns blocks from its words only.                               *)
LEMMA ClaimPlaced ==
    ASSUME NEW nd, NEW low, NEW high, NEW max, Forest(nd, low, high, max),
           NEW major, NEW m, NEW lo \in Nat, NEW hi \in Nat, Fits(major, m, lo, hi, nd, low, high),
           NEW b \in Claim(major, m, nd)
    PROVE  Placed(b, lo, hi)
<1>1. CASE major = 35
  <2>1. PICK n \in DOMAIN nd : m = [at |-> n] /\ lo <= low[n] /\ high[n] <= hi
    BY <1>1 DEF Fits
  <2>2. b \in TreeOf(nd, n)
    <3>1. m.at = n
      BY <2>1
    <3> QED BY <1>1, <3>1, Claims
  <2>3. Placed(b, low[n], high[n]) /\ low[n] \in Nat /\ high[n] \in Nat
    BY <2>2, TreePlaced DEF Forest, Shaped
  <2> QED BY <2>1, <2>3, PlacedWider
<1>2. CASE major = 37
  <2>1. m.at = hi /\ hi \in lo..hi
    BY <1>2 DEF Fits
  <2>2. b = <<"string", hi>>
    BY <1>2, <2>1, Claims
  <2> QED BY <2>1, <2>2 DEF Placed
<1>3. CASE major \in {39, 41}
  <2>1. PICK vals : m = [vals |-> vals] /\ AreValues(vals, lo, hi)
    BY <1>3 DEF Fits
  <2>2. b \in Strings(vals) \cup {<<"vector", vals[1].at>>}
    <3>1. m.vals = vals
      BY <2>1
    <3> QED BY <1>3, <3>1, Claims
  <2> QED BY <2>1, <2>2, ValuesPlaced
<1>4. CASE major = 38
  <2>1. IsValue(m, lo, hi)
    BY <1>4 DEF Fits
  <2>2. PICK p \in lo..hi : m.at = p
    BY <2>1, ValuePlace
  <2>3. b = <<"string", p>>
    BY <1>4, <2>2, Claims
  <2> QED BY <2>3 DEF Placed
<1>5. CASE major = 23
  <2>1. m.at = hi /\ hi \in lo..hi
    BY <1>5 DEF Fits
  <2>2. b = <<"string", hi>>
    BY <1>5, <2>1, Claims
  <2> QED BY <2>1, <2>2 DEF Placed
<1> QED BY <1>1, <1>2, <1>3, <1>4, <1>5 DEF Claim

-----------------------------------------------------------------------------
(* What an entry of the stack owns.                                        *)
ClaimOf(s, i, nd) == Claim(s[i].major, s[i].minor, nd)

(* The symbols on the stack own blocks from the words they stand for, the  *)
(* first entry none: no block has two owners.                              *)
LEMMA ClaimsApart ==
    ASSUME NEW s, NEW ends, NEW nd, NEW low, NEW high, NEW lo, NEW hi, NEW max,
           Pictured(s, ends, nd, low, high, lo, hi), Forest(nd, low, high, max), hi <= max
    PROVE  /\ ClaimOf(s, 1, nd) = {}
           /\ \A i \in 1..Len(s) : \A b \in ClaimOf(s, i, nd) : Placed(b, lo + 1, hi) /\ Placed(b, 1, max)
           /\ \A i \in 1..Len(s), j \in 1..Len(s) : \A b : b \in ClaimOf(s, i, nd) /\ b \in ClaimOf(s, j, nd) => i = j
<1>1. Len(s) \in Nat /\ Len(s) >= 1 /\ s[1] = Bottom /\ lo = ends[1] /\ hi = ends[Len(s)] /\ max \in Nat
  BY DEF Pictured, IsList, Forest
<1>2. (\A i \in 1..Len(s) : ends[i] \in Nat) /\ (\A i \in 2..Len(s) : ends[i - 1] <= ends[i])
  BY DEF Pictured
<1>3. ClaimOf(s, 1, nd) = {}
  <2>1. s[1].major = 0 /\ 0 \in Silent
    BY <1>1 DEF Bottom, Silent
  <2> QED BY <2>1, Claims DEF ClaimOf
<1>4. ASSUME NEW i \in 2..Len(s), NEW b \in ClaimOf(s, i, nd)
      PROVE  ends[i - 1] \in Nat /\ ends[i] \in Nat /\ Placed(b, ends[i - 1] + 1, ends[i])
  <2>1. ends[i - 1] \in Nat /\ ends[i] \in Nat /\ ends[i - 1] + 1 \in Nat
    <3>1. i \in 1..Len(s) /\ i - 1 \in 1..Len(s)
      BY <1>1
    <3>2. ends[i - 1] \in Nat /\ ends[i] \in Nat
      BY <1>2, <3>1
    <3> QED BY <3>2
  <2>2. Fits(s[i].major, s[i].minor, ends[i - 1] + 1, ends[i], nd, low, high)
    BY DEF Pictured
  <2> QED BY <1>4, <2>1, <2>2, ClaimPlaced DEF ClaimOf
<1>5. ASSUME NEW i \in 1..Len(s), NEW b \in ClaimOf(s, i, nd)
      PROVE  i \in 2..Len(s)
  BY <1>1, <1>3, <1>5
<1>6. ASSUME NEW i \in 1..Len(s), NEW b \in ClaimOf(s, i, nd)
      PROVE  Placed(b, lo + 1, hi) /\ Placed(b, 1, max)
  <2>1. i \in 2..Len(s)
    BY <1>5
  <2>2. ends[i - 1] \in Nat /\ ends[i] \in Nat /\ Placed(b, ends[i - 1] + 1, ends[i])
    BY <1>4, <1>6, <2>1
  <2>3. 1 \in 1..Len(s) /\ Len(s) \in 1..Len(s) /\ i - 1 \in 1..Len(s) /\ 1 <= i - 1 /\ i <= Len(s)
    BY <1>1, <2>1
  <2>4. lo <= ends[i - 1] /\ ends[i] <= hi /\ lo \in Nat /\ hi \in Nat
    BY <1>1, <1>2, <2>3, Rising
  <2>5. PICK x, y : x = ends[i - 1] /\ y = ends[i]
    OBVIOUS
  <2>6. x \in Nat /\ y \in Nat /\ lo <= x /\ y <= hi /\ Placed(b, x + 1, y)
    BY <2>2, <2>4, <2>5
  <2>7. x + 1 \in Nat /\ lo + 1 \in Nat /\ lo + 1 <= x + 1 /\ 1 <= x + 1 /\ y <= max
    BY <1>1, <2>4, <2>6
  <2> QED BY <1>1, <2>4, <2>6, <2>7, PlacedWider
<1>7. ASSUME NEW i \in 1..Len(s), NEW j \in 1..Len(s), NEW b, b \in ClaimOf(s, i, nd), b \in ClaimOf(s, j, nd), i < j
      PROVE  FALSE
  <2>1. i \in 2..Len(s) /\ j \in 2..Len(s)
    BY <1>5, <1>7
  <2>2. /\ ends[i - 1] \in Nat /\ ends[i] \in Nat /\ Placed(b, ends[i - 1] + 1, ends[i])
        /\ ends[j - 1] \in Nat /\ ends[j] \in Nat /\ Placed(b, ends[j - 1] + 1, ends[j])
    BY <1>4, <1>7, <2>1
  <2>3. i \in 1..Len(s) /\ j - 1 \in 1..Len(s) /\ i <= j - 1
    BY <1>1, <1>7, <2>1
  <2>4. ends[i] <= ends[j - 1]
    BY <1>1, <1>2, <2>3, Rising
  <2>5. PICK x, y, u, v : x = ends[i - 1] /\ y = ends[i] /\ u = ends[j - 1] /\ v = ends[j]
    OBVIOUS
  <2>6. x + 1 \in Nat /\ y \in Nat /\ u + 1 \in Nat /\ v \in Nat /\ y < u + 1 /\ Placed(b, x + 1, y) /\ Placed(b, u + 1, v)
    BY <2>2, <2>4, <2>5, SMTT(30)
  <2> QED BY <2>6, PlacedApart
<1>8. ASSUME NEW i \in 1..Len(s), NEW j \in 1..Len(s), NEW b, b \in ClaimOf(s, i, nd), b \in ClaimOf(s, j, nd)
      PROVE  i = j
  <2>1. ~(i < j) /\ ~(j < i)
    BY <1>7, <1>8
  <2> QED BY <1>1, <2>1
<1> QED BY <1>3, <1>6, <1>8

(* A symbol owns the same when nodes are added.                            *)
LEMMA ClaimKept ==
    ASSUME NEW nd, NEW low, NEW high, NEW max \in Nat, Shaped(nd, low, high, max),
           NEW nd2, NEW low2, NEW high2, Shaped(nd2, low2, high2, max), Keeps(nd, low, high, nd2, low2, high2),
           NEW major, NEW m, NEW lo, NEW hi, Fits(major, m, lo, hi, nd, low, high)
    PROVE  Claim(major, m, nd2) = Claim(major, m, nd)
<1>1. CASE major = 35
  <2>1. PICK n \in DOMAIN nd : m = [at |-> n]
    BY <1>1 DEF Fits
  <2>2. m.at = n
    BY <2>1
  <2>3. TreeOf(nd2, n) = TreeOf(nd, n)
    <3>1. \A k \in DOMAIN nd : k \in DOMAIN nd2 /\ nd2[k] = nd[k]
      BY DEF Keeps
    <3> QED BY <3>1, TreeKept
  <2>4. Claim(35, m, nd2) = TreeOf(nd2, n) /\ Claim(35, m, nd) = TreeOf(nd, n)
    BY <2>2, Claims
  <2> QED BY <1>1, <2>3, <2>4
<1>2. CASE major # 35
  BY <1>2 DEF Claim
<1> QED BY <1>1, <1>2

(* Some entry of the stack owns the block.                                 *)
OwnedBy(s, nd, b) == \E i \in 1..Len(s) : b \in ClaimOf(s, i, nd)

(* What the symbols own after a pop and a push.                            *)
LEMMA OwnedTopped ==
    ASSUME NEW s, IsList(s), NEW k \in 1..Len(s), NEW e, NEW nd, NEW b
    PROVE  OwnedBy(Append(SubSeq(s, 1, k), e), nd, b) <=>
              (\E i \in 1..k : b \in ClaimOf(s, i, nd)) \/ b \in Claim(e.major, e.minor, nd)
<1>1. PICK s2 : s2 = Append(SubSeq(s, 1, k), e)
  OBVIOUS
<1>2. IsTopped(s2, s, k, e)
  <2>1. IsTopped(Append(SubSeq(s, 1, k), e), s, k, e)
    BY Topped
  <2> QED BY <1>1, <2>1
<1>3. Len(s2) = k + 1 /\ s2[k + 1] = e /\ \A i \in 1..k : s2[i] = s[i]
  BY <1>2 DEF IsTopped
<1>4. \A i : i \in 1..(k + 1) <=> i \in 1..k \/ i = k + 1
  <2>1. k \in Nat
    BY DEF IsList
  <2> QED BY <2>1
<1>5. OwnedBy(s2, nd, b) <=> (\E i \in 1..k : b \in ClaimOf(s, i, nd)) \/ b \in Claim(e.major, e.minor, nd)
  <2>1. OwnedBy(s2, nd, b) <=> \E i \in 1..(k + 1) : b \in Claim(s2[i].major, s2[i].minor, nd)
    BY <1>3 DEF OwnedBy, ClaimOf
  <2>2. \A i \in 1..k : Claim(s2[i].major, s2[i].minor, nd) = ClaimOf(s, i, nd)
    BY <1>3 DEF ClaimOf
  <2> QED BY <1>3, <1>4, <2>1, <2>2
<1> QED BY <1>1, <1>5

(* yy_reduce passes what the popped symbols owned on to the pushed one,    *)
(* with what the rule's code allocates.                                    *)
LEMMA OwnedReduced ==
    ASSUME NEW s, NEW ends, NEW nd, NEW low, NEW high, NEW lo, NEW hi, NEW max,
           Pictured(s, ends, nd, low, high, lo, hi), Forest(nd, low, high, max),
           NEW rule \in 1..34, NEW n \in 1..6, Handled(s, rule, n), NEW k, k = Len(s) - n,
           NEW nd2, NEW low2, NEW high2, Forest(nd2, low2, high2, max), Keeps(nd, low, high, nd2, low2, high2),
           nd2 = NodesAfter(nd, rule, RightHand(s, n)), NEW b
    PROVE  OwnedBy(Append(SubSeq(s, 1, k), Entered(s, n, rule)), nd2, b) <=>
              OwnedBy(s, nd, b) \/ b \in NewBlocks(rule, RightHand(s, n))
<1>1. IsList(s) /\ Len(s) \in Nat /\ n < Len(s) /\ n = nrhs[rule + 1] /\ k \in 1..Len(s) /\ s[1] = Bottom
  BY DEF Pictured, IsList, Handled
<1>2. max \in Nat /\ Shaped(nd, low, high, max) /\ Shaped(nd2, low2, high2, max)
  BY DEF Forest
<1>3. PICK rhs : rhs = RightHand(s, n)
  OBVIOUS
<1>4. HandsOn(rule, rhs, nd, nd2)
  <2>1. SideFits(rule, rhs, Ends(s, ends, n), nd, low, high)
    BY <1>3, SideOf
  <2>2. nd2 = NodesAfter(nd, rule, rhs)
    BY <1>3
  <2> QED BY <1>2, <2>1, <2>2, Hands
<1>5. b \in Claim(lhs[rule + 1], Minor(rule, rhs), nd2) <=>
         b \in NewBlocks(rule, rhs) \/ \E j \in 1..n : b \in Claim(rightSides[rule][j], rhs[j], nd)
  BY <1>1, <1>4 DEF HandsOn, Gathers
<1>6. ASSUME NEW i \in 1..k PROVE ClaimOf(s, i, nd2) = ClaimOf(s, i, nd)
  <2>1. CASE i = 1
    <3>1. s[1].major = 0 /\ 0 \in Silent
      BY <1>1 DEF Bottom, Silent
    <3>2. \A m, t : Claim(0, m, t) = {}
      BY <3>1, Claims
    <3> QED BY <2>1, <3>1, <3>2 DEF ClaimOf
  <2>2. CASE i # 1
    <3>1. i \in 2..Len(s)
      BY <1>1, <2>2
    <3>2. Fits(s[i].major, s[i].minor, ends[i - 1] + 1, ends[i], nd, low, high)
      BY <3>1 DEF Pictured
    <3> QED BY <1>2, <3>2, ClaimKept DEF ClaimOf
  <2> QED BY <2>1, <2>2
<1>7. ASSUME NEW j \in 1..n PROVE ClaimOf(s, k + j, nd) = Claim(rightSides[rule][j], rhs[j], nd)
  <2>1. PICK i : i = Len(s) - n + j
    OBVIOUS
  <2>2. i = k + j /\ s[i].major = rightSides[rule][j] /\ rhs[j] = s[i].minor
    BY <1>3, <2>1 DEF Handled, RightHand
  <2> QED BY <2>2 DEF ClaimOf
<1>8. OwnedBy(s, nd, b) <=> \/ \E i \in 1..k : b \in ClaimOf(s, i, nd)
                            \/ \E j \in 1..n : b \in ClaimOf(s, k + j, nd)
  <2>1. PICK length : length = Len(s)
    OBVIOUS
  <2>2. length \in Nat /\ length = k + n /\ n \in Nat /\ k \in Nat
    BY <1>1, <2>1
  <2>3. \A i \in 1..length : i \in 1..k \/ (i - k \in 1..n /\ k + (i - k) = i)
    BY <2>2
  <2>4. (\A i \in 1..k : i \in 1..length) /\ \A j \in 1..n : k + j \in 1..length
    BY <2>2
  <2>5. OwnedBy(s, nd, b) <=> \E i \in 1..length : b \in ClaimOf(s, i, nd)
    BY <2>1 DEF OwnedBy
  <2>6. ASSUME NEW i \in 1..length, b \in ClaimOf(s, i, nd)
        PROVE  \/ \E h \in 1..k : b \in ClaimOf(s, h, nd)
               \/ \E j \in 1..n : b \in ClaimOf(s, k + j, nd)
    <3>1. CASE i \in 1..k
      BY <2>6, <3>1
    <3>2. CASE i - k \in 1..n /\ k + (i - k) = i
      <4>1. PICK j : j = i - k
        OBVIOUS
      <4>2. j \in 1..n /\ k + j = i
        BY <3>2, <4>1
      <4> QED BY <2>6, <4>2
    <3> QED BY <2>3, <3>1, <3>2
  <2> QED BY <2>4, <2>5, <2>6
<1>9. PICK e : e = Entered(s, n, rule)
  OBVIOUS
<1>10. e.major = lhs[rule + 1] /\ e.minor = Minor(rule, rhs)
  BY <1>3, <1>9 DEF Entered
<1>11. OwnedBy(Append(SubSeq(s, 1, k), e), nd2, b) <=>
          (\E i \in 1..k : b \in ClaimOf(s, i, nd2)) \/ b \in Claim(e.major, e.minor, nd2)
  BY <1>1, OwnedTopped
<1>12. OwnedBy(Append(SubSeq(s, 1, k), e), nd2, b) <=> OwnedBy(s, nd, b) \/ b \in NewBlocks(rule, rhs)
  BY <1>5, <1>6, <1>7, <1>8, <1>10, <1>11
<1> QED BY <1>3, <1>9, <1>12

-----------------------------------------------------------------------------
(* The heap while the text is parsed: each block is owned once, by a       *)
(* symbol or, a name the lexer has copied for the token at hand, by that   *)
(* token; but for texts that went with a stack.                            *)
Copied(b) == look = 23 /\ b = <<"string", Len(text)>>
Stray(b) == b[1] = "string" /\ (b[2] <= restart \/ stack = <<>>)

HeapInv ==
    /\ ~freedTwice
    /\ \A b \in DOMAIN heap : heap[b] = 1 /\ Placed(b, 1, Len(text))
    /\ \A b : OwnedBy(stack, node, b) \/ Copied(b) => b \in DOMAIN heap
    /\ \A b \in DOMAIN heap : OwnedBy(stack, node, b) \/ Copied(b) \/ Stray(b)

(* What Alloc adds to the heap.                                            *)
LEMMA Allocated ==
    ASSUME NEW blocks, NEW h, h = Alloc(blocks)
    PROVE  DOMAIN h = DOMAIN heap \cup blocks /\ \A b \in DOMAIN h : h[b] = IF b \in blocks THEN 1 ELSE heap[b]
BY DEF Alloc

(* The number of a name's token.                                           *)
LEMMA NameCode ==
    ASSUME NEW word \in Range(Terminals)
    PROVE  Code(word) = 23 <=> word = "IDENT"
<1>1. Code(word) \in 1..32 /\ Terminals[Code(word)] = word
  BY Codes
<1>2. PICK c : c = Code(word)
  OBVIOUS
<1>3. c \in 1..32 /\ Terminals[c] = word
  BY <1>1, <1>2
<1>4. c = 23 <=> Terminals[c] = "IDENT"
  BY <1>3 DEF Terminals
<1> QED BY <1>2, <1>3, <1>4

(* An empty stack and one that is set up own nothing.                      *)
LEMMA NothingOwned ==
    ASSUME NEW nd, NEW b
    PROVE  ~OwnedBy(<<>>, nd, b) /\ ~OwnedBy(<<Bottom>>, nd, b)
<1>1. ~OwnedBy(<<>>, nd, b)
  BY DEF OwnedBy
<1>2. PICK s : s = <<Bottom>>
  OBVIOUS
<1>3. Len(s) = 1 /\ s[1] = Bottom
  BY <1>2
<1>4. ClaimOf(s, 1, nd) = {}
  <2>1. s[1].major = 0 /\ 0 \in Silent
    BY <1>3 DEF Bottom, Silent
  <2> QED BY <2>1, Claims DEF ClaimOf
<1>5. \A i \in 1..1 : i = 1
  OBVIOUS
<1>6. ~OwnedBy(s, nd, b)
  BY <1>3, <1>4, <1>5 DEF OwnedBy
<1> QED BY <1>1, <1>2, <1>6

(* The parser is set up with a stack that owns nothing; what is left then  *)
(* is of the words before.                                                 *)
LEMMA ParseOwns ==
    ASSUME ParseInv, HeapInv, NEW symbol, Parse(symbol), UNCHANGED node
    PROVE  /\ \A b : OwnedBy(stack', node', b) <=> OwnedBy(stack, node, b)
           /\ \A b \in DOMAIN heap : Stray(b) => b[1] = "string" /\ (b[2] <= restart' \/ stack' = <<>>)
<1>1. CASE stack = <<>>
  <2>1. stack' = <<Bottom>> /\ restart' = Len(text)
    BY <1>1 DEF Parse, Bottom
  <2>2. \A b : ~OwnedBy(stack', node', b) /\ ~OwnedBy(stack, node, b)
    BY <1>1, <2>1, NothingOwned
  <2>3. ASSUME NEW b \in DOMAIN heap PROVE b[2] <= Len(text)
    <3>1. PICK p \in 1..Len(text) : b[2] = p
      BY DEF HeapInv, Placed
    <3> QED BY <3>1 DEF ParseInv
  <2> QED BY <2>1, <2>2, <2>3 DEF Stray
<1>2. CASE stack # <<>>
  <2>1. stack' = stack /\ restart' = restart /\ node' = node
    BY <1>2 DEF Parse
  <2> QED BY <2>1 DEF Stray
<1> QED BY <1>1, <1>2

(* The heap is accounted for at first.                                     *)
LEMMA HeapInit == ParserInit => HeapInv
<1> SUFFICES ASSUME ParserInit PROVE HeapInv
  OBVIOUS
<1>1. stack = <<>> /\ look = 44 /\ DOMAIN heap = {} /\ ~freedTwice
  BY DEF ParserInit, YYNOCODE
<1>2. \A b : ~OwnedBy(stack, node, b) /\ ~Copied(b)
  BY <1>1, NothingOwned DEF Copied
<1> QED BY <1>1, <1>2 DEF HeapInv

(* A token is read: it may be a name, which the lexer copies.              *)
LEMMA HeapToken ==
    ASSUME ParseInv, HeapInv, NEW word \in Range(Terminals), Token(word)
    PROVE  HeapInv'
<1>1. /\ look = 44 /\ Parse(Code(word)) /\ text' = Append(text, word) /\ node' = node /\ freedTwice' = freedTwice
      /\ heap' = IF word = "IDENT" THEN Alloc({<<"string", Len(text) + 1>>}) ELSE heap
  BY DEF Token, Reading, YYNOCODE
<1>2. Len(text) \in Nat /\ Len(text') = Len(text) + 1
  <2>1. text \in Seq(Range(Terminals))
    BY DEF ParseInv
  <2>2. Extends(Append(text, word), Range(Terminals), text, word)
    BY <2>1, Appended
  <2> QED BY <1>1, <2>2 DEF Extends
<1>3. PICK max : max = Len(text)
  OBVIOUS
<1>4. max \in Nat /\ Len(text') = max + 1
  BY <1>2, <1>3
<1>5. \A b : ~Copied(b)
  BY <1>1 DEF Copied
<1>6. \A b : Copied(b)' <=> word = "IDENT" /\ b = <<"string", max + 1>>
  <2>1. look' = Code(word)
    BY <1>1 DEF Parse
  <2> QED BY <1>4, <2>1, NameCode DEF Copied
<1>7. /\ \A b : OwnedBy(stack', node', b) <=> OwnedBy(stack, node, b)
      /\ \A b \in DOMAIN heap : Stray(b) => Stray(b)'
  BY <1>1, ParseOwns DEF Stray
<1>8. \A b : b \in DOMAIN heap' <=> b \in DOMAIN heap \/ (word = "IDENT" /\ b = <<"string", max + 1>>)
  <2>1. CASE word = "IDENT"
    <3>1. DOMAIN heap' = DOMAIN heap \cup {<<"string", max + 1>>}
      BY <1>1, <1>3, <2>1 DEF Alloc
    <3> QED BY <2>1, <3>1
  <2>2. CASE word # "IDENT"
    BY <1>1, <2>2
  <2> QED BY <2>1, <2>2
<1>9. \A b \in DOMAIN heap' : heap'[b] = 1
  <2>1. CASE word = "IDENT"
    BY <1>1, <2>1 DEF HeapInv, Alloc
  <2>2. CASE word # "IDENT"
    BY <1>1, <2>2 DEF HeapInv
  <2> QED BY <2>1, <2>2
<1>10. ASSUME NEW b \in DOMAIN heap' PROVE Placed(b, 1, max + 1)
  <2>1. CASE b \in DOMAIN heap
    <3>1. Placed(b, 1, max)
      BY <1>3, <2>1 DEF HeapInv
    <3>2. 1 \in Nat /\ max + 1 \in Nat /\ 1 <= 1 /\ max <= max + 1
      BY <1>4
    <3> QED BY <1>4, <3>1, <3>2, PlacedWider
  <2>2. CASE b = <<"string", max + 1>>
    <3>1. max + 1 \in 1..(max + 1)
      BY <1>4
    <3> QED BY <2>2, <3>1 DEF Placed
  <2> QED BY <1>8, <2>1, <2>2
<1>11. \A b : OwnedBy(stack', node', b) \/ Copied(b)' => b \in DOMAIN heap'
  BY <1>6, <1>7, <1>8 DEF HeapInv
<1>12. \A b \in DOMAIN heap' : OwnedBy(stack', node', b) \/ Copied(b)' \/ Stray(b)'
  BY <1>5, <1>6, <1>7, <1>8 DEF HeapInv
<1> QED BY <1>1, <1>4, <1>9, <1>10, <1>11, <1>12 DEF HeapInv

(* The text ends.                                                          *)
LEMMA HeapTextEnds ==
    ASSUME ParseInv, HeapInv, TextEnds
    PROVE  HeapInv'
<1>1. look = 44 /\ Parse(0) /\ UNCHANGED <<text, node, heap, freedTwice>>
  BY DEF TextEnds, Reading, YYNOCODE, EndOfText
<1>2. \A b : ~Copied(b) /\ ~Copied(b)'
  <2>1. look' = 0
    BY <1>1 DEF Parse
  <2> QED BY <1>1, <2>1 DEF Copied
<1>3. /\ \A b : OwnedBy(stack', node', b) <=> OwnedBy(stack, node, b)
      /\ \A b \in DOMAIN heap : Stray(b) => Stray(b)'
  BY <1>1, ParseOwns DEF Stray
<1> QED BY <1>1, <1>2, <1>3 DEF HeapInv

(* yy_shift puts the token on the stack, with the name it may be.          *)
LEMMA HeapShift ==
    ASSUME ParseInv, HeapInv, Shift
    PROVE  HeapInv'
<1>1. look \in 1..32 /\ InParse
  BY Shifts DEF Shift
<1>2. stack # <<>> /\ Len(stack) \in Nat /\ Len(stack) >= 1 /\ IsList(stack)
  BY <1>1, AtWork
<1>3. PICK k : k = Len(stack)
  OBVIOUS
<1>4. PICK e : e = [stateno |-> Action, major |-> look, minor |-> [word |-> Last(text), at |-> Len(text)]]
  OBVIOUS
<1>5. stack' = Append(SubSeq(stack, 1, k), e) /\ k \in 1..Len(stack)
  <2>1. SubSeq(stack, 1, k) = stack
    BY <1>2, <1>3 DEF IsList
  <2> QED BY <1>2, <1>3, <1>4, <2>1 DEF Shift, Push
<1>6. UNCHANGED <<text, node, heap, freedTwice, restart>> /\ look' = 44
  BY DEF Shift, YYNOCODE
<1>7. ASSUME NEW b PROVE b \in Claim(e.major, e.minor, node) <=> Copied(b)
  <2>1. e.major = look /\ e.minor.at = Len(text)
    BY <1>4
  <2>2. CASE look = 23
    BY <2>1, <2>2, Claims DEF Copied
  <2>3. CASE look # 23
    <3>1. look \in Silent
      BY <1>1, <2>3 DEF Silent
    <3> QED BY <2>1, <2>3, <3>1, Claims DEF Copied
  <2> QED BY <2>2, <2>3
<1>8. ASSUME NEW b PROVE OwnedBy(stack', node', b) <=> OwnedBy(stack, node, b) \/ Copied(b)
  <2>1. OwnedBy(Append(SubSeq(stack, 1, k), e), node, b) <=>
           (\E i \in 1..k : b \in ClaimOf(stack, i, node)) \/ b \in Claim(e.major, e.minor, node)
    BY <1>2, <1>5, OwnedTopped
  <2> QED BY <1>3, <1>5, <1>6, <1>7, <2>1 DEF OwnedBy
<1>9. \A b : ~Copied(b)'
  BY <1>6 DEF Copied
<1>10. \A b : Stray(b) => Stray(b)'
  BY <1>2, <1>6 DEF Stray
<1> QED BY <1>6, <1>8, <1>9, <1>10 DEF HeapInv

(* yy_reduce runs a rule's code.                                           *)
LEMMA HeapReduce ==
    ASSUME ParseInv, HeapInv, Reduce
    PROVE  HeapInv'
<1>1. PICK rule \in 1..34, n \in {1, 3, 4, 6} : \E low, high, ends : IsReduction(rule, n, low, high, ends)
  BY Reduction
<1>2. PICK low, high, ends : IsReduction(rule, n, low, high, ends)
  BY <1>1
<1>3. PICK max, k, rhs : max = Len(text) /\ k = Len(stack) - n /\ rhs = RightHand(stack, n)
  OBVIOUS
<1>4. PICK ends2, low2, high2 :
        /\ Forest(node', low2, high2, max) /\ Keeps(node, low, high, node', low2, high2)
        /\ Pictured(stack', ends2, node', low2, high2, restart, Consumed)
  BY <1>2, <1>3 DEF IsReduction, IsReduced
<1>5. UNCHANGED <<text, look, freedTwice, restart>>
  BY DEF Reduce
<1>6. max \in Nat /\ Consumed <= max
  BY <1>3 DEF Consumed, ParseInv
<1>7. ASSUME NEW b
      PROVE  OwnedBy(stack', node', b) <=> OwnedBy(stack, node, b) \/ b \in NewBlocks(rule, rhs)
  <2>1. /\ Pictured(stack, ends, node, low, high, restart, Consumed) /\ Forest(node, low, high, max)
        /\ Handled(stack, rule, n) /\ node' = NodesAfter(node, rule, RightHand(stack, n))
        /\ stack' = Append(SubSeq(stack, 1, k), Entered(stack, n, rule))
    BY <1>2, <1>3 DEF IsReduction
  <2>2. n \in 1..6
    OBVIOUS
  <2>3. OwnedBy(Append(SubSeq(stack, 1, k), Entered(stack, n, rule)), node', b) <=>
           OwnedBy(stack, node, b) \/ b \in NewBlocks(rule, RightHand(stack, n))
    BY <1>3, <1>4, <2>1, <2>2, OwnedReduced
  <2> QED BY <1>3, <2>1, <2>3
<1>8. heap' = Alloc(NewBlocks(rule, rhs))
  BY <1>2, <1>3 DEF IsReduction
<1>9. DOMAIN heap' = DOMAIN heap \cup NewBlocks(rule, rhs) /\ \A b \in DOMAIN heap' : heap'[b] = 1
  <2>1. PICK new, h : new = NewBlocks(rule, rhs) /\ h = heap'
    OBVIOUS
  <2>2. DOMAIN h = DOMAIN heap \cup new /\ \A b \in DOMAIN h : h[b] = IF b \in new THEN 1 ELSE heap[b]
    BY <1>8, <2>1, Allocated
  <2>3. \A b \in DOMAIN heap : heap[b] = 1
    BY DEF HeapInv
  <2>4. \A b \in DOMAIN h : h[b] = 1
    BY <2>2, <2>3
  <2> QED BY <2>1, <2>2, <2>4
<1>10. ASSUME NEW b \in DOMAIN heap' PROVE Placed(b, 1, max)
  <2>1. CASE b \in DOMAIN heap
    BY <1>3, <2>1 DEF HeapInv
  <2>2. CASE b \in NewBlocks(rule, rhs)
    <3>1. PICK i \in 1..Len(stack') : b \in ClaimOf(stack', i, node')
      BY <1>7, <2>2 DEF OwnedBy
    <3>2. PICK s2, nd2, hi : s2 = stack' /\ nd2 = node' /\ hi = Consumed
      OBVIOUS
    <3>3. Pictured(s2, ends2, nd2, low2, high2, restart, hi) /\ Forest(nd2, low2, high2, max) /\ hi <= max
      BY <1>4, <1>6, <3>2
    <3>4. \A j \in 1..Len(s2) : \A c \in ClaimOf(s2, j, nd2) : Placed(c, 1, max)
      BY <3>3, ClaimsApart
    <3> QED BY <3>1, <3>2, <3>4
  <2> QED BY <1>9, <2>1, <2>2
<1>11. (stack # <<>>) /\ (stack' # <<>>)
  BY <1>2, <1>4, SMTT(30) DEF IsReduction, Pictured
<1>12. \A b : (Copied(b)' <=> Copied(b)) /\ (Stray(b)' <=> Stray(b))
  BY <1>5, <1>11 DEF Copied, Stray
<1>13. \A b : OwnedBy(stack', node', b) \/ Copied(b)' => b \in DOMAIN heap'
  BY <1>7, <1>9, <1>12 DEF HeapInv
<1>14. \A b \in DOMAIN heap' : OwnedBy(stack', node', b) \/ Copied(b)' \/ Stray(b)'
  BY <1>7, <1>9, <1>12 DEF HeapInv
<1> QED BY <1>3, <1>5, <1>9, <1>10, <1>13, <1>14 DEF HeapInv

-----------------------------------------------------------------------------
(* What FreeBlocks leaves, when no block is asked for more often than it   *)
(* is referenced.                                                          *)
LEMMA Freed ==
    ASSUME NEW times, FreeBlocks(times), ~freedTwice,
           \A b \in DOMAIN heap : heap[b] \in Nat \ {0},
           \A b \in DOMAIN times : b \in DOMAIN heap /\ times[b] \in Nat /\ times[b] <= heap[b]
    PROVE  /\ ~freedTwice'
           /\ \A b : b \in DOMAIN heap' <=> b \in DOMAIN heap /\ (b \in DOMAIN times => times[b] < heap[b])
           /\ \A b \in DOMAIN heap' : heap'[b] = heap[b] - IF b \in DOMAIN times THEN times[b] ELSE 0
<1> DEFINE Down(b) == IF b \in DOMAIN times THEN times[b] ELSE 0
<1>1. heap' = [b \in {c \in DOMAIN heap : Down(c) = 0 \/ heap[c] > Down(c)} |-> heap[b] - Down(b)]
  BY DEF FreeBlocks
<1>2. ~freedTwice'
  <2>1. freedTwice' = (freedTwice \/ \E b \in DOMAIN times : b \notin DOMAIN heap \/ heap[b] < times[b])
    BY DEF FreeBlocks
  <2>2. \A b \in DOMAIN times : b \in DOMAIN heap /\ ~(heap[b] < times[b])
    OBVIOUS
  <2> QED BY <2>1, <2>2
<1>3. PICK D : D = {c \in DOMAIN heap : Down(c) = 0 \/ heap[c] > Down(c)}
  OBVIOUS
<1>4. DOMAIN heap' = D /\ \A b \in D : heap'[b] = heap[b] - Down(b)
  BY <1>1, <1>3
<1>5. ASSUME NEW b PROVE b \in D <=> b \in DOMAIN heap /\ (b \in DOMAIN times => times[b] < heap[b])
  <2>1. CASE b \in DOMAIN times
    <3>1. Down(b) = times[b] /\ b \in DOMAIN heap /\ times[b] \in Nat /\ heap[b] \in Nat \ {0}
      BY <2>1
    <3> HIDE DEF Down
    <3>2. (Down(b) = 0 \/ heap[b] > Down(b)) <=> times[b] < heap[b]
      BY <3>1
    <3> QED BY <1>3, <2>1, <3>1, <3>2
  <2>2. CASE b \notin DOMAIN times
    BY <1>3, <2>2
  <2> QED BY <2>1, <2>2
<1> QED BY <1>2, <1>4, <1>5

(* What the destructors free is what the symbols that have one own.        *)
LEMMA DestroyedIs ==
    ASSUME NEW s, NEW ends, NEW low, NEW high, NEW lo, NEW hi, NEW max,
           Pictured(s, ends, node, low, high, lo, hi), Forest(node, low, high, max), NEW i \in 1..Len(s)
    PROVE  /\ s[i].major \in {35, 37, 39, 41} => Destroyed(s[i]) = ClaimOf(s, i, node)
           /\ s[i].major \notin {35, 37, 39, 41} => Destroyed(s[i]) = {}
<1>1. PICK major, m : major = s[i].major /\ m = s[i].minor
  OBVIOUS
<1>2. Destroyed(s[i]) = CASE major = 35 -> TreeBlocks(m.at)
                          [] major = 37 -> IF m.named THEN {<<"string", m.at>>} ELSE {}
                          [] major \in {39, 41} -> Strings(m.vals) \cup {<<"vector", m.vals[1].at>>}
                          [] OTHER -> {}
  BY <1>1, Zenon DEF Destroyed, cond, prop, vallist, multivals
<1>3. ClaimOf(s, i, node) = Claim(major, m, node)
  BY <1>1 DEF ClaimOf
<1>4. CASE major = 35
  <2>1. i # 1
    <3>1. s[1] = Bottom
      BY DEF Pictured
    <3>2. s[1].major = 0
      BY <3>1 DEF Bottom
    <3>3. i = 1 => major = 0
      BY <1>1, <3>2
    <3> QED BY <1>4, <3>3
  <2>2. Fits(major, m, ends[i - 1] + 1, ends[i], node, low, high)
    <3>1. i \in 2..Len(s)
      BY <2>1 DEF Pictured, IsList
    <3> QED BY <1>1, <3>1 DEF Pictured
  <2>3. PICK n \in DOMAIN node : m = [at |-> n]
    BY <1>4, <2>2 DEF Fits
  <2>4. m.at = n
    BY <2>3
  <2>5. TreeBlocks(n) = TreeOf(node, n)
    BY TreeBlocksAre DEF Forest
  <2>6. Claim(35, m, node) = TreeOf(node, n)
    BY <2>4, Claims
  <2>7. Destroyed(s[i]) = TreeBlocks(n)
    BY <1>2, <1>4, <2>4
  <2>8. Destroyed(s[i]) = ClaimOf(s, i, node)
    BY <1>3, <1>4, <2>5, <2>6, <2>7, Zenon
  <2>9. s[i].major \in {35, 37, 39, 41}
    BY <1>1, <1>4
  <2> QED BY <2>8, <2>9
<1>5. CASE major = 37
  <2>1. PICK c : c = IF m.named THEN {<<"string", m.at>>} ELSE {}
    OBVIOUS
  <2>2. Destroyed(s[i]) = c
    BY <1>2, <1>5, <2>1
  <2>3. Claim(37, m, node) = c
    BY <2>1, Claims, Zenon
  <2>4. Destroyed(s[i]) = ClaimOf(s, i, node)
    BY <1>3, <1>5, <2>2, <2>3, Zenon
  <2> QED BY <1>1, <1>5, <2>4
<1>6. CASE major = 39
  <2>1. PICK c : c = Strings(m.vals) \cup {<<"vector", m.vals[1].at>>}
    OBVIOUS
  <2>2. Destroyed(s[i]) = c
    BY <1>2, <1>6, <2>1
  <2>3. Claim(39, m, node) = c
    BY <2>1, Claims, Zenon
  <2>4. Destroyed(s[i]) = ClaimOf(s, i, node)
    BY <1>3, <1>6, <2>2, <2>3, Zenon
  <2> QED BY <1>1, <1>6, <2>4
<1>7. CASE major = 41
  <2>1. PICK c : c = Strings(m.vals) \cup {<<"vector", m.vals[1].at>>}
    OBVIOUS
  <2>2. Destroyed(s[i]) = c
    BY <1>2, <1>7, <2>1
  <2>3. Claim(41, m, node) = c
    BY <2>1, Claims, Zenon
  <2>4. Destroyed(s[i]) = ClaimOf(s, i, node)
    BY <1>3, <1>7, <2>2, <2>3, Zenon
  <2> QED BY <1>1, <1>7, <2>4
<1>8. CASE major \notin {35, 37, 39, 41}
  BY <1>1, <1>2, <1>8
<1> QED BY <1>4, <1>5, <1>6, <1>7, <1>8

(* The others own a text at most.                                          *)
LEMMA Textual ==
    ASSUME NEW major, major \notin {35, 37, 39, 41}, NEW m, NEW nd, NEW b
    PROVE  b \in Claim(major, m, nd) <=>
              (major = 23 \/ (major = 38 /\ m.type = "T_STRING")) /\ b = <<"string", m.at>>
<1>1. CASE major = 23
  BY <1>1, Claims
<1>2. CASE major = 38
  BY <1>2, Claims
<1>3. CASE major \notin {23, 38}
  BY <1>3 DEF Claim
<1> QED BY <1>1, <1>2, <1>3

(* Each block is freed by one destructor at most.                          *)
LEMMA DroppedOnce ==
    ASSUME NEW s, NEW ends, NEW low, NEW high, NEW lo, NEW hi, NEW max,
           Pictured(s, ends, node, low, high, lo, hi), Forest(node, low, high, max), hi <= max, NEW b
    PROVE  Cardinality({i \in DOMAIN s : b \in Destroyed(s[i])}) = IF \E i \in DOMAIN s : b \in Destroyed(s[i]) THEN 1 ELSE 0
<1>1. DOMAIN s = 1..Len(s)
  BY DEF Pictured, IsList
<1>2. \A i \in 1..Len(s) : b \in Destroyed(s[i]) => b \in ClaimOf(s, i, node)
  BY DestroyedIs
<1>3. \A i \in 1..Len(s), j \in 1..Len(s) : b \in Destroyed(s[i]) /\ b \in Destroyed(s[j]) => i = j
  BY <1>2, ClaimsApart
<1>4. CASE \E i \in DOMAIN s : b \in Destroyed(s[i])
  <2>1. PICK i \in DOMAIN s : b \in Destroyed(s[i])
    BY <1>4
  <2>2. {j \in DOMAIN s : b \in Destroyed(s[j])} = {i}
    BY <1>1, <1>3, <2>1
  <2> QED BY <1>4, <2>2, FS_Singleton
<1>5. CASE ~ \E i \in DOMAIN s : b \in Destroyed(s[i])
  <2>1. {j \in DOMAIN s : b \in Destroyed(s[j])} = {}
    BY <1>5
  <2> QED BY <1>5, <2>1, FS_EmptySet
<1> QED BY <1>4, <1>5

(* When the stack is popped each block of its symbols is freed once, and   *)
(* what is left are texts.                                                 *)
LEMMA HeapDropped ==
    ASSUME ParseInv, HeapInv, InParse, PopAll, UNCHANGED <<text, node, restart>>, look' = YYNOCODE
    PROVE  HeapInv'
<1>1. stack # <<>>
  BY AtWork
<1>2. PICK low, high, ends :
        /\ Forest(node, low, high, Len(text))
        /\ Pictured(stack, ends, node, low, high, restart, Consumed)
  BY <1>1 DEF ParseInv, InStep
<1>3. PICK max, s, hi : max = Len(text) /\ s = stack /\ hi = Consumed
  OBVIOUS
<1>4. Forest(node, low, high, max) /\ Pictured(s, ends, node, low, high, restart, hi) /\ hi <= max
  BY <1>2, <1>3 DEF Consumed, ParseInv
<1>5. PICK times : times = [b \in UNION {Destroyed(s[i]) : i \in DOMAIN s} |->
                               Cardinality({i \in DOMAIN s : b \in Destroyed(s[i])})]
  OBVIOUS
<1>6. FreeBlocks(times) /\ stack' = <<>>
  BY <1>3, <1>5 DEF PopAll
<1>7. \A b : b \in DOMAIN times <=> \E i \in DOMAIN s : b \in Destroyed(s[i])
  BY <1>5
<1>8. \A b \in DOMAIN times : times[b] = 1
  <2>1. \A b \in DOMAIN times : times[b] = Cardinality({i \in DOMAIN s : b \in Destroyed(s[i])})
    BY <1>5
  <2> QED BY <1>4, <1>7, <2>1, DroppedOnce
<1>9. DOMAIN s = 1..Len(s)
  BY <1>4 DEF Pictured, IsList
<1>10. \A i \in 1..Len(s) :
          /\ s[i].major \in {35, 37, 39, 41} => Destroyed(s[i]) = ClaimOf(s, i, node)
          /\ s[i].major \notin {35, 37, 39, 41} => Destroyed(s[i]) = {}
  BY <1>4, DestroyedIs
<1>11. \A b \in DOMAIN times : b \in DOMAIN heap
  <2>1. \A b \in DOMAIN times : OwnedBy(stack, node, b)
    BY <1>3, <1>7, <1>9, <1>10 DEF OwnedBy
  <2> QED BY <2>1 DEF HeapInv
<1>12. \A b \in DOMAIN heap : heap[b] = 1
  BY DEF HeapInv
<1>13. /\ ~freedTwice'
       /\ \A b : b \in DOMAIN heap' <=> b \in DOMAIN heap /\ (b \in DOMAIN times => times[b] < heap[b])
       /\ \A b \in DOMAIN heap' : heap'[b] = heap[b] - IF b \in DOMAIN times THEN times[b] ELSE 0
  <2>1. ~freedTwice
    BY DEF HeapInv
  <2>2. \A b \in DOMAIN heap : heap[b] \in Nat \ {0}
    BY <1>12
  <2>3. \A b \in DOMAIN times : b \in DOMAIN heap /\ times[b] \in Nat /\ times[b] <= heap[b]
    BY <1>8, <1>11, <1>12
  <2> QED BY <1>6, <2>1, <2>2, <2>3, Freed
<1>14. \A b : b \in DOMAIN heap' <=> b \in DOMAIN heap /\ b \notin DOMAIN times
  BY <1>8, <1>12, <1>13
<1>15. \A b \in DOMAIN heap' : heap'[b] = 1
  BY <1>12, <1>13, <1>14
<1>16. ASSUME NEW b \in DOMAIN heap' PROVE b[1] = "string"
  <2>1. OwnedBy(stack, node, b) \/ Copied(b) \/ Stray(b)
    BY <1>14 DEF HeapInv
  <2>2. CASE OwnedBy(stack, node, b)
    <3>1. PICK i \in 1..Len(s) : b \in ClaimOf(s, i, node)
      BY <1>3, <2>2 DEF OwnedBy
    <3>2. s[i].major \notin {35, 37, 39, 41}
      BY <1>7, <1>9, <1>10, <1>14, <3>1
    <3>3. b = <<"string", s[i].minor.at>>
      BY <3>1, <3>2, Textual DEF ClaimOf
    <3> QED BY <3>3
  <2>3. CASE Copied(b)
    BY <2>3 DEF Copied
  <2>4. CASE Stray(b)
    BY <2>4 DEF Stray
  <2> QED BY <2>1, <2>2, <2>3, <2>4
<1>17. \A b : ~OwnedBy(stack', node', b) /\ ~Copied(b)'
  BY <1>6, NothingOwned DEF Copied, YYNOCODE
<1>18. \A b \in DOMAIN heap' : Placed(b, 1, Len(text'))
  BY <1>14 DEF HeapInv
<1>19. \A b \in DOMAIN heap' : Stray(b)'
  BY <1>6, <1>16 DEF Stray
<1> QED BY <1>13, <1>15, <1>17, <1>18, <1>19 DEF HeapInv

-----------------------------------------------------------------------------
(* Only a value has a type.                                                *)
LEMMA TypedMinor ==
    ASSUME NEW major \in 1..32 \cup 35..42, NEW m, NEW lo, NEW hi, NEW nd, NEW low, NEW high,
           Fits(major, m, lo, hi, nd, low, high)
    PROVE  "type" \in DOMAIN m <=> major = 38
<1>1. CASE major \in 1..32
  <2>1. m = [word |-> Terminals[major], at |-> hi]
    BY <1>1 DEF Fits
  <2>2. DOMAIN m = {"word", "at"}
    BY <2>1
  <2> QED BY <1>1, <2>2
<1>2. CASE major = 35
  <2>1. PICK n : m = [at |-> n]
    BY <1>2 DEF Fits
  <2> QED BY <1>2, <2>1
<1>3. CASE major = 36
  <2>1. PICK word : m = [word |-> word, at |-> hi]
    BY <1>3 DEF Fits
  <2> QED BY <1>3, <2>1
<1>4. CASE major = 37
  <2>1. PICK named : m = [named |-> named, at |-> hi]
    BY <1>4 DEF Fits
  <2> QED BY <1>4, <2>1
<1>5. CASE major = 38
  <2>1. IsValue(m, lo, hi)
    BY <1>5 DEF Fits
  <2>2. CASE \E type, p : m = [type |-> type, at |-> p]
    BY <1>5, <2>2
  <2>3. CASE \E p, shifts : m = [type |-> "T_TIME", at |-> p, shifts |-> shifts]
    BY <1>5, <2>3
  <2> QED BY <2>1, <2>2, <2>3 DEF IsValue
<1>6. CASE major \in {39, 41}
  <2>1. PICK vals : m = [vals |-> vals]
    BY <1>6 DEF Fits
  <2> QED BY <1>6, <2>1
<1>7. CASE major = 40
  <2>1. PICK base, shifts : m = [base |-> base, shifts |-> shifts]
    BY <1>7 DEF Fits
  <2> QED BY <1>7, <2>1
<1>8. CASE major = 42
  <2>1. PICK unit, at : m = [unit |-> unit, at |-> at]
    BY <1>8 DEF Fits
  <2> QED BY <1>8, <2>1
<1>9. \/ major \in 1..32 \/ major = 35 \/ major = 36 \/ major = 37 \/ major = 38 \/ major \in {39, 41}
      \/ major = 40 \/ major = 42
  OBVIOUS
<1> QED BY <1>1, <1>2, <1>3, <1>4, <1>5, <1>6, <1>7, <1>8, <1>9

(* The symbols that are found on the stack.                                *)
LEMMA Symbols ==
    ASSUME NEW t \in 1..77
    PROVE  entered[t] \in 1..32 \cup 35..42
BY SMTT(30) DEF entered

(* The texts that MemoryAccounted counts as unclaimed are those owned by   *)
(* symbols with no destructor, and the lexer's.                            *)
LEMMA UnclaimedIs ==
    ASSUME ParseInv, stack # <<>>, NEW b
    PROVE  b \in Unclaimed <=>
              \/ \E i \in 1..Len(stack) : stack[i].major \notin {35, 37, 39, 41} /\ b \in ClaimOf(stack, i, node)
              \/ Copied(b)
<1>1. PICK low, high, ends : Pictured(stack, ends, node, low, high, restart, Consumed)
  BY DEF ParseInv, InStep
<1>2. Code("IDENT") = 23
  <2>1. "IDENT" \in Range(Terminals)
    <3>1. 23 \in DOMAIN Terminals /\ Terminals[23] = "IDENT"
      BY DEF Terminals
    <3> QED BY <3>1 DEF Range
  <2> QED BY <2>1, NameCode
<1>3. DOMAIN stack = 1..Len(stack)
  BY <1>1 DEF Pictured, IsList
<1>4. ASSUME NEW i \in 1..Len(stack)
      PROVE  /\ "type" \in DOMAIN stack[i].minor <=> stack[i].major = 38
             /\ stack[i].major \in 0..42
  <2>1. CASE i = 1
    <3>1. PICK m : m = stack[1].minor
      OBVIOUS
    <3>2. m = [at |-> 0] /\ stack[1].major = 0
      BY <1>1, <3>1 DEF Pictured, Bottom
    <3>3. "type" \notin DOMAIN m
      BY <3>2
    <3> QED BY <2>1, <3>1, <3>2, <3>3
  <2>2. CASE i # 1
    <3>1. PICK major, m, lo, hi : major = stack[i].major /\ m = stack[i].minor /\ lo = ends[i - 1] + 1 /\ hi = ends[i]
      OBVIOUS
    <3>2. i \in 2..Len(stack)
      BY <1>1, <2>2 DEF Pictured, IsList
    <3>3. Fits(major, m, lo, hi, node, low, high)
      BY <1>1, <3>1, <3>2 DEF Pictured
    <3>4. major \in 1..32 \cup 35..42
      <4>1. PICK t \in 1..77 : major = entered[t]
        BY <1>1, <3>1, <3>2 DEF Pictured, Linked
      <4> QED BY <4>1, Symbols
    <3>5. "type" \in DOMAIN m <=> major = 38
      BY <3>3, <3>4, TypedMinor
    <3>6. major \in 0..42
      BY <3>4
    <3> QED BY <3>1, <3>5, <3>6
  <2> QED BY <2>1, <2>2
<1>5. ASSUME NEW i \in 1..Len(stack)
      PROVE  /\ stack[i].major = 23 \/ ("type" \in DOMAIN stack[i].minor /\ stack[i].minor.type = "T_STRING")
             /\ b = <<"string", stack[i].minor.at>>
             <=> stack[i].major \notin {35, 37, 39, 41} /\ b \in ClaimOf(stack, i, node)
  <2>1. PICK major, m : major = stack[i].major /\ m = stack[i].minor
    OBVIOUS
  <2>2. "type" \in DOMAIN m <=> major = 38
    BY <1>4, <2>1
  <2>3. major \notin {35, 37, 39, 41} => (b \in Claim(major, m, node) <=>
           (major = 23 \/ (major = 38 /\ m.type = "T_STRING")) /\ b = <<"string", m.at>>)
    BY Textual
  <2>4. ClaimOf(stack, i, node) = Claim(major, m, node)
    BY <2>1 DEF ClaimOf
  <2> QED BY <2>1, <2>2, <2>3, <2>4
<1>6. b \in Unclaimed <=>
         \/ \E i \in 1..Len(stack) :
               /\ stack[i].major = 23 \/ ("type" \in DOMAIN stack[i].minor /\ stack[i].minor.type = "T_STRING")
               /\ b = <<"string", stack[i].minor.at>>
         \/ look = 23 /\ b = <<"string", Len(text)>>
  BY <1>2, <1>3 DEF Unclaimed
<1> QED BY <1>5, <1>6 DEF Copied

(* A query that is not there has no blocks.                                *)
LEMMA NoBlocks == \A b : b \notin QueryBlocks(<<>>)
<1>1. DOMAIN <<>> = {}
  OBVIOUS
<1>2. \A s : s \notin Values(<<>>)
  BY <1>1 DEF Values
<1> QED BY <1>1, <1>2 DEF QueryBlocks

(* While the text is parsed each block has its one owner, or is a text     *)
(* that may be lost.                                                       *)
LEMMA HeapAccounts ==
    ASSUME ParseInv, HeapInv, phase \in {"reading", "closing"}, query = NoQuery
    PROVE  MemoryAccounted
<1>1. \A b : b \notin QueryBlocks(query.nodes)
  BY NoBlocks DEF NoQuery
<1>2. DOMAIN query.nodes = {}
  BY DEF NoQuery
<1>3. phase \notin {"parsed", "crashed", "converted"}
  OBVIOUS
<1>4. ASSUME NEW b PROVE Owners(b) = Cardinality({i \in DOMAIN stack : b \in Destroyed(stack[i])})
                                        + (IF b \in Unclaimed THEN 1 ELSE 0) + 0 + 0
  BY <1>1, <1>3, Zenon DEF Owners
<1>5. ASSUME NEW b \in DOMAIN heap PROVE Owners(b) = 1 \/ (Owners(b) = 0 /\ Lost(b))
  <2>1. CASE stack = <<>>
    <3>1. look = 44 /\ DOMAIN stack = {}
      BY <2>1 DEF ParseInv, YYNOCODE
    <3>2. b \notin Unclaimed
      <4>1. look # Code("IDENT")
        <5>1. "IDENT" \in Range(Terminals)
          <6>1. 23 \in DOMAIN Terminals /\ Terminals[23] = "IDENT"
            BY DEF Terminals
          <6> QED BY <6>1 DEF Range
        <5>2. PICK c : c = Code("IDENT")
          OBVIOUS
        <5>3. c \in 1..32
          BY <5>1, <5>2, Codes
        <5>4. c # 44
          BY <5>3
        <5> QED BY <3>1, <5>2, <5>4
      <4> QED BY <3>1, <4>1 DEF Unclaimed
    <3>3. Cardinality({i \in DOMAIN stack : b \in Destroyed(stack[i])}) = 0
      <4>1. {i \in DOMAIN stack : b \in Destroyed(stack[i])} = {}
        BY <3>1
      <4> QED BY <4>1, FS_EmptySet
    <3>4. Owners(b) = 0
      BY <1>4, <3>2, <3>3
    <3>5. Lost(b)
      <4>1. ~OwnedBy(stack, node, b) /\ ~Copied(b)
        BY <2>1, <3>1, NothingOwned DEF Copied
      <4>2. Stray(b)
        BY <4>1 DEF HeapInv
      <4> QED BY <2>1, <4>2 DEF Lost, Stray, ParseInv
    <3> QED BY <3>4, <3>5
  <2>2. CASE stack # <<>>
    <3>1. PICK low, high, ends :
            /\ Forest(node, low, high, Len(text))
            /\ Pictured(stack, ends, node, low, high, restart, Consumed)
      BY <2>2 DEF ParseInv, InStep
    <3>2. PICK max, s, hi : max = Len(text) /\ s = stack /\ hi = Consumed
      OBVIOUS
    <3>3. Forest(node, low, high, max) /\ Pictured(s, ends, node, low, high, restart, hi) /\ hi <= max
      BY <3>1, <3>2 DEF Consumed, ParseInv
    <3>4. DOMAIN s = 1..Len(s)
      BY <3>3 DEF Pictured, IsList
    <3>5. PICK P, Q : P = (\E i \in DOMAIN s : b \in Destroyed(s[i])) /\ Q = (b \in Unclaimed)
      OBVIOUS
    <3>6. P <=> \E i \in 1..Len(s) : s[i].major \in {35, 37, 39, 41} /\ b \in ClaimOf(s, i, node)
      <4>1. \A i \in 1..Len(s) :
               /\ s[i].major \in {35, 37, 39, 41} => Destroyed(s[i]) = ClaimOf(s, i, node)
               /\ s[i].major \notin {35, 37, 39, 41} => Destroyed(s[i]) = {}
        BY <3>3, DestroyedIs
      <4> QED BY <3>4, <3>5, <4>1
    <3>7. Q <=> \/ \E i \in 1..Len(s) : s[i].major \notin {35, 37, 39, 41} /\ b \in ClaimOf(s, i, node)
                \/ Copied(b)
      BY <2>2, <3>2, <3>5, UnclaimedIs
    <3>8. P \/ Q <=> OwnedBy(stack, node, b) \/ Copied(b)
      BY <3>2, <3>6, <3>7 DEF OwnedBy
    <3>9. ASSUME P, Q PROVE FALSE
      <4>1. PICK i \in 1..Len(s) : s[i].major \in {35, 37, 39, 41} /\ b \in ClaimOf(s, i, node)
        BY <3>6, <3>9
      <4>2. ASSUME NEW j \in 1..Len(s), s[j].major \notin {35, 37, 39, 41}, b \in ClaimOf(s, j, node) PROVE FALSE
        <5>1. i = j
          BY <3>3, <4>1, <4>2, ClaimsApart
        <5> QED BY <4>1, <4>2, <5>1
      <4>3. ASSUME Copied(b) PROVE FALSE
        <5>1. hi = max - 1 /\ b[2] = max /\ max \in Nat
          BY <3>2, <4>3 DEF Copied, Consumed, ParseInv
        <5>2. Placed(b, restart + 1, hi)
          BY <3>3, <4>1, ClaimsApart
        <5>3. PICK p \in (restart + 1)..hi : b[2] = p
          BY <5>2 DEF Placed
        <5>4. restart \in Nat
          BY DEF ParseInv
        <5> QED BY <5>1, <5>3, <5>4
      <4> QED BY <3>7, <3>9, <4>2, <4>3
    <3>10. Cardinality({i \in DOMAIN s : b \in Destroyed(s[i])}) = IF P THEN 1 ELSE 0
      BY <3>3, <3>5, DroppedOnce
    <3>11. Owners(b) = (IF P THEN 1 ELSE 0) + (IF Q THEN 1 ELSE 0)
      <4>1. PICK c : c = Cardinality({i \in DOMAIN s : b \in Destroyed(s[i])})
        OBVIOUS
      <4>2. Owners(b) = c + (IF Q THEN 1 ELSE 0) + 0 + 0
        BY <1>4, <3>2, <3>5, <4>1
      <4>3. c = IF P THEN 1 ELSE 0
        BY <3>10, <4>1
      <4>4. P \in BOOLEAN /\ Q \in BOOLEAN
        BY <3>5
      <4> QED BY <4>2, <4>3, <4>4
    <3>12. CASE P \/ Q
      <4>1. P \in BOOLEAN /\ Q \in BOOLEAN
        BY <3>5
      <4>2. (P /\ ~Q) \/ (~P /\ Q)
        BY <3>9, <3>12, <4>1
      <4>3. CASE P /\ ~Q
        BY <3>11, <4>3
      <4>4. CASE ~P /\ Q
        BY <3>11, <4>4
      <4> QED BY <4>2, <4>3, <4>4
    <3>13. CASE ~(P \/ Q)
      <4>1. Owners(b) = 0
        BY <3>11, <3>13
      <4>2. Stray(b)
        BY <3>8, <3>13 DEF HeapInv
      <4>3. b[2] <= restart /\ b[1] = "string"
        BY <2>2, <4>2 DEF Stray
      <4>4. b[2] \in Int /\ restart \in Int
        <5>1. PICK p \in 1..Len(text) : b[2] = p
          BY DEF HeapInv, Placed
        <5> QED BY <5>1 DEF ParseInv
      <4>5. restart >= b[2]
        BY <4>3, <4>4
      <4> QED BY <4>1, <4>3, <4>5 DEF Lost
    <3> QED BY <3>12, <3>13
  <2> QED BY <2>1, <2>2
<1>6. \A b \in DOMAIN heap : heap[b] >= Owners(b) /\ (heap[b] = Owners(b) \/ Lost(b))
  <2>1. \A b \in DOMAIN heap : heap[b] = 1
    BY DEF HeapInv
  <2>2. ASSUME NEW b \in DOMAIN heap PROVE heap[b] >= Owners(b) /\ (heap[b] = Owners(b) \/ Lost(b))
    <3>1. PICK h, o : h = heap[b] /\ o = Owners(b)
      OBVIOUS
    <3>2. h = 1 /\ (o = 1 \/ (o = 0 /\ Lost(b)))
      BY <1>5, <2>1, <3>1
    <3>3. h >= o /\ (h = o \/ Lost(b))
      BY <3>2
    <3> QED BY <3>1, <3>3
  <2> QED BY <2>2
<1>7. ~freedTwice
  BY DEF HeapInv
<1> QED BY <1>2, <1>6, <1>7, Zenon DEF MemoryAccounted

-----------------------------------------------------------------------------
(* The references of the tree and of the query to a block.                 *)
TreeUse(b) ==
    IF phase \in {"parsed", "crashed", "converted"} /\ ctx.root # NoNode /\ b \in TreeOf(node, ctx.root) THEN 1 ELSE 0
QueryUse(nodes, b) ==
    IF b \in QueryBlocks(nodes) THEN IF b[1] \in {"string", "cast"} THEN Holders(nodes, b) ELSE 1 ELSE 0

(* The heap after the parse: what the tree and the query refer to is       *)
(* allocated and counted; before SIQuery_Normalize nothing was cast.       *)
UseInv ==
    /\ ~freedTwice
    /\ IsFiniteSet(DOMAIN query.nodes)
    /\ \A b : TreeUse(b) = 1 \/ b \in QueryBlocks(query.nodes) => b \in DOMAIN heap
    /\ \A b \in DOMAIN heap :
          /\ heap[b] \in Nat \ {0}
          /\ heap[b] >= TreeUse(b) + QueryUse(query.nodes, b)
          /\ heap[b] = TreeUse(b) + QueryUse(query.nodes, b) \/ Lost(b)
    /\ phase \in {"parsed", "refused", "crashed"} => query = NoQuery /\ \A b \in DOMAIN heap : Placed(b, 1, Len(text))
    /\ phase = "converted" => ctx.root # NoNode
    /\ verdict = "none" => \A b \in DOMAIN heap : b[1] # "cast"

(* The memory before and after the parse.                                  *)
MemInv ==
    /\ QueryInv
    /\ phase \in {"reading", "closing"} => HeapInv /\ query = NoQuery
    /\ phase \notin {"reading", "closing"} => UseInv

(* How many values hold a block.                                           *)
LEMMA HoldersAre ==
    ASSUME text \in Seq(Range(Terminals)), NEW nodes, IsFiniteSet(DOMAIN nodes), NEW b
    PROVE  /\ IsFiniteSet({s \in Values(nodes) : b \in Held(ValueAt(nodes, s))})
           /\ Holders(nodes, b) \in Nat
           /\ Holders(nodes, b) = 0 <=> \A s \in Values(nodes) : b \notin Held(ValueAt(nodes, s))
<1>1. PICK len : len = Len(text) /\ len \in Nat
  OBVIOUS
<1>2. PICK D, I : D = DOMAIN nodes /\ I = 1..len
  OBVIOUS
<1>3. IsFiniteSet(D \X I)
  <2>1. IsFiniteSet(I)
    BY <1>1, <1>2, FS_Interval
  <2> QED BY <1>2, <2>1, FS_Product
<1>4. PICK H : H = {s \in Values(nodes) : b \in Held(ValueAt(nodes, s))}
  OBVIOUS
<1>5. H \in SUBSET (D \X I)
  BY <1>1, <1>2, <1>4 DEF Values
<1>6. IsFiniteSet(H)
  BY <1>3, <1>5, FS_Subset
<1>7. Cardinality(H) \in Nat /\ (Cardinality(H) = 0 <=> H = {})
  BY <1>6, FS_CardinalityType, FS_EmptySet
<1>8. Holders(nodes, b) = Cardinality(H)
  BY <1>4 DEF Holders
<1>9. H = {} <=> \A s \in Values(nodes) : b \notin Held(ValueAt(nodes, s))
  BY <1>4
<1> QED BY <1>4, <1>6, <1>7, <1>8, <1>9

(* The blocks of a query that no value holds.                              *)
Bare(nodes, b) ==
    \/ \E n \in DOMAIN nodes : b = <<"qnode", n>>
    \/ \E n \in DOMAIN nodes : nodes[n].t = "N_PRED" /\ nodes[n].pred.t = "PRED_IN" /\ b = <<"invals", n>>

(* The blocks of a query: those its values hold, and the bare ones.        *)
LEMMA QueryBlocksAre ==
    ASSUME NEW nodes, NEW b
    PROVE  b \in QueryBlocks(nodes) <=> (\E s \in Values(nodes) : b \in Held(ValueAt(nodes, s))) \/ Bare(nodes, b)
<1> DEFINE A == UNION {Held(ValueAt(nodes, s)) : s \in Values(nodes)}
           B == {<<"qnode", n>> : n \in DOMAIN nodes}
           C == {<<"invals", n>> : n \in {m \in DOMAIN nodes : nodes[m].t = "N_PRED" /\ nodes[m].pred.t = "PRED_IN"}}
<1>1. QueryBlocks(nodes) = A \cup B \cup C
  BY DEF QueryBlocks
<1>2. b \in QueryBlocks(nodes) <=> b \in A \/ b \in B \/ b \in C
  <2> HIDE DEF A, B, C
  <2> QED BY <1>1
<1>3. b \in A <=> \E s \in Values(nodes) : b \in Held(ValueAt(nodes, s))
  OBVIOUS
<1>4. b \in B \/ b \in C <=> Bare(nodes, b)
  BY DEF Bare
<1> HIDE DEF A, B, C
<1> QED BY <1>2, <1>3, <1>4, Zenon

(* What a query's use of a block comes to.                                 *)
LEMMA UsesAre ==
    ASSUME text \in Seq(Range(Terminals)), NEW nodes, IsFiniteSet(DOMAIN nodes), NEW b
    PROVE  /\ QueryUse(nodes, b) \in Nat
           /\ b \in QueryBlocks(nodes) <=> QueryUse(nodes, b) >= 1
           /\ b[1] \in {"string", "cast"} => QueryUse(nodes, b) = Holders(nodes, b)
           /\ b[1] \notin {"string", "cast"} => QueryUse(nodes, b) = IF b \in QueryBlocks(nodes) THEN 1 ELSE 0
<1>1. PICK h : h = Holders(nodes, b)
  OBVIOUS
<1>2. h \in Nat /\ (h = 0 <=> \A s \in Values(nodes) : b \notin Held(ValueAt(nodes, s)))
  BY <1>1, HoldersAre
<1>3. b \in QueryBlocks(nodes) <=> (\E s \in Values(nodes) : b \in Held(ValueAt(nodes, s))) \/ Bare(nodes, b)
  BY QueryBlocksAre
<1>4. Bare(nodes, b) => b[1] \notin {"string", "cast"}
  BY DEF Bare
<1>5. b[1] \in {"string", "cast"} => (b \in QueryBlocks(nodes) <=> h >= 1)
  BY <1>2, <1>3, <1>4
<1>6. PICK q, u, e : q = (b \in QueryBlocks(nodes)) /\ u = QueryUse(nodes, b) /\ e = (b[1] \in {"string", "cast"})
  OBVIOUS
<1>7. u = IF q THEN IF e THEN h ELSE 1 ELSE 0
  BY <1>1, <1>6, Zenon DEF QueryUse
<1>8. e => (q <=> h >= 1)
  BY <1>5, <1>6
<1>9. u \in Nat /\ (q <=> u >= 1) /\ (e => u = h) /\ (~e => u = IF q THEN 1 ELSE 0)
  <2>1. q \in BOOLEAN /\ e \in BOOLEAN
    BY <1>6
  <2>2. h = 0 \/ h >= 1
    BY <1>2
  <2> QED BY <1>2, <1>7, <1>8, <2>1, <2>2
<1> QED BY <1>1, <1>6, <1>9

(* After the parse the owners are the tree and the query.                  *)
LEMMA UseAccounts ==
    ASSUME ParseInv, phase \notin {"reading", "closing"}, UseInv
    PROVE  MemoryAccounted
<1>1. stack = <<>> /\ look = 44 /\ DOMAIN stack = {}
  BY DEF ParseInv, YYNOCODE
<1>2. \A b : b \notin Unclaimed
  <2>1. look # Code("IDENT")
    <3>1. "IDENT" \in Range(Terminals)
      <4>1. 23 \in DOMAIN Terminals /\ Terminals[23] = "IDENT"
        BY DEF Terminals
      <4> QED BY <4>1 DEF Range
    <3>2. PICK c : c = Code("IDENT")
      OBVIOUS
    <3>3. c \in 1..32
      BY <3>1, <3>2, Codes
    <3>4. c # 44
      BY <3>3
    <3> QED BY <1>1, <3>2, <3>4
  <2> QED BY <1>1, <2>1 DEF Unclaimed
<1>3. ASSUME NEW b PROVE Owners(b) = TreeUse(b) + QueryUse(query.nodes, b)
  <2>1. Cardinality({i \in DOMAIN stack : b \in Destroyed(stack[i])}) = 0
    <3>1. {i \in DOMAIN stack : b \in Destroyed(stack[i])} = {}
      BY <1>1
    <3> QED BY <3>1, FS_EmptySet
  <2>2. ctx.root # NoNode => TreeBlocks(ctx.root) = TreeOf(node, ctx.root)
    <3>1. PICK low, high : Forest(node, low, high, Len(text))
      BY DEF ParseInv, InStep
    <3>2. PICK max : max = Len(text)
      OBVIOUS
    <3>3. max \in Nat /\ Shaped(node, low, high, max)
      BY <3>1, <3>2 DEF Forest
    <3>4. ctx.root # NoNode => ctx.root \in DOMAIN node
      BY DEF ParseInv
    <3> QED BY <3>3, <3>4, TreeBlocksAre
  <2>3. PICK c, u, t, q :
          /\ c = Cardinality({i \in DOMAIN stack : b \in Destroyed(stack[i])})
          /\ u = IF b \in Unclaimed THEN 1 ELSE 0
          /\ t = IF phase \in {"parsed", "crashed", "converted"} /\ ctx.root # NoNode /\ b \in TreeBlocks(ctx.root)
                 THEN 1 ELSE 0
          /\ q = IF b \in QueryBlocks(query.nodes)
                 THEN IF b[1] \in {"string", "cast"} THEN Holders(query.nodes, b) ELSE 1
                 ELSE 0
    OBVIOUS
  <2>4. Owners(b) = c + u + t + q
    BY <2>3, Zenon DEF Owners
  <2>5. c = 0 /\ u = 0
    BY <1>2, <2>1, <2>3
  <2>6. t = TreeUse(b) /\ q = QueryUse(query.nodes, b)
    BY <2>2, <2>3, Zenon DEF TreeUse, QueryUse
  <2>7. t \in Nat /\ q \in Nat
    <3>1. q \in Nat
      BY <2>6, UsesAre DEF ParseInv, UseInv
    <3> QED BY <2>3, <3>1
  <2> QED BY <2>4, <2>5, <2>6, <2>7
<1>4. \A b \in DOMAIN heap : heap[b] >= Owners(b) /\ (heap[b] = Owners(b) \/ Lost(b))
  BY <1>3 DEF UseInv
<1>5. QueryBlocks(query.nodes) \subseteq DOMAIN heap /\ ~freedTwice
  BY DEF UseInv
<1> QED BY <1>4, <1>5, Zenon DEF MemoryAccounted

(* The invariant of the memory says that it is accounted for.              *)
LEMMA MemAccounts == MemInv => MemoryAccounted
<1> SUFFICES ASSUME MemInv PROVE MemoryAccounted
  OBVIOUS
<1>1. ParseInv
  BY DEF MemInv, QueryInv
<1>2. CASE phase \in {"reading", "closing"}
  BY <1>1, <1>2, HeapAccounts DEF MemInv
<1>3. CASE phase \notin {"reading", "closing"}
  BY <1>1, <1>3, UseAccounts DEF MemInv
<1> QED BY <1>2, <1>3

(* No query, no use.                                                       *)
LEMMA NoUse ==
    query = NoQuery =>
        /\ IsFiniteSet(DOMAIN query.nodes)
        /\ \A b : b \notin QueryBlocks(query.nodes) /\ QueryUse(query.nodes, b) = 0
<1> SUFFICES ASSUME query = NoQuery
             PROVE  /\ IsFiniteSet(DOMAIN query.nodes)
                    /\ \A b : b \notin QueryBlocks(query.nodes) /\ QueryUse(query.nodes, b) = 0
  OBVIOUS
<1>1. query.nodes = <<>> /\ DOMAIN query.nodes = {}
  BY DEF NoQuery
<1>2. \A b : b \notin QueryBlocks(query.nodes)
  BY <1>1, NoBlocks
<1> QED BY <1>1, <1>2, FS_EmptySet DEF QueryUse

(* What is left when the stack has gone is lost.                           *)
LEMMA UseRefused ==
    (ParseInv /\ HeapInv /\ stack = <<>> /\ look = YYNOCODE /\ phase = "parsed" /\ ctx.root = NoNode /\ query = NoQuery)
        => UseInv
<1> SUFFICES ASSUME ParseInv, HeapInv, stack = <<>>, look = YYNOCODE, phase = "parsed", ctx.root = NoNode, query = NoQuery
             PROVE  UseInv
  OBVIOUS
<1>1. \A b : TreeUse(b) = 0
  BY DEF TreeUse
<1>2. \A b : ~OwnedBy(stack, node, b) /\ ~Copied(b)
  BY NothingOwned DEF Copied, YYNOCODE
<1>3. \A b \in DOMAIN heap : b[1] = "string" /\ Lost(b)
  BY <1>2 DEF HeapInv, Stray, Lost
<1>4. \A b \in DOMAIN heap : heap[b] = 1
  BY DEF HeapInv
<1>5. ASSUME NEW b \in DOMAIN heap
      PROVE  /\ heap[b] \in Nat \ {0}
             /\ heap[b] >= TreeUse(b) + QueryUse(query.nodes, b)
             /\ heap[b] = TreeUse(b) + QueryUse(query.nodes, b) \/ Lost(b)
  <2>1. PICK h, t, q : h = heap[b] /\ t = TreeUse(b) /\ q = QueryUse(query.nodes, b)
    OBVIOUS
  <2>2. h = 1 /\ t = 0 /\ q = 0
    BY <1>1, <1>4, <2>1, NoUse
  <2>3. h \in Nat \ {0} /\ h >= t + q
    BY <2>2
  <2> QED BY <1>3, <2>1, <2>3
<1>6. \A b \in DOMAIN heap : b[1] # "cast"
  BY <1>3
<1>7. IsFiniteSet(DOMAIN query.nodes) /\ \A b : b \notin QueryBlocks(query.nodes)
  BY NoUse
<1>8. ~freedTwice /\ \A b \in DOMAIN heap : Placed(b, 1, Len(text))
  BY DEF HeapInv
<1>9. \A b : ~(TreeUse(b) = 1)
  BY <1>1
<1> QED BY <1>5, <1>6, <1>7, <1>8, <1>9 DEF UseInv

(* The table accepts at the end of the text only.                          *)
LEMMA AcceptsAtEnd ==
    ASSUME NEW x \in 0..32, FindShiftAction(15, x) = 78
    PROVE  x = 0
BY DEF FindShiftAction, Listed, yy_action, yy_lookahead, YY_SHIFT_USE_DFLT, YY_SHIFT_COUNT, yy_shift_ofst, yy_default

(* The tree that is handed over owns what the one symbol of the stack did. *)
LEMMA UseAccepted ==
    ASSUME ParseInv, HeapInv, AcceptClause, query = NoQuery, UNCHANGED <<query, verdict>>
    PROVE  UseInv'
<1>1. /\ InParse /\ stack # <<>> /\ Len(stack) = 2 /\ stack[2].major = 35
      /\ Last(stack) = stack[2]
  BY Accepts DEF AcceptClause
<1>2. PICK n \in DOMAIN node : stack[2].minor = [at |-> n]
  BY Accepts DEF AcceptClause
<1>3. PICK low, high, ends :
        /\ Forest(node, low, high, Len(text))
        /\ Pictured(stack, ends, node, low, high, restart, Consumed)
  BY <1>1 DEF ParseInv, InStep
<1>4. n # NoNode
  BY <1>3 DEF Forest, Shaped, NoNode
<1>5. ctx'.root = n /\ stack' = <<>> /\ phase' = "parsed" /\ UNCHANGED <<text, node, heap, freedTwice, restart>>
  <2>1. ctx = [root |-> ctx.root, ok |-> ctx.ok]
    BY DEF ParseInv
  <2>2. ctx' = [ctx EXCEPT !.root = n]
    BY <1>1, <1>2 DEF AcceptClause
  <2>3. ctx'.root = n
    BY <2>1, <2>2
  <2> QED BY <2>3 DEF AcceptClause
<1>6. \A b : ~Copied(b)
  <2>1. stack[2].stateno = 15
    <3>1. PICK t : t = stack[Len(stack)].stateno
      OBVIOUS
    <3>2. t \in 0..77 /\ look \in 0..32 /\ Action = FindShiftAction(t, look)
      BY <1>1, <3>1, AtWork
    <3>3. IsAction(Action, t, look) /\ Action = 78
      BY <3>2, ShiftTable DEF AcceptClause, YYNSTATE
    <3> QED BY <1>1, <3>1, <3>3 DEF IsAction
  <2>2. look \in 0..32 /\ FindShiftAction(15, look) = 78
    BY <1>1, <2>1, AtWork DEF AcceptClause, YYNSTATE
  <2>3. look = 0
    BY <2>2, AcceptsAtEnd
  <2> QED BY <2>3 DEF Copied
<1>7. \A b : OwnedBy(stack, node, b) <=> b \in TreeOf(node, n)
  <2>1. ClaimOf(stack, 2, node) = TreeOf(node, n)
    <3>1. PICK m : m = stack[2].minor
      OBVIOUS
    <3>2. m.at = n
      BY <1>2, <3>1
    <3>3. Claim(35, m, node) = TreeOf(node, n)
      BY <3>2, Claims
    <3> QED BY <1>1, <3>1, <3>3 DEF ClaimOf
  <2>2. ClaimOf(stack, 1, node) = {}
    <3>1. stack[1] = Bottom
      BY <1>3 DEF Pictured
    <3>2. stack[1].major = 0 /\ 0 \in Silent
      BY <3>1 DEF Bottom, Silent
    <3> QED BY <3>2, Claims DEF ClaimOf
  <2>3. \A i : i \in 1..2 <=> i = 1 \/ i = 2
    OBVIOUS
  <2> QED BY <1>1, <2>1, <2>2, <2>3 DEF OwnedBy
<1>8. ASSUME NEW b PROVE TreeUse(b)' = IF b \in TreeOf(node, n) THEN 1 ELSE 0
  BY <1>4, <1>5 DEF TreeUse
<1>9. \A b \in DOMAIN heap : b \in TreeOf(node, n) \/ Lost(b)'
  <2>1. ASSUME NEW b \in DOMAIN heap, Stray(b) PROVE Lost(b)'
    <3>1. b[1] = "string" /\ b[2] <= restart
      BY <1>1, <2>1 DEF Stray
    <3>2. b[2] \in Int /\ restart \in Int
      <4>1. PICK p \in 1..Len(text) : b[2] = p
        BY DEF HeapInv, Placed
      <4> QED BY <4>1 DEF ParseInv
    <3>3. restart' >= b[2]
      BY <1>5, <3>1, <3>2
    <3> QED BY <3>1, <3>3 DEF Lost
  <2> QED BY <1>6, <1>7, <2>1 DEF HeapInv
<1>10. /\ query' = NoQuery /\ IsFiniteSet(DOMAIN query.nodes)'
       /\ \A b : (b \notin QueryBlocks(query.nodes))' /\ (QueryUse(query.nodes, b) = 0)'
  <2>1. (query = NoQuery =>
            /\ IsFiniteSet(DOMAIN query.nodes)
            /\ \A b : b \notin QueryBlocks(query.nodes) /\ QueryUse(query.nodes, b) = 0)'
    BY NoUse, PTL
  <2>2. query' = NoQuery
    OBVIOUS
  <2> QED BY <2>1, <2>2
<1>11. ASSUME NEW b \in DOMAIN heap'
       PROVE  /\ heap'[b] \in Nat \ {0}
              /\ heap'[b] >= TreeUse(b)' + QueryUse(query.nodes, b)'
              /\ heap'[b] = TreeUse(b)' + QueryUse(query.nodes, b)' \/ Lost(b)'
  <2>1. PICK h, t, q : h = heap'[b] /\ t = TreeUse(b)' /\ q = QueryUse(query.nodes, b)'
    OBVIOUS
  <2>2. h = 1 /\ q = 0 /\ t = IF b \in TreeOf(node, n) THEN 1 ELSE 0
    BY <1>5, <1>8, <1>10, <2>1 DEF HeapInv
  <2>3. h \in Nat \ {0} /\ h >= t + q /\ (b \in TreeOf(node, n) => h = t + q)
    BY <2>2
  <2> QED BY <1>5, <1>9, <2>1, <2>3
<1>12. \A b : TreeUse(b)' = 1 => b \in DOMAIN heap'
  BY <1>5, <1>7, <1>8 DEF HeapInv
<1>13. ~freedTwice' /\ \A b \in DOMAIN heap' : Placed(b, 1, Len(text')) /\ b[1] # "cast"
  <2>1. \A b : Placed(b, 1, Len(text)) => b[1] # "cast"
    BY DEF Placed
  <2> QED BY <1>5, <2>1 DEF HeapInv
<1> QED BY <1>5, <1>10, <1>11, <1>12, <1>13 DEF UseInv

-----------------------------------------------------------------------------
(* The memory is accounted for at first.                                   *)
LEMMA MemInit == Init => MemInv
<1> SUFFICES ASSUME Init PROVE MemInv
  OBVIOUS
<1>1. ParserInit /\ query = NoQuery
  BY DEF Init
<1>2. QueryInv /\ HeapInv
  BY <1>1, QueryInit, HeapInit
<1>3. phase = "reading"
  BY <1>1 DEF ParserInit
<1> QED BY <1>1, <1>2, <1>3 DEF MemInv

(* The parser takes a step.                                                *)
LEMMA MemParsing ==
    ASSUME MemInv, Parsing
    PROVE  MemInv'
<1>1. QueryInv' /\ ParseInv /\ ParseInv'
  <2>1. QueryInv /\ ParseInv
    BY DEF MemInv, QueryInv
  <2>2. QueryInv'
    BY <2>1, QueryBefore
  <2> QED BY <2>1, <2>2 DEF QueryInv
<1>2. (Engine \/ ReadText) /\ UNCHANGED <<spec, query, verdict>>
  BY DEF Parsing
<1>3. phase \in {"reading", "closing"} /\ phase' \in {"reading", "closing", "parsed"}
  BY <1>1, <1>2, ParseMoves
<1>4. HeapInv /\ query = NoQuery
  BY <1>3 DEF MemInv
<1>5. query' = NoQuery
  BY <1>2, <1>4
<1>6. ASSUME NEW word \in Range(Terminals), Token(word) PROVE MemInv'
  <2>1. phase' = "reading"
    BY <1>6 DEF Token, Reading
  <2>2. HeapInv'
    BY <1>1, <1>4, <1>6, HeapToken
  <2> QED BY <1>1, <1>5, <2>1, <2>2 DEF MemInv
<1>7. ASSUME TextEnds PROVE MemInv'
  <2>1. phase' = "closing"
    BY <1>7 DEF TextEnds
  <2>2. HeapInv'
    BY <1>1, <1>4, <1>7, HeapTextEnds
  <2> QED BY <1>1, <1>5, <2>1, <2>2 DEF MemInv
<1>8. ASSUME Shift PROVE MemInv'
  <2>1. phase' = phase
    BY <1>8 DEF Shift
  <2>2. HeapInv'
    BY <1>1, <1>4, <1>8, HeapShift
  <2> QED BY <1>1, <1>3, <1>5, <2>1, <2>2 DEF MemInv
<1>9. ASSUME Reduce PROVE MemInv'
  <2>1. phase' = phase
    BY <1>9 DEF Reduce
  <2>2. HeapInv'
    BY <1>1, <1>4, <1>9, HeapReduce
  <2> QED BY <1>1, <1>3, <1>5, <2>1, <2>2 DEF MemInv
<1>10. ASSUME StackOverflow PROVE MemInv'
  <2>1. phase' = phase
    BY <1>10 DEF StackOverflow
  <2>2. InParse /\ PopAll /\ UNCHANGED <<text, node, restart>> /\ look' = YYNOCODE
    BY <1>10 DEF StackOverflow
  <2>3. HeapInv'
    BY <1>1, <1>4, <2>2, HeapDropped
  <2> QED BY <1>1, <1>3, <1>5, <2>1, <2>3 DEF MemInv
<1>11. ASSUME SyntaxError PROVE MemInv'
  <2>1. phase' = "parsed"
    BY <1>11 DEF SyntaxError
  <2>2. InParse /\ PopAll /\ UNCHANGED <<text, node, restart>> /\ look' = YYNOCODE
    BY <1>11 DEF SyntaxError
  <2>3. HeapInv'
    BY <1>1, <1>4, <2>2, HeapDropped
  <2>4. stack' = <<>>
    BY <2>2 DEF PopAll
  <2>5. ctx'.root = NoNode
    <3>1. ctx = [root |-> NoNode, ok |-> ctx.ok] /\ ctx' = [ctx EXCEPT !.ok = FALSE]
      BY <1>1, <1>3, <1>11 DEF ParseInv, SyntaxError
    <3> QED BY <3>1
  <2>6. ((ParseInv /\ HeapInv /\ stack = <<>> /\ look = YYNOCODE /\ phase = "parsed" /\ ctx.root = NoNode /\ query = NoQuery)
        => UseInv)'
    BY UseRefused, PTL
  <2>7. UseInv'
    BY <1>1, <1>5, <2>1, <2>2, <2>3, <2>4, <2>5, <2>6
  <2> QED BY <1>1, <2>1, <2>7 DEF MemInv
<1>12. ASSUME AcceptClause PROVE MemInv'
  <2>1. phase' = "parsed"
    BY <1>12 DEF AcceptClause
  <2>2. UseInv'
    BY <1>1, <1>2, <1>4, <1>12, UseAccepted
  <2> QED BY <1>1, <2>1, <2>2 DEF MemInv
<1> QED BY <1>2, <1>6, <1>7, <1>8, <1>9, <1>10, <1>11, <1>12 DEF Engine, ReadText

(* What the memory of a step that leaves it alone comes to.                *)
LEMMA UsesSame ==
    ASSUME UseInv, UNCHANGED <<text, node, ctx, stack, heap, freedTwice, restart, query, verdict>>,
           \A b : TreeUse(b)' = TreeUse(b),
           phase' \in {"parsed", "refused", "crashed"} => phase \in {"parsed", "refused", "crashed"},
           phase' = "converted" => ctx.root # NoNode
    PROVE  UseInv'
<1>1. \A b : (b \in QueryBlocks(query.nodes))' <=> b \in QueryBlocks(query.nodes)
  BY DEF QueryBlocks, Values, ValueAt, Held
<1>2. \A b : QueryUse(query.nodes, b)' = QueryUse(query.nodes, b)
  BY DEF QueryUse, QueryBlocks, Holders, Values, ValueAt, Held
<1>3. \A b : Lost(b)' <=> Lost(b)
  BY DEF Lost
<1> QED BY <1>1, <1>2, <1>3 DEF UseInv, NoQuery

(* ParseQuery's result is refused or cannot be converted, or nothing       *)
(* happens: the memory stays.                                              *)
LEMMA MemStays ==
    ASSUME MemInv, Refused \/ Unsupported \/ UNCHANGED vars
    PROVE  MemInv'
<1>1. QueryInv /\ ParseInv
  BY DEF MemInv, QueryInv
<1>2. QueryInv'
  BY <1>1, QueryBefore, QueryStays
<1>3. UNCHANGED <<text, node, ctx, stack, look, heap, freedTwice, restart, query, verdict>>
  BY DEF Refused, Unsupported, vars
<1>4. CASE phase \in {"reading", "closing"}
  <2>1. phase' = phase
    BY <1>4 DEF Refused, Unsupported, vars
  <2>2. HeapInv'
    BY <1>3, <1>4 DEF MemInv, HeapInv, Copied, Stray
  <2> QED BY <1>2, <1>3, <1>4, <2>1, <2>2 DEF MemInv
<1>5. CASE phase \notin {"reading", "closing"}
  <2>1. \A b : TreeUse(b)' = TreeUse(b)
    BY <1>3 DEF TreeUse, Refused, Unsupported, vars
  <2>2. phase' = phase \/ (phase = "parsed" /\ phase' \in {"refused", "crashed"})
    BY DEF Refused, Unsupported, vars
  <2>3. UseInv /\ (phase = "converted" => ctx.root # NoNode)
    BY <1>5 DEF MemInv, UseInv
  <2>4. UseInv'
    BY <1>3, <2>1, <2>2, <2>3, UsesSame
  <2> QED BY <1>2, <1>5, <2>2, <2>4 DEF MemInv
<1> QED BY <1>4, <1>5

(* The blocks of the tree that was handed over.                            *)
LEMMA RootBlocks ==
    ASSUME ParseInv, ctx.root # NoNode
    PROVE  TreeBlocks(ctx.root) = TreeOf(node, ctx.root)
<1>1. PICK low, high : Forest(node, low, high, Len(text))
  BY DEF ParseInv, InStep
<1>2. PICK max : max = Len(text)
  OBVIOUS
<1>3. max \in Nat /\ Shaped(node, low, high, max)
  BY <1>1, <1>2 DEF Forest
<1>4. ctx.root \in DOMAIN node
  BY DEF ParseInv
<1> QED BY <1>3, <1>4, TreeBlocksAre

(* The tree is freed, which the query no longer needs.                     *)
LEMMA MemFreeTree ==
    ASSUME MemInv, FreeTree
    PROVE  MemInv'
<1>1. QueryInv /\ ParseInv /\ UseInv /\ phase = "converted" /\ phase' = "ready"
      /\ UNCHANGED <<text, stack, look, ctx, node, restart, spec, query, verdict>>
  BY DEF MemInv, QueryInv, FreeTree
<1>2. QueryInv'
  BY <1>1, QueryBefore
<1>3. ctx.root # NoNode
  BY <1>1 DEF UseInv
<1>4. PICK tree : tree = TreeOf(node, ctx.root)
  OBVIOUS
<1>5. PICK times : times = [b \in tree |-> 1]
  OBVIOUS
<1>6. FreeBlocks(times) /\ DOMAIN times = tree /\ \A b \in tree : times[b] = 1
  BY <1>1, <1>3, <1>4, <1>5, RootBlocks DEF FreeTree
<1>7. \A b : TreeUse(b) = IF b \in tree THEN 1 ELSE 0
  BY <1>1, <1>3, <1>4 DEF TreeUse
<1>8. \A b : TreeUse(b)' = 0
  BY <1>1 DEF TreeUse
<1>9. /\ \A b : b \in QueryBlocks(query.nodes)' <=> b \in QueryBlocks(query.nodes)
      /\ \A b : QueryUse(query.nodes, b)' = QueryUse(query.nodes, b)
      /\ \A b : Lost(b)' <=> Lost(b)
  BY <1>1 DEF QueryUse, QueryBlocks, Holders, Values, ValueAt, Held, Lost
<1>10. /\ ~freedTwice /\ IsFiniteSet(DOMAIN query.nodes)
       /\ \A b : b \in tree \/ b \in QueryBlocks(query.nodes) => b \in DOMAIN heap
       /\ \A b \in DOMAIN heap : heap[b] \in Nat \ {0}
       /\ verdict = "none" => \A b \in DOMAIN heap : b[1] # "cast"
  BY <1>1, <1>7 DEF UseInv
<1>11. /\ ~freedTwice'
       /\ \A b : b \in DOMAIN heap' <=> b \in DOMAIN heap /\ (b \in tree => 1 < heap[b])
       /\ \A b \in DOMAIN heap' : heap'[b] = heap[b] - IF b \in tree THEN 1 ELSE 0
  <2>1. \A b \in DOMAIN times : b \in DOMAIN heap /\ times[b] \in Nat /\ times[b] <= heap[b]
    BY <1>6, <1>10
  <2>2. /\ ~freedTwice'
        /\ \A b : b \in DOMAIN heap' <=> b \in DOMAIN heap /\ (b \in DOMAIN times => times[b] < heap[b])
        /\ \A b \in DOMAIN heap' : heap'[b] = heap[b] - IF b \in DOMAIN times THEN times[b] ELSE 0
    BY <1>6, <1>10, <2>1, Freed
  <2> QED BY <1>6, <2>2
<1>12. \A b : QueryUse(query.nodes, b) \in Nat /\ (b \in QueryBlocks(query.nodes) <=> QueryUse(query.nodes, b) >= 1)
  BY <1>1, <1>10, UsesAre DEF ParseInv
<1>13. \A b \in DOMAIN heap :
          /\ heap[b] >= TreeUse(b) + QueryUse(query.nodes, b)
          /\ heap[b] = TreeUse(b) + QueryUse(query.nodes, b) \/ Lost(b)
  BY <1>1 DEF UseInv
<1>14. ASSUME NEW b, b \in QueryBlocks(query.nodes) PROVE b \in DOMAIN heap'
  <2>1. PICK h, q : h = heap[b] /\ q = QueryUse(query.nodes, b)
    OBVIOUS
  <2>2. b \in DOMAIN heap /\ h \in Nat /\ q \in Nat /\ q >= 1 /\ h >= TreeUse(b) + q
    BY <1>10, <1>12, <1>13, <1>14, <2>1
  <2>3. b \in tree => 1 < h
    BY <1>7, <2>2
  <2> QED BY <1>11, <2>1, <2>2, <2>3
<1>15. ASSUME NEW b \in DOMAIN heap'
       PROVE  /\ heap'[b] \in Nat \ {0}
              /\ heap'[b] >= TreeUse(b)' + QueryUse(query.nodes, b)'
              /\ heap'[b] = TreeUse(b)' + QueryUse(query.nodes, b)' \/ Lost(b)'
  <2>1. PICK h, q, h2, t : h = heap[b] /\ q = QueryUse(query.nodes, b) /\ h2 = heap'[b] /\ t = TreeUse(b)
    OBVIOUS
  <2>2. b \in DOMAIN heap /\ h \in Nat \ {0} /\ q \in Nat /\ t = (IF b \in tree THEN 1 ELSE 0)
        /\ h2 = h - t /\ (b \in tree => 1 < h)
    BY <1>7, <1>10, <1>11, <1>12, <2>1
  <2>3. h >= t + q /\ (h = t + q \/ Lost(b))
    BY <1>13, <2>1, <2>2
  <2>4. h2 \in Nat \ {0} /\ h2 >= 0 + q /\ (h2 = 0 + q \/ Lost(b))
    BY <2>2, <2>3
  <2> QED BY <1>8, <1>9, <2>1, <2>4
<1>16. \A b \in DOMAIN heap' : b \in DOMAIN heap
  BY <1>11
<1>17. UseInv'
  BY <1>1, <1>8, <1>9, <1>10, <1>11, <1>14, <1>15, <1>16 DEF UseInv
<1> QED BY <1>1, <1>2, <1>17 DEF MemInv

(* SIQuery_Free ends the query.                                            *)
LEMMA MemFreeQuery ==
    ASSUME MemInv, FreeQuery
    PROVE  MemInv'
<1>1. QueryInv /\ ParseInv /\ UseInv /\ phase = "ready" /\ phase' = "done" /\ query' = NoQuery
      /\ UNCHANGED <<text, stack, look, ctx, node, restart, spec, verdict>>
  BY DEF MemInv, QueryInv, FreeQuery
<1>2. QueryInv'
  BY <1>1, QueryFree
<1>3. PICK times : times = [b \in QueryBlocks(query.nodes) |->
                      IF b[1] \in {"string", "cast"} THEN Holders(query.nodes, b) ELSE 1]
  OBVIOUS
<1>4. FreeBlocks(times)
  BY <1>3 DEF FreeQuery
<1>5. \A b : b \in DOMAIN times <=> b \in QueryBlocks(query.nodes)
  BY <1>3
<1>6. \A b \in DOMAIN times : times[b] = QueryUse(query.nodes, b)
  BY <1>3 DEF QueryUse
<1>7. \A b : TreeUse(b) = 0 /\ TreeUse(b)' = 0
  BY <1>1 DEF TreeUse
<1>8. /\ ~freedTwice
      /\ \A b : b \in QueryBlocks(query.nodes) => b \in DOMAIN heap
      /\ \A b \in DOMAIN heap : heap[b] \in Nat \ {0}
      /\ verdict = "none" => \A b \in DOMAIN heap : b[1] # "cast"
  BY <1>1 DEF UseInv
<1>9. \A b : QueryUse(query.nodes, b) \in Nat /\ (b \in QueryBlocks(query.nodes) <=> QueryUse(query.nodes, b) >= 1)
  BY <1>1, UsesAre DEF ParseInv, UseInv
<1>10. \A b \in DOMAIN heap :
          /\ heap[b] >= TreeUse(b) + QueryUse(query.nodes, b)
          /\ heap[b] = TreeUse(b) + QueryUse(query.nodes, b) \/ Lost(b)
  BY <1>1 DEF UseInv
<1>11. \A b \in DOMAIN heap : heap[b] >= QueryUse(query.nodes, b) /\ (heap[b] = QueryUse(query.nodes, b) \/ Lost(b))
  BY <1>7, <1>9, <1>10
<1>12. /\ ~freedTwice'
       /\ \A b : b \in DOMAIN heap' <=> b \in DOMAIN heap /\ (b \in DOMAIN times => times[b] < heap[b])
       /\ \A b \in DOMAIN heap' : heap'[b] = heap[b] - IF b \in DOMAIN times THEN times[b] ELSE 0
  <2>1. \A b \in DOMAIN times : b \in DOMAIN heap /\ times[b] \in Nat /\ times[b] <= heap[b]
    BY <1>5, <1>6, <1>8, <1>9, <1>11
  <2> QED BY <1>4, <1>8, <2>1, Freed
<1>13. /\ IsFiniteSet(DOMAIN query.nodes)'
       /\ \A b : (b \notin QueryBlocks(query.nodes))' /\ (QueryUse(query.nodes, b) = 0)'
  <2>1. (query = NoQuery =>
            /\ IsFiniteSet(DOMAIN query.nodes)
            /\ \A b : b \notin QueryBlocks(query.nodes) /\ QueryUse(query.nodes, b) = 0)'
    BY NoUse, PTL
  <2> QED BY <1>1, <2>1
<1>14. \A b : Lost(b)' <=> Lost(b)
  BY <1>1 DEF Lost
<1>15. ASSUME NEW b \in DOMAIN heap'
       PROVE  heap'[b] \in Nat \ {0} /\ heap'[b] >= 0 + 0 /\ Lost(b)'
  <2>1. PICK h, q, h2 : h = heap[b] /\ q = QueryUse(query.nodes, b) /\ h2 = heap'[b]
    OBVIOUS
  <2>2. b \in DOMAIN heap /\ h \in Nat \ {0} /\ q \in Nat
    BY <1>8, <1>9, <1>12, <2>1
  <2>3. CASE b \in DOMAIN times
    <3>1. h2 = h - q /\ q < h
      BY <1>6, <1>12, <2>1, <2>3
    <3>2. h2 \in Nat \ {0} /\ h # q
      BY <2>2, <3>1
    <3>3. Lost(b)
      BY <1>11, <2>1, <2>2, <3>2
    <3> QED BY <1>14, <2>1, <3>2, <3>3
  <2>4. CASE b \notin DOMAIN times
    <3>1. h2 = h
      BY <1>12, <2>1, <2>2, <2>4
    <3>2. h # q
      BY <1>5, <1>9, <2>1, <2>2, <2>4
    <3>3. Lost(b)
      BY <1>11, <2>1, <2>2, <3>2
    <3> QED BY <1>14, <2>1, <2>2, <3>1, <3>3
  <2> QED BY <2>3, <2>4
<1>16. \A b \in DOMAIN heap' : b \in DOMAIN heap
  BY <1>12
<1>17. UseInv'
  BY <1>1, <1>7, <1>8, <1>12, <1>13, <1>15, <1>16 DEF UseInv
<1> QED BY <1>1, <1>2, <1>17 DEF MemInv

-----------------------------------------------------------------------------
(* A value of a converted predicate is one of the tree's or an open end.   *)
LEMMA TakenOver ==
    ASSUME NEW pn, NEW place, NEW lo, NEW hi, IsPredicate(pn, place, lo, hi), pn.op # "NE", NEW wild,
           NEW i \in DOMAIN ToPredicate(pn, wild).vals
    PROVE  \/ ToPredicate(pn, wild).vals[i] \in {Inf, NegativeInf}
           \/ \E j \in DOMAIN pn.vals : ToPredicate(pn, wild).vals[i] = pn.vals[j]
<1>1. PICK named, op, vals :
        /\ op \in Operations
        /\ pn = [t |-> "N_PRED", prop |-> [named |-> named, at |-> place], op |-> op, vals |-> vals]
        /\ op = "IS" => vals = <<Null>>
        /\ op # "IS" => AreValues(vals, lo, hi)
        /\ op # "IN" => Len(vals) = 1
  BY DEF IsPredicate
<1>2. pn.op = op /\ pn.vals = vals /\ op # "NE"
  BY <1>1
<1>3. op \in {"EQ", "GT", "GE", "LT", "LE", "LIKE", "IN", "IS"}
  BY <1>1, <1>2 DEF Operations, Comparisons
<1>4. IsList(vals)
  BY <1>1, OneList DEF AreValues
<1>5. op # "IN" => 1 \in DOMAIN vals
  BY <1>1, <1>4 DEF IsList
<1>6. PICK p : p = ToPredicate(pn, wild)
  OBVIOUS
<1>7. op = "IN" => p.vals = vals
  BY <1>2, <1>6 DEF ToPredicate
<1>8. op # "IN" =>
        \/ p.vals = <<vals[1]>>
        \/ p.vals = <<vals[1], vals[1]>>
        \/ p.vals = <<vals[1], Inf>>
        \/ p.vals = <<NegativeInf, vals[1]>>
  BY <1>2, <1>3, <1>6 DEF ToPredicate, Between
<1>9. PICK w : w = p.vals
  OBVIOUS
<1>10. i \in DOMAIN w
  BY <1>6, <1>9
<1>11. CASE op = "IN"
  BY <1>2, <1>6, <1>7, <1>11
<1>12. CASE op # "IN"
  <2>1. PICK v : v = vals[1]
    OBVIOUS
  <2>2. w = <<v>> \/ w = <<v, v>> \/ w = <<v, Inf>> \/ w = <<NegativeInf, v>>
    BY <1>8, <1>9, <1>12, <2>1
  <2>3. w[i] \in {v, Inf, NegativeInf}
    BY <1>10, <2>2
  <2> QED BY <1>2, <1>5, <1>6, <1>9, <1>12, <2>1, <2>3
<1> QED BY <1>11, <1>12

(* What a converted predicate holds are the strings of the tree's.         *)
LEMMA HeldOver ==
    ASSUME NEW pn, NEW place, NEW lo, NEW hi, IsPredicate(pn, place, lo, hi), pn.op # "NE", NEW wild,
           NEW i \in DOMAIN ToPredicate(pn, wild).vals, NEW b \in Held(ToPredicate(pn, wild).vals[i])
    PROVE  b \in Strings(pn.vals) /\ b[1] = "string"
<1>1. PICK v : v = ToPredicate(pn, wild).vals[i]
  OBVIOUS
<1>2. v.type = "T_STRING" /\ b = (IF "cast" \in DOMAIN v THEN v.cast ELSE <<"string", v.at>>)
  <2>1. b \in Held(v)
    BY <1>1
  <2> QED BY <2>1 DEF Held
<1>3. v \notin {Inf, NegativeInf}
  BY <1>2 DEF Inf, NegativeInf
<1>4. PICK j \in DOMAIN pn.vals : v = pn.vals[j]
  BY <1>1, <1>3, TakenOver
<1>5. PICK named, op, vals :
        /\ pn = [t |-> "N_PRED", prop |-> [named |-> named, at |-> place], op |-> op, vals |-> vals]
        /\ op = "IS" => vals = <<Null>>
        /\ op # "IS" => AreValues(vals, lo, hi)
  BY DEF IsPredicate
<1>6. pn.vals = vals /\ j \in DOMAIN vals /\ v = vals[j]
  BY <1>4, <1>5
<1>7. "cast" \notin DOMAIN v
  <2>1. CASE op = "IS"
    <3>1. v = Null
      BY <1>5, <1>6, <2>1
    <3> QED BY <1>2, <3>1 DEF Null
  <2>2. CASE op # "IS"
    <3>1. DOMAIN vals = 1..Len(vals)
      BY <1>5, <2>2 DEF AreValues, IsList
    <3>2. IsValue(v, lo, hi)
      BY <1>5, <1>6, <2>2, <3>1 DEF AreValues
    <3> QED BY <3>2 DEF IsValue
  <2> QED BY <2>1, <2>2
<1>8. b = <<"string", v.at>>
  BY <1>2, <1>7
<1> QED BY <1>2, <1>6, <1>8 DEF Strings

(* What the values of a converted query hold are strings of the tree.      *)
LEMMA HeldByTree ==
    ASSUME NEW nd, NEW low, NEW high, NEW max, Forest(nd, low, high, max), NEW root \in DOMAIN nd, node = nd,
           NEW ids, NEW wild, \A n \in Below(nd, root) : nd[n].t = "N_PRED" => nd[n].op # "NE",
           NEW nodes, nodes = [n \in Below(nd, root) |-> ToQueryNode(n, ids, wild)],
           NEW s \in Values(nodes), NEW b \in Held(ValueAt(nodes, s))
    PROVE  b \in TreeOf(nd, root) /\ b[1] = "string"
<1>1. PICK n, i : s = <<n, i>> /\ n \in Below(nd, root) /\ nodes[n].t = "N_PRED" /\ i \in DOMAIN nodes[n].pred.vals
  BY DEF Values
<1>2. nodes[n] = ToQueryNode(n, ids, wild)
  BY <1>1
<1>3. nd[n].t # "N_COND" /\ nodes[n] = [t |-> "N_PRED", propId |-> ids[n], pred |-> ToPredicate(nd[n], wild)]
  <2>1. CASE nd[n].t = "N_COND"
    <3>1. nodes[n].t = "N_COND"
      BY <1>2, <2>1 DEF ToQueryNode
    <3> QED BY <1>1, <3>1
  <2>2. CASE nd[n].t # "N_COND"
    BY <1>2, <2>2 DEF ToQueryNode
  <2> QED BY <2>1, <2>2
<1>4. n \in DOMAIN nd
  <2>1. max \in Nat /\ Shaped(nd, low, high, max)
    BY DEF Forest
  <2> QED BY <1>1, <2>1, BelowFacts
<1>5. IsPredicate(nd[n], n, low[n], high[n])
  <2>1. ASSUME IsCondition(nd[n]) PROVE FALSE
    <3>1. nd[n].t = "N_COND"
      BY <2>1 DEF IsCondition
    <3> QED BY <1>3, <3>1
  <2> QED BY <1>4, <2>1 DEF Forest, NodeFits
<1>6. nd[n].t = "N_PRED"
  BY <1>5 DEF IsPredicate
<1>7. nd[n].op # "NE"
  BY <1>1, <1>6
<1>8. PICK pn : pn = nd[n]
  OBVIOUS
<1>9. nodes[n].pred = ToPredicate(pn, wild)
  BY <1>3, <1>8
<1>10. i \in DOMAIN ToPredicate(pn, wild).vals /\ b \in Held(ToPredicate(pn, wild).vals[i])
  <2>1. ValueAt(nodes, s) = nodes[n].pred.vals[i]
    BY <1>1 DEF ValueAt
  <2> QED BY <1>1, <1>9, <2>1
<1>11. b \in Strings(pn.vals) /\ b[1] = "string"
  BY <1>5, <1>7, <1>8, <1>10, HeldOver
<1>12. b \in BlocksOf(nd, n)
  BY <1>3, <1>8, <1>11 DEF BlocksOf
<1> QED BY <1>1, <1>11, <1>12 DEF TreeOf

(* The tree is converted: the query's values hold strings of the tree.     *)
LEMMA MemConvert ==
    ASSUME MemInv, Convert
    PROVE  MemInv'
<1>1. /\ QueryInv /\ ParseInv /\ UseInv /\ phase = "parsed" /\ phase' = "converted" /\ ctx.root # NoNode
      /\ UNCHANGED <<text, stack, look, ctx, node, freedTwice, restart, spec, verdict>>
      /\ heap' = Referenced(query'.nodes)
  BY DEF MemInv, QueryInv, Convert
<1>2. QueryInv'
  BY <1>1, QueryConvert
<1>3. PICK nodes, num, ids, wild :
        /\ query' = [root |-> ctx.root, numPredicates |-> num, nodes |-> nodes]
        /\ nodes = [n \in Below(node, ctx.root) |-> ToQueryNode(n, ids, wild)]
        /\ \A n \in Below(node, ctx.root) : node[n].t = "N_PRED" => node[n].op # "NE"
  BY Conversion
<1>4. PICK low, high : Forest(node, low, high, Len(text))
  BY <1>1 DEF ParseInv, InStep
<1>5. PICK max, root : max = Len(text) /\ root = ctx.root
  OBVIOUS
<1>6. root \in DOMAIN node /\ Forest(node, low, high, max) /\ max \in Nat /\ Shaped(node, low, high, max)
  BY <1>1, <1>4, <1>5 DEF ParseInv, Forest
<1>7. DOMAIN nodes = Below(node, root)
  BY <1>3, <1>5
<1>8. IsFiniteSet(DOMAIN nodes)
  <2>1. PICK D : D = DOMAIN nodes
    OBVIOUS
  <2>2. D \subseteq DOMAIN node
    BY <1>6, <1>7, <2>1, BelowFacts
  <2>3. \A n \in DOMAIN node : n \in 0..max
    BY <1>6 DEF Shaped
  <2>4. D \in SUBSET (0..max)
    BY <2>2, <2>3
  <2>5. IsFiniteSet(0..max)
    BY <1>6, FS_Interval
  <2> QED BY <2>1, <2>4, <2>5, FS_Subset
<1>9. ASSUME NEW s \in Values(nodes), NEW b \in Held(ValueAt(nodes, s)) PROVE b \in TreeOf(node, root) /\ b[1] = "string"
  <2>1. nodes = [n \in Below(node, root) |-> ToQueryNode(n, ids, wild)]
        /\ \A n \in Below(node, root) : node[n].t = "N_PRED" => node[n].op # "NE"
    BY <1>3, <1>5
  <2> QED BY <1>6, <1>9, <2>1, HeldByTree
<1>10. ASSUME NEW b
       PROVE  /\ QueryUse(nodes, b) \in Nat
              /\ b \in QueryBlocks(nodes) <=> QueryUse(nodes, b) >= 1
              /\ b[1] \in {"string", "cast"} => QueryUse(nodes, b) = Holders(nodes, b)
              /\ b[1] \notin {"string", "cast"} => QueryUse(nodes, b) = IF b \in QueryBlocks(nodes) THEN 1 ELSE 0
              /\ Holders(nodes, b) \in Nat
              /\ Holders(nodes, b) = 0 <=> \A s \in Values(nodes) : b \notin Held(ValueAt(nodes, s))
              /\ b \in QueryBlocks(nodes) <=> (\E s \in Values(nodes) : b \in Held(ValueAt(nodes, s))) \/ Bare(nodes, b)
              /\ Bare(nodes, b) => b[1] \in {"qnode", "invals"}
  <2>1. text \in Seq(Range(Terminals))
    BY <1>1 DEF ParseInv
  <2>2. Bare(nodes, b) => b[1] \in {"qnode", "invals"}
    BY DEF Bare
  <2> QED BY <1>8, <2>1, <2>2, UsesAre, HoldersAre, QueryBlocksAre
<1>11. \A b : TreeUse(b)' = TreeUse(b) /\ TreeUse(b) = IF b \in TreeOf(node, root) THEN 1 ELSE 0
  BY <1>1, <1>5 DEF TreeUse
<1>12. /\ ~freedTwice /\ verdict = "none" /\ query = NoQuery
       /\ \A b : TreeUse(b) = 1 => b \in DOMAIN heap
       /\ \A b \in DOMAIN heap : heap[b] \in Nat \ {0} /\ Placed(b, 1, Len(text))
  <2>1. verdict = "none"
    BY <1>1 DEF QueryInv
  <2> QED BY <1>1, <2>1 DEF UseInv
<1>13. \A b \in DOMAIN heap : heap[b] >= TreeUse(b) /\ (heap[b] = TreeUse(b) \/ Lost(b))
  <2>1. \A b : QueryUse(query.nodes, b) = 0
    BY <1>12, NoUse
  <2>2. ASSUME NEW b \in DOMAIN heap PROVE heap[b] >= TreeUse(b) /\ (heap[b] = TreeUse(b) \/ Lost(b))
    <3>1. PICK t, q : t = TreeUse(b) /\ q = QueryUse(query.nodes, b)
      OBVIOUS
    <3>2. heap[b] >= t + q /\ (heap[b] = t + q \/ Lost(b))
      BY <1>1, <3>1 DEF UseInv
    <3>3. q = 0 /\ t \in Nat
      BY <1>11, <2>1, <3>1
    <3> QED BY <3>1, <3>2, <3>3
  <2> QED BY <2>2
<1>14. \A b : Lost(b)' <=> Lost(b)
  BY <1>1 DEF Lost
<1>15. /\ DOMAIN heap' = DOMAIN heap \cup QueryBlocks(nodes)
       /\ \A b \in DOMAIN heap' : heap'[b] = IF b \in DOMAIN heap THEN heap[b] + Holders(nodes, b) ELSE 1
  <2>1. heap' = Referenced(nodes)
    BY <1>1, <1>3
  <2> QED BY <2>1 DEF Referenced
<1>16. ASSUME NEW b \in DOMAIN heap PROVE QueryUse(nodes, b) = Holders(nodes, b)
  <2>1. b[1] \in {"string", "vector", "node"}
    BY <1>12 DEF Placed
  <2>2. CASE b[1] = "string"
    BY <1>10, <2>2
  <2>3. CASE b[1] # "string"
    <3>1. \A s \in Values(nodes) : b \notin Held(ValueAt(nodes, s))
      BY <1>9, <2>3
    <3>2. b \notin QueryBlocks(nodes)
      BY <1>10, <2>1, <3>1
    <3>3. Holders(nodes, b) = 0
      BY <1>10, <3>1
    <3> QED BY <1>10, <2>1, <2>3, <3>2, <3>3
  <2> QED BY <2>2, <2>3
<1>17. ASSUME NEW b \in DOMAIN heap', b \notin DOMAIN heap
       PROVE  TreeUse(b) = 0 /\ QueryUse(nodes, b) = 1 /\ b[1] # "cast"
  <2>1. b \in QueryBlocks(nodes)
    BY <1>15, <1>17
  <2>2. b \notin TreeOf(node, root)
    BY <1>11, <1>12, <1>17
  <2>3. Bare(nodes, b)
    <3>1. \A s \in Values(nodes) : b \notin Held(ValueAt(nodes, s))
      BY <1>9, <2>2
    <3> QED BY <1>10, <2>1, <3>1
  <2>4. b[1] \in {"qnode", "invals"}
    BY <1>10, <2>3
  <2>5. b[1] \notin {"string", "cast"}
    BY <2>4
  <2> QED BY <1>10, <1>11, <2>1, <2>2, <2>5
<1>18. /\ IsFiniteSet(DOMAIN query.nodes)'
       /\ \A b : (b \in QueryBlocks(query.nodes))' <=> b \in QueryBlocks(nodes)
       /\ \A b : QueryUse(query.nodes, b)' = QueryUse(nodes, b)
  <2>1. query'.nodes = nodes
    BY <1>3
  <2> QED BY <1>1, <1>8, <2>1 DEF QueryUse, QueryBlocks, Holders, Values, ValueAt, Held
<1>19. ASSUME NEW b \in DOMAIN heap'
       PROVE  /\ heap'[b] \in Nat \ {0}
              /\ heap'[b] >= TreeUse(b)' + QueryUse(query.nodes, b)'
              /\ heap'[b] = TreeUse(b)' + QueryUse(query.nodes, b)' \/ Lost(b)'
  <2>1. PICK h, h2, q, t : h = heap[b] /\ h2 = heap'[b] /\ q = QueryUse(nodes, b) /\ t = TreeUse(b)
    OBVIOUS
  <2>2. t \in Nat /\ q \in Nat
    BY <1>10, <1>11, <2>1
  <2>3. h2 \in Nat \ {0} /\ h2 >= t + q /\ (h2 = t + q \/ Lost(b))
    <3>1. CASE b \in DOMAIN heap
      <4>1. h2 = h + q
        BY <1>15, <1>16, <2>1, <3>1
      <4>2. h \in Nat \ {0} /\ h >= t /\ (h = t \/ Lost(b))
        BY <1>12, <1>13, <2>1, <3>1
      <4> QED BY <2>2, <4>1, <4>2
    <3>2. CASE b \notin DOMAIN heap
      <4>1. h2 = 1 /\ t = 0 /\ q = 1
        BY <1>15, <1>17, <2>1, <3>2
      <4> QED BY <4>1
    <3> QED BY <3>1, <3>2
  <2> QED BY <1>11, <1>14, <1>18, <2>1, <2>3
<1>20. \A b : TreeUse(b)' = 1 \/ (b \in QueryBlocks(query.nodes))' => b \in DOMAIN heap'
  BY <1>11, <1>12, <1>15, <1>18
<1>21. \A b \in DOMAIN heap' : b[1] # "cast"
  <2>1. \A b \in DOMAIN heap : b[1] # "cast"
    BY <1>12 DEF Placed
  <2> QED BY <1>17, <2>1
<1>22. UseInv'
  BY <1>1, <1>12, <1>18, <1>19, <1>20, <1>21 DEF UseInv
<1> QED BY <1>1, <1>2, <1>22 DEF MemInv

(* A cast leaves a value with its string, without, or with a new one.      *)
LEMMA HeldCast ==
    ASSUME NEW v, IsQueryValue(v) \/ v = Null, NEW type, NEW s
    PROVE  /\ \A b \in Held(v) : b = <<"string", v.at>>
           /\ \A b \in Held(CastTo(v, type, s)) : b \in Held(v) \/ b = <<"cast", s[1], s[2]>>
<1>1. "cast" \notin DOMAIN v
  <2>1. ASSUME IsQueryValue(v) PROVE "cast" \notin DOMAIN v
    BY <2>1 DEF IsQueryValue
  <2>2. ASSUME v = Null PROVE "cast" \notin DOMAIN v
    BY <2>2 DEF Null
  <2> QED BY <2>1, <2>2
<1>2. \A b \in Held(v) : b = <<"string", v.at>>
  BY <1>1 DEF Held
<1>3. PICK w : w = CastTo(v, type, s)
  OBVIOUS
<1>4. CASE v.type \in {"T_INF", "T_NEGINF", "T_BOOL", type}
  <2>1. w = v
    BY <1>3, <1>4 DEF CastTo
  <2> QED BY <1>2, <1>3, <2>1
<1>5. CASE v.type \notin {"T_INF", "T_NEGINF", "T_BOOL", type} /\ type = "T_STRING"
  <2>1. w = [type |-> type, at |-> v.at, cast |-> <<"cast", s[1], s[2]>>]
    BY <1>3, <1>5 DEF CastTo
  <2>2. "cast" \in DOMAIN w /\ w.cast = <<"cast", s[1], s[2]>>
    BY <2>1
  <2>3. \A b \in Held(w) : b = <<"cast", s[1], s[2]>>
    BY <2>2 DEF Held
  <2> QED BY <1>2, <1>3, <2>3
<1>6. CASE v.type \notin {"T_INF", "T_NEGINF", "T_BOOL", type} /\ type # "T_STRING"
  <2>1. w = [v EXCEPT !.type = type]
    BY <1>3, <1>6 DEF CastTo
  <2>2. w.type = type
    <3>1. ASSUME IsQueryValue(v) PROVE w.type = type
      BY <2>1, <3>1 DEF IsQueryValue
    <3>2. ASSUME v = Null PROVE w.type = type
      BY <2>1, <3>2 DEF Null
    <3> QED BY <3>1, <3>2
  <2>3. Held(w) = {}
    BY <1>6, <2>2 DEF Held
  <2> QED BY <1>2, <1>3, <2>3
<1> QED BY <1>4, <1>5, <1>6

(* What the slots of a normalised query hold: what they held, or a string  *)
(* of their own.                                                           *)
LEMMA CastHolds ==
    ASSUME QueryInv, phase = "ready", verdict = "none", NEW failing, NEW new, new = CastNodes(failing),
           NEW old, old = query.nodes, NEW s \in Values(old)
    PROVE  /\ \A b \in Held(ValueAt(old, s)) : b[1] = "string"
           /\ \A b \in Held(ValueAt(new, s)) : b \in Held(ValueAt(old, s)) \/ b = <<"cast", s[1], s[2]>>
<1>1. PICK v, w : v = ValueAt(old, s) /\ w = ValueAt(new, s)
  OBVIOUS
<1>2. IsQueryValue(v) \/ v = Null
  <2>1. IsQueryTree(query.nodes, Len(text))
    BY DEF QueryInv
  <2> QED BY <1>1, <2>1, SlotValue
<1>3. w = CastTo(v, PropType(s), s) \/ w = v
  BY <1>1, CastSlots
<1>4. /\ \A b \in Held(v) : b = <<"string", v.at>>
      /\ \A b \in Held(CastTo(v, PropType(s), s)) : b \in Held(v) \/ b = <<"cast", s[1], s[2]>>
  BY <1>2, HeldCast
<1> QED BY <1>1, <1>3, <1>4

(* The blocks no value holds stay.                                         *)
LEMMA CastBare ==
    ASSUME QueryInv, phase = "ready", verdict = "none", NEW failing, NEW new, new = CastNodes(failing),
           NEW old, old = query.nodes
    PROVE  DOMAIN new = DOMAIN old /\ \A b : Bare(new, b) <=> Bare(old, b)
<1>1. /\ DOMAIN new = DOMAIN old
      /\ \A n \in DOMAIN old : new[n].t = old[n].t /\ (~IsCond(old, n) => new[n].pred.t = old[n].pred.t)
  <2>1. /\ DOMAIN new = DOMAIN old
        /\ \A n \in DOMAIN old :
              /\ new[n].t = old[n].t
              /\ ~IsCond(old, n) =>
                    /\ new[n].pred.t = old[n].pred.t
                    /\ new[n].pred.vals = [i \in DOMAIN old[n].pred.vals |->
                           IF <<n, i>> \in Reached(failing)
                           THEN CastTo(old[n].pred.vals[i], PropType(<<n, i>>), <<n, i>>)
                           ELSE old[n].pred.vals[i]]
    BY CastNode
  <2> QED BY <2>1
<1>2. \A n \in DOMAIN old : old[n].t = "N_PRED" => ~IsCond(old, n)
  BY DEF IsCond
<1> QED BY <1>1, <1>2 DEF Bare

(* SIQuery_Normalize takes no reference to a block there is but gives some *)
(* up, and each string it makes is held by one value.                      *)
LEMMA CastUses ==
    ASSUME QueryInv, phase = "ready", verdict = "none", NEW failing, NEW new, new = CastNodes(failing),
           NEW old, old = query.nodes, IsFiniteSet(DOMAIN old), NEW b
    PROVE  /\ QueryUse(new, b) \in Nat /\ QueryUse(old, b) \in Nat
           /\ b[1] = "string" => QueryUse(new, b) <= QueryUse(old, b)
           /\ b[1] \notin {"string", "cast"} => QueryUse(new, b) = QueryUse(old, b)
           /\ b \in QueryBlocks(new) => b \in QueryBlocks(old) \/ (b[1] = "cast" /\ QueryUse(new, b) = 1)
<1>1. text \in Seq(Range(Terminals)) /\ DOMAIN new = DOMAIN old
  BY CastNode DEF QueryInv, ParseInv
<1>2. IsFiniteSet(DOMAIN new)
  BY <1>1
<1>3. PICK H, G : /\ H = {s \in Values(old) : b \in Held(ValueAt(old, s))}
                  /\ G = {s \in Values(new) : b \in Held(ValueAt(new, s))}
  OBVIOUS
<1>4. /\ IsFiniteSet(H) /\ Holders(old, b) = Cardinality(H)
      /\ IsFiniteSet(G) /\ Holders(new, b) = Cardinality(G)
  BY <1>1, <1>2, <1>3, HoldersAre DEF Holders
<1>5. /\ \A s : s \in H <=> s \in Values(old) /\ b \in Held(ValueAt(old, s))
      /\ \A s : s \in G <=> s \in Values(old) /\ b \in Held(ValueAt(new, s))
  <2>1. \A s : s \in Values(new) <=> s \in Values(old)
    BY CastSlots
  <2> QED BY <1>3, <2>1
<1>6. /\ \A s \in H : b[1] = "string"
      /\ \A s \in G : s \in H \/ b = <<"cast", s[1], s[2]>>
  BY <1>5, CastHolds
<1>7. /\ b \in QueryBlocks(new) <=> G # {} \/ Bare(new, b)
      /\ b \in QueryBlocks(old) <=> H # {} \/ Bare(old, b)
  <2>1. /\ b \in QueryBlocks(new) <=> (\E s \in Values(new) : b \in Held(ValueAt(new, s))) \/ Bare(new, b)
        /\ b \in QueryBlocks(old) <=> (\E s \in Values(old) : b \in Held(ValueAt(old, s))) \/ Bare(old, b)
    BY QueryBlocksAre
  <2> QED BY <1>3, <2>1
<1>8. Bare(new, b) <=> Bare(old, b)
  BY CastBare
<1>9. /\ QueryUse(new, b) \in Nat /\ QueryUse(old, b) \in Nat
      /\ b[1] \in {"string", "cast"} => QueryUse(new, b) = Cardinality(G) /\ QueryUse(old, b) = Cardinality(H)
      /\ b[1] \notin {"string", "cast"} =>
            /\ QueryUse(new, b) = IF b \in QueryBlocks(new) THEN 1 ELSE 0
            /\ QueryUse(old, b) = IF b \in QueryBlocks(old) THEN 1 ELSE 0
  BY <1>1, <1>2, <1>4, UsesAre
<1>10. ASSUME b[1] = "string" PROVE QueryUse(new, b) <= QueryUse(old, b)
  <2>1. \A s \in G : s \in H
    BY <1>6, <1>10
  <2>2. G \in SUBSET H
    BY <2>1
  <2>3. Cardinality(G) <= Cardinality(H)
    BY <1>4, <2>2, FS_Subset
  <2> QED BY <1>9, <1>10, <2>3
<1>11. ASSUME b[1] \notin {"string", "cast"} PROVE QueryUse(new, b) = QueryUse(old, b)
  <2>1. G = {} /\ H = {}
    BY <1>6, <1>11
  <2> QED BY <1>7, <1>8, <1>9, <1>11, <2>1
<1>12. ASSUME b \in QueryBlocks(new), b \notin QueryBlocks(old) PROVE b[1] = "cast" /\ QueryUse(new, b) = 1
  <2>1. H = {} /\ G # {}
    BY <1>7, <1>8, <1>12
  <2>2. PICK s : s \in G
    BY <2>1
  <2>3. b = <<"cast", s[1], s[2]>>
    BY <1>6, <2>1, <2>2
  <2>4. ASSUME NEW r \in G PROVE r = s
    <3>1. b = <<"cast", r[1], r[2]>>
      BY <1>6, <2>1
    <3>2. r[1] = s[1] /\ r[2] = s[2]
      BY <2>3, <3>1
    <3>3. r = <<r[1], r[2]>> /\ s = <<s[1], s[2]>>
      <4>1. IsQueryTree(query.nodes, Len(text))
        BY DEF QueryInv
      <4> QED BY <1>5, <2>2, <4>1, SlotValue
    <3> QED BY <3>2, <3>3
  <2>5. G = {s}
    BY <2>2, <2>4
  <2>6. Cardinality(G) = 1
    BY <2>5, FS_Singleton
  <2> QED BY <1>9, <2>3, <2>6
<1> QED BY <1>9, <1>10, <1>11, <1>12

(* SIQuery_Normalize casts the values.                                     *)
LEMMA MemNormalize ==
    ASSUME MemInv, Normalize
    PROVE  MemInv'
<1>1. /\ QueryInv /\ UseInv /\ phase = "ready" /\ phase' = phase /\ verdict = "none"
      /\ UNCHANGED <<text, stack, look, ctx, node, freedTwice, restart, spec>>
      /\ heap' = Alloc(QueryBlocks(query'.nodes) \ DOMAIN heap)
  BY DEF MemInv, Normalize
<1>2. QueryInv'
  BY <1>1, QueryNormalize
<1>3. PICK failing : Answers(failing)
  BY NormalizeAnswers
<1>4. PICK old, new : old = query.nodes /\ new = CastNodes(failing)
  OBVIOUS
<1>5. query'.nodes = new /\ verdict' # "none"
  <2>1. query' = [query EXCEPT !.nodes = new] /\ verdict' \in Verdicts
    BY <1>3, <1>4 DEF Answers
  <2>2. query = [root |-> query.root, numPredicates |-> query.numPredicates, nodes |-> query.nodes]
    BY <1>1 DEF QueryInv
  <2> QED BY <2>1, <2>2 DEF Verdicts
<1>6. /\ IsFiniteSet(DOMAIN old) /\ ~freedTwice
      /\ \A b : b \in QueryBlocks(old) => b \in DOMAIN heap
      /\ \A b \in DOMAIN heap : heap[b] \in Nat \ {0} /\ b[1] # "cast"
  BY <1>1, <1>4 DEF UseInv
<1>7. \A b : TreeUse(b) = 0 /\ TreeUse(b)' = 0
  BY <1>1 DEF TreeUse
<1>8. ASSUME NEW b
      PROVE  /\ QueryUse(new, b) \in Nat /\ QueryUse(old, b) \in Nat
             /\ b[1] = "string" => QueryUse(new, b) <= QueryUse(old, b)
             /\ b[1] \notin {"string", "cast"} => QueryUse(new, b) = QueryUse(old, b)
             /\ b \in QueryBlocks(new) => b \in QueryBlocks(old) \/ (b[1] = "cast" /\ QueryUse(new, b) = 1)
  BY <1>1, <1>4, <1>6, CastUses
<1>9. \A b \in DOMAIN heap : heap[b] >= QueryUse(old, b) /\ (heap[b] = QueryUse(old, b) \/ Lost(b))
  <2>1. \A b \in DOMAIN heap :
           /\ heap[b] >= TreeUse(b) + QueryUse(old, b)
           /\ heap[b] = TreeUse(b) + QueryUse(old, b) \/ Lost(b)
    BY <1>1, <1>4 DEF UseInv
  <2> QED BY <1>7, <1>8, <2>1
<1>10. /\ \A b : b \in DOMAIN heap' <=> b \in DOMAIN heap \/ b \in QueryBlocks(new)
       /\ \A b \in DOMAIN heap' : heap'[b] = IF b \in DOMAIN heap THEN heap[b] ELSE 1
  <2>1. PICK blocks : blocks = QueryBlocks(new) \ DOMAIN heap
    OBVIOUS
  <2>2. heap' = Alloc(blocks)
    BY <1>1, <1>5, <2>1
  <2>3. PICK h : h = heap'
    OBVIOUS
  <2>4. DOMAIN h = DOMAIN heap \cup blocks /\ \A b \in DOMAIN h : h[b] = IF b \in blocks THEN 1 ELSE heap[b]
    BY <2>2, <2>3 DEF Alloc
  <2> QED BY <2>1, <2>3, <2>4
<1>11. \A b : b[1] = "string" => Lost(b)'
  BY <1>5 DEF Lost
<1>12. /\ IsFiniteSet(DOMAIN query.nodes)'
       /\ \A b : (b \in QueryBlocks(query.nodes))' <=> b \in QueryBlocks(new)
       /\ \A b : QueryUse(query.nodes, b)' = QueryUse(new, b)
  <2>1. DOMAIN new = DOMAIN old
    BY <1>1, <1>4, CastBare
  <2>2. IsFiniteSet(DOMAIN query.nodes)'
    BY <1>5, <1>6, <2>1
  <2>3. PICK m : m = query'.nodes
    OBVIOUS
  <2>4. m = new /\ text' = text
    BY <1>1, <1>5, <2>3
  <2>5. \A b : (b \in QueryBlocks(query.nodes))' <=> b \in QueryBlocks(m)
    BY <2>3, <2>4 DEF QueryBlocks, Values, ValueAt, Held
  <2>6. \A b : Holders(query.nodes, b)' = Holders(m, b)
    BY <2>3, <2>4 DEF Holders, Values, ValueAt, Held
  <2>7. \A b : QueryUse(query.nodes, b)' = QueryUse(m, b)
    BY <2>3, <2>5, <2>6 DEF QueryUse
  <2> QED BY <2>2, <2>4, <2>5, <2>7
<1>13. ASSUME NEW b \in DOMAIN heap'
       PROVE  /\ heap'[b] \in Nat \ {0}
              /\ heap'[b] >= QueryUse(new, b)
              /\ heap'[b] = QueryUse(new, b) \/ Lost(b)'
  <2>1. PICK h, h2, q, q2 : h = heap[b] /\ h2 = heap'[b] /\ q = QueryUse(old, b) /\ q2 = QueryUse(new, b)
    OBVIOUS
  <2>2. q \in Nat /\ q2 \in Nat
    BY <1>8, <2>1
  <2>3. CASE b \in DOMAIN heap
    <3>1. h2 = h /\ h \in Nat \ {0} /\ h >= q /\ (h = q \/ Lost(b))
      BY <1>6, <1>9, <1>10, <2>1, <2>3
    <3>2. CASE b[1] = "string"
      <4>1. q2 <= q
        BY <1>8, <2>1, <3>2
      <4>2. h2 >= q2
        BY <2>2, <3>1, <4>1
      <4> QED BY <1>11, <2>1, <3>1, <3>2, <4>2
    <3>3. CASE b[1] # "string"
      <4>1. q2 = q
        BY <1>6, <1>8, <2>1, <2>3, <3>3
      <4>2. h = q
        BY <3>1, <3>3 DEF Lost
      <4> QED BY <2>1, <2>2, <3>1, <4>1, <4>2
    <3> QED BY <3>2, <3>3
  <2>4. CASE b \notin DOMAIN heap
    <3>1. h2 = 1 /\ q2 = 1
      BY <1>6, <1>8, <1>10, <2>1, <2>4
    <3> QED BY <2>1, <3>1
  <2> QED BY <2>3, <2>4
<1>14. ASSUME NEW b \in DOMAIN heap'
       PROVE  /\ heap'[b] \in Nat \ {0}
              /\ heap'[b] >= TreeUse(b)' + QueryUse(query.nodes, b)'
              /\ heap'[b] = TreeUse(b)' + QueryUse(query.nodes, b)' \/ Lost(b)'
  <2>1. PICK h2, q2 : h2 = heap'[b] /\ q2 = QueryUse(new, b)
    OBVIOUS
  <2>2. h2 \in Nat \ {0} /\ q2 \in Nat /\ h2 >= q2 /\ (h2 = q2 \/ Lost(b)')
    BY <1>8, <1>13, <2>1
  <2>3. h2 >= 0 + q2 /\ (h2 = 0 + q2 \/ Lost(b)')
    BY <2>2
  <2> QED BY <1>7, <1>12, <2>1, <2>2, <2>3
<1>15. \A b : TreeUse(b)' = 1 \/ (b \in QueryBlocks(query.nodes))' => b \in DOMAIN heap'
  BY <1>7, <1>10, <1>12
<1>16. UseInv'
  BY <1>1, <1>5, <1>6, <1>12, <1>14, <1>15 DEF UseInv
<1> QED BY <1>1, <1>2, <1>16 DEF MemInv

(* Every block has as many references as it has owners, whatever the       *)
(* clause, the size of the parser's stack and the index: what the parser's *)
(* destructors, ParseNode_Free and SIQuery_Free free is freed once and     *)
(* when nobody uses it any more, and only lost strings are left.           *)
THEOREM MemoryAlwaysAccounted == Spec => []MemoryAccounted
<1>1. Init => MemInv
  BY MemInit
<1>2. MemInv /\ [Next]_vars => MemInv'
  <2> SUFFICES ASSUME MemInv, [Next]_vars PROVE MemInv'
    OBVIOUS
  <2> QED BY MemParsing, MemStays, MemConvert, MemFreeTree, MemNormalize, MemFreeQuery DEF Next
<1>3. MemInv => MemoryAccounted
  BY MemAccounts
<1> QED BY <1>1, <1>2, <1>3, PTL DEF Spec

=============================================================================
