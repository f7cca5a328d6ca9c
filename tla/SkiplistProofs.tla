---------------------------- MODULE SkiplistProofs --------------------------
(***************************************************************************)
(* The skip list, for any number of keys, values and levels: what a call   *)
(* does to the links, spans and back pointers keeps them describing one    *)
(* ascending list, in which the search finds every key.                    *)
(*                                                                         *)
(* The order of the list is a function pos from nodes to their places,     *)
(* with the header at 0 and Nil behind the last node.                      *)
(***************************************************************************)
EXTENDS Skiplist, Listings

(* skiplistDelete leaves a list of values. *)
LEMMA RemoveValueType ==
    ASSUME NEW S, NEW vals \in Seq(S), NEW v
    PROVE  RemoveValue(vals, v) \in Seq(S)
BY DEF RemoveValue, ToSet

Nodes == DOMAIN node \ {Header}

(* Every node has a place of its own, in the order of the keys.            *)
Placed(pos) ==
    /\ pos \in [DOMAIN node \cup {Nil} -> Nat]
    /\ pos[Header] = 0 /\ pos[Nil] = length + 1
    /\ \A x \in Nodes : pos[x] \in 1..length
    /\ \A j \in 1..length : \E x \in Nodes : pos[x] = j
    /\ \A x, y \in Nodes : pos[x] = pos[y] => x = y
    /\ \A x, y \in Nodes : pos[x] < pos[y] => Lt(node[x].obj, node[y].obj)

(* A link leads to the next node of its level, over span nodes.            *)
Linked(pos) ==
    \A i \in 1..MaxLevel : \A x \in OnLevel(i) :
        LET f == Forward(x, i)
        IN  /\ f # Nil => f \in OnLevel(i)
            /\ pos[x] < pos[f]
            /\ \A y \in OnLevel(i) : pos[x] < pos[y] => pos[f] <= pos[y]
            /\ i <= level => node[x].level[i].span = (IF f = Nil THEN length ELSE pos[f]) - pos[x]

(* b is what the back pointer of a node at place j + 1 says of place j.    *)
AtBack(pos, b, j) == IF b = Nil THEN j = 0 ELSE b \in Nodes /\ pos[b] = j

Backed(pos) ==
    /\ node[Header].backward = Nil
    /\ \A x \in Nodes : AtBack(pos, node[x].backward, pos[x] - 1)
    /\ AtBack(pos, tail, length)

(* Towers stand on level 1 and no lower than the levels in use.            *)
Towers ==
    /\ \A x \in Nodes : DOMAIN node[x].level \subseteq 1..level
    /\ level > 1 => \E x \in Nodes : x \in OnLevel(level)

Laid(pos) == Placed(pos) /\ Linked(pos) /\ Backed(pos)

SInv == TypeOK /\ Towers /\ \E pos : Laid(pos)
-----------------------------------------------------------------------------
(* The fields of a node. *)
LEMMA NodeFields ==
    ASSUME TypeOK, NEW x \in DOMAIN node
    PROVE  /\ node[x] = [obj |-> node[x].obj, vals |-> node[x].vals,
                         backward |-> node[x].backward, level |-> node[x].level]
           /\ x # Header => node[x].obj \in Tuple /\ node[x].vals \in Seq(Val) /\ node[x].vals # <<>>
           /\ 1 \in DOMAIN node[x].level /\ DOMAIN node[x].level \subseteq 1..MaxLevel
           /\ \A i \in DOMAIN node[x].level :
                /\ Forward(x, i) \in (Nodes \cup {Header}) \cup {Nil}
                /\ node[x].level[i].span \in Nat
                /\ node[x].level[i] = [forward |-> Forward(x, i), span |-> node[x].level[i].span]
           /\ x # Nil /\ (x # Header => x \in NodeId)
<1>1. PICK h \in 1..MaxLevel : node[x] \in NodeRecord(h)
  BY DEF TypeOK
<1>2. node[x].level \in [1..h -> Link]
  BY <1>1 DEF NodeRecord
<1>3. DOMAIN node[x].level = 1..h /\ h \in Nat /\ h >= 1 /\ MaxLevel \in Nat /\ h <= MaxLevel
  BY <1>2, SkiplistAssumption
<1>4. \A i \in DOMAIN node[x].level : node[x].level[i] \in Link
  BY <1>2
<1>5. 1 \in 1..h /\ 1..h \subseteq 1..MaxLevel
  BY <1>3
<1> QED BY <1>1, <1>3, <1>4, <1>5, SkiplistAssumption DEF TypeOK, NodeRecord, Link, Forward, Nodes

LEMMA HeaderTower ==
    ASSUME TypeOK
    PROVE  \A i \in 1..MaxLevel : Header \in OnLevel(i)
BY DEF TypeOK, OnLevel
-----------------------------------------------------------------------------
(* The search loop of a level passes y. *)
Passes(y, k, exclusive) == y = Header \/ Past(node[y].obj, k, exclusive)

(* L is where the search stops on level i: the last node it passes.        *)
Stops(L, k, exclusive, i, pos) ==
    /\ L \in OnLevel(i) /\ Passes(L, k, exclusive)
    /\ \A z \in OnLevel(i) : Passes(z, k, exclusive) => pos[z] <= pos[L]

(* What is before a node that is passed is passed.                         *)
LEMMA PassedBefore ==
    ASSUME TypeOK, NEW pos, Placed(pos), NEW k \in Tuple, NEW e \in BOOLEAN,
           NEW x \in DOMAIN node, NEW y \in DOMAIN node, pos[x] <= pos[y], Passes(y, k, e)
    PROVE  Passes(x, k, e)
<1>1. CASE x = Header
  BY <1>1 DEF Passes
<1>2. CASE x # Header
  <2>1. x \in Nodes /\ pos[x] \in 1..length /\ y # Header
    BY <1>2 DEF Placed, Nodes
  <2>2. y \in Nodes /\ pos[y] \in Nat
    BY <2>1 DEF Placed, Nodes
  <2>3. node[x].obj \in Tuple /\ node[y].obj \in Tuple
    BY <2>1, <2>2, NodeFields DEF Nodes
  <2>4. x = y \/ Lt(node[x].obj, node[y].obj)
    BY <2>1, <2>2 DEF Placed
  <2>5. Past(node[y].obj, k, e)
    BY <2>1 DEF Passes
  <2> QED BY <2>3, <2>4, <2>5, LtAssumption DEF Passes, Past
<1> QED BY <1>1, <1>2

LEMMA StopExists ==
    ASSUME TypeOK, NEW pos, Placed(pos), NEW k \in Tuple, NEW e \in BOOLEAN, NEW i \in 1..MaxLevel
    PROVE  \E L : Stops(L, k, e, i, pos)
<1> DEFINE S == {pos[z] : z \in {y \in OnLevel(i) : Passes(y, k, e)}}
<1>1. \A z \in OnLevel(i) : pos[z] \in 0..length
  BY DEF OnLevel, Placed, Nodes, TypeOK
<1>2. S # {}
  BY HeaderTower DEF Passes
<1>3. S \in SUBSET (0..length) /\ length \in Nat
  BY <1>1 DEF TypeOK
<1>4. PICK m \in S : \A j \in S : j <= m
  <2> HIDE DEF S
  <2> QED BY <1>2, <1>3, GreatestOf
<1>5. PICK L \in OnLevel(i) : Passes(L, k, e) /\ pos[L] = m
  OBVIOUS
<1>6. \A z \in OnLevel(i) : Passes(z, k, e) => pos[z] <= pos[L]
  BY <1>4, <1>5
<1> QED BY <1>5, <1>6 DEF Stops

(* From the stop on, the next key is not passed; before it, it is.         *)
LEMMA StopSplits ==
    ASSUME TypeOK, NEW pos, Placed(pos), Linked(pos), NEW k \in Tuple, NEW e \in BOOLEAN,
           NEW i \in 1..MaxLevel, NEW L, Stops(L, k, e, i, pos), NEW y \in OnLevel(i)
    PROVE  LET f == Forward(y, i)
               on == f # Nil /\ Past(node[f].obj, k, e)
           IN  /\ pos[y] < pos[L] => on /\ f \in OnLevel(i) /\ pos[y] < pos[f] /\ pos[f] <= pos[L]
               /\ pos[y] >= pos[L] => ~on
<1> DEFINE f == Forward(y, i)
<1>1. /\ y \in DOMAIN node /\ L \in DOMAIN node /\ L \in OnLevel(i) /\ Passes(L, k, e)
      /\ pos[y] \in Nat /\ pos[L] \in 0..length /\ length \in Nat
  BY DEF Stops, OnLevel, Placed, Nodes, TypeOK
<1>2. /\ f # Nil => f \in OnLevel(i) /\ f \in DOMAIN node
      /\ pos[y] < pos[f] /\ pos[f] \in Nat
      /\ \A z \in OnLevel(i) : pos[y] < pos[z] => pos[f] <= pos[z]
  BY DEF Linked, OnLevel, Placed
<1>3. f # Nil => f # Header
  BY <1>1, <1>2 DEF Placed
<1> HIDE DEF f
<1>4. ASSUME pos[y] < pos[L] PROVE f # Nil /\ Past(node[f].obj, k, e) /\ pos[f] <= pos[L]
  <2>1. pos[f] <= pos[L]
    BY <1>1, <1>2, <1>4
  <2>2. f # Nil
    BY <1>1, <2>1 DEF Placed
  <2> QED BY <1>1, <1>2, <1>3, <2>1, <2>2, PassedBefore DEF Passes
<1>5. ASSUME pos[y] >= pos[L], f # Nil, Past(node[f].obj, k, e) PROVE FALSE
  <2>1. pos[f] <= pos[L]
    BY <1>2, <1>5 DEF Passes, Stops
  <2> QED BY <1>1, <1>2, <1>5, <2>1
<1> QED BY <1>2, <1>4, <1>5 DEF f

(* The inner loop of the search, from any node of the level: it crosses    *)
(* the spans up to the stop.                                               *)
LEMMA WalkStops ==
    ASSUME TypeOK, NEW pos, Placed(pos), Linked(pos), NEW k \in Tuple, NEW e \in BOOLEAN,
           NEW i \in 1..level, NEW L, Stops(L, k, e, i, pos),
           NEW x \in OnLevel(i), pos[x] <= pos[L]
    PROVE  Walk(k, e, x, i) = [at |-> L, rank |-> pos[L] - pos[x]]
<1> DEFINE D == OnLevel(i)
           on(y) == Forward(y, i) # Nil /\ Past(node[Forward(y, i)].obj, k, e)
           F(w) == [y \in D |-> IF on(y)
                                THEN [w[Forward(y, i)] EXCEPT !.rank = @ + node[y].level[i].span]
                                ELSE [at |-> y, rank |-> 0]]
           g == [y \in D |-> IF pos[y] <= pos[L] THEN [at |-> L, rank |-> pos[L] - pos[y]]
                             ELSE [at |-> y, rank |-> 0]]
           W == CHOOSE w : w = F(w)
<1>0. i \in 1..MaxLevel /\ i <= level /\ level \in Nat
  BY SkiplistAssumption DEF TypeOK
<1>1. Walk(k, e, x, i) = W[x]
  BY Zenon DEF Walk
<1>2. ASSUME NEW y \in D
      PROVE  /\ pos[y] \in 0..length
             /\ pos[y] < pos[L] => /\ on(y) /\ Forward(y, i) \in D
                                   /\ pos[y] < pos[Forward(y, i)] /\ pos[Forward(y, i)] <= pos[L]
                                   /\ node[y].level[i].span = pos[Forward(y, i)] - pos[y]
             /\ pos[y] >= pos[L] => ~on(y)
  <2>1. pos[y] \in 0..length
    BY DEF OnLevel, Placed, Nodes, TypeOK
  <2>2. node[y].level[i].span = (IF Forward(y, i) = Nil THEN length ELSE pos[Forward(y, i)]) - pos[y]
    BY <1>0 DEF Linked
  <2> QED BY <1>0, <2>1, <2>2, StopSplits
<1>3. L \in D /\ pos[L] \in 0..length /\ length \in Nat
  BY <1>2 DEF Stops, TypeOK
<1>4. \A y \in D : pos[y] = pos[L] => y = L
  <2>1. \A y \in D : y \in DOMAIN node
    BY DEF OnLevel
  <2> QED BY <1>3, <2>1 DEF Placed, Nodes
<1> HIDE DEF D, on
<1>5. g = F(g)
  <2>1. ASSUME NEW y \in D PROVE g[y] = F(g)[y]
    <3>1. CASE pos[y] < pos[L]
      <4>1. g[Forward(y, i)] = [at |-> L, rank |-> pos[L] - pos[Forward(y, i)]]
        BY <1>2, <3>1
      <4>2. F(g)[y] = [at |-> L, rank |-> pos[L] - pos[Forward(y, i)] + node[y].level[i].span]
        BY <1>2, <3>1, <4>1
      <4>3. pos[L] - pos[Forward(y, i)] + node[y].level[i].span = pos[L] - pos[y]
        BY <1>2, <1>3, <3>1
      <4>4. pos[y] <= pos[L]
        BY <1>2, <1>3, <3>1
      <4> QED BY <4>2, <4>3, <4>4
    <3>2. CASE pos[y] = pos[L]
      <4>1. y = L /\ ~on(y) /\ pos[L] - pos[L] = 0 /\ pos[L] <= pos[L]
        BY <1>2, <1>3, <1>4, <3>2
      <4> QED BY <4>1
    <3>3. CASE pos[y] > pos[L]
      <4>1. ~on(y) /\ ~(pos[y] <= pos[L])
        BY <1>2, <1>3, <3>3
      <4> QED BY <4>1
    <3>4. pos[y] \in Int /\ pos[L] \in Int
      BY <1>2, <1>3
    <3> QED BY <3>1, <3>2, <3>3, <3>4
  <2> QED BY <2>1
<1>6. W = F(W)
  <2> HIDE DEF F, g
  <2> QED BY <1>5
<1>7. ASSUME NEW y \in D, W[y] # g[y] PROVE FALSE
  <2> DEFINE B == {pos[z] : z \in {u \in D : W[u] # g[u]}}
  <2> HIDE DEF W, g
  <2>1. B # {} /\ B \in SUBSET (0..length) /\ length \in Nat
    BY <1>2, <1>3, <1>7
  <2>2. PICK m \in B : \A j \in B : j <= m
    <3> HIDE DEF B
    <3> QED BY <2>1, GreatestOf
  <2>3. PICK z \in D : W[z] # g[z] /\ pos[z] = m
    BY <2>2
  <2>4. on(z) => W[Forward(z, i)] = g[Forward(z, i)]
    <3> SUFFICES ASSUME on(z), W[Forward(z, i)] # g[Forward(z, i)] PROVE FALSE
      OBVIOUS
    <3>1. pos[z] < pos[L]
      BY <1>2, <1>3, <2>3
    <3>2. Forward(z, i) \in D /\ pos[z] < pos[Forward(z, i)]
      BY <1>2, <3>1
    <3>3. pos[Forward(z, i)] \in B
      BY <3>2
    <3>4. m \in Int /\ pos[Forward(z, i)] \in Int /\ pos[Forward(z, i)] <= m
      BY <1>2, <2>2, <2>3, <3>2, <3>3
    <3> QED BY <2>3, <3>2, <3>4
  <2>5. W[z] = F(W)[z] /\ g[z] = F(g)[z]
    BY <1>5, <1>6
  <2> QED BY <2>3, <2>4, <2>5
<1>8. W[x] = g[x] /\ x \in D
  BY <1>7 DEF D
<1> HIDE DEF W
<1> QED BY <1>1, <1>8

(* The stop of a level is among the nodes of the levels below, and the     *)
(* stops there are no nearer to the header.                                *)
LEMMA StopsDescend ==
    ASSUME TypeOK, NEW pos, NEW k \in Tuple, NEW e \in BOOLEAN, NEW i \in 1..MaxLevel,
           i + 1 \in 1..MaxLevel, NEW L, Stops(L, k, e, i + 1, pos), NEW M, Stops(M, k, e, i, pos)
    PROVE  L \in OnLevel(i) /\ pos[L] <= pos[M]
<1>1. L \in DOMAIN node /\ i + 1 \in DOMAIN node[L].level /\ Passes(L, k, e)
  BY DEF Stops, OnLevel
<1>2. PICK h \in 1..MaxLevel : node[L] \in NodeRecord(h)
  BY <1>1 DEF TypeOK
<1>3. DOMAIN node[L].level = 1..h
  BY <1>2 DEF NodeRecord
<1>4. i \in 1..h
  BY <1>1, <1>3, SkiplistAssumption
<1>5. L \in OnLevel(i)
  BY <1>1, <1>3, <1>4 DEF OnLevel
<1> QED BY <1>1, <1>5 DEF Stops

(* Where the search for k stops on level i.                                *)
StopAt(k, e, i, pos) == CHOOSE L : Stops(L, k, e, i, pos)

(* update[] and rank[]: on each level the last node the search passes, and *)
(* its place.                                                              *)
LEMMA PathStops ==
    ASSUME TypeOK, NEW pos, Placed(pos), Linked(pos), NEW k \in Tuple, NEW e \in BOOLEAN
    PROVE  /\ \A i \in 1..MaxLevel : Stops(StopAt(k, e, i, pos), k, e, i, pos)
           /\ Path(k, e) = [i \in 1..level |-> [at |-> StopAt(k, e, i, pos),
                                                rank |-> pos[StopAt(k, e, i, pos)]]]
<1> DEFINE S(i) == StopAt(k, e, i, pos)
           from(p, i) == IF i = level THEN [at |-> Header, rank |-> 0] ELSE p[i + 1]
           step(p, i) == [at |-> Walk(k, e, from(p, i).at, i).at,
                          rank |-> from(p, i).rank + Walk(k, e, from(p, i).at, i).rank]
           F(p) == [i \in 1..level |-> step(p, i)]
           g == [i \in 1..level |-> [at |-> S(i), rank |-> pos[S(i)]]]
           P == CHOOSE p : p = F(p)
<1>1. \A i \in 1..MaxLevel : Stops(S(i), k, e, i, pos)
  BY StopExists DEF StopAt
<1>2. level \in 1..MaxLevel /\ MaxLevel \in Nat /\ 1..level \subseteq 1..MaxLevel
  BY SkiplistAssumption DEF TypeOK
<1>3. \A i \in 1..level : S(i) \in OnLevel(i) /\ pos[S(i)] \in Nat
  BY <1>1, <1>2 DEF Stops, OnLevel, Placed
<1>4. ASSUME NEW i \in 1..level, i # level
      PROVE  S(i + 1) \in OnLevel(i) /\ pos[S(i + 1)] <= pos[S(i)] /\ i + 1 \in 1..level
  <2>1. i + 1 \in 1..level
    BY <1>2, <1>4
  <2> QED BY <1>1, <1>2, <2>1, StopsDescend
<1>5. Path(k, e) = P
  BY Zenon DEF Path
<1> HIDE DEF S
<1>6. g = F(g)
  <2>1. ASSUME NEW i \in 1..level PROVE g[i] = step(g, i)
    <3>1. CASE i = level
      <4>1. Header \in OnLevel(i) /\ pos[Header] = 0
        BY <1>2, HeaderTower DEF Placed
      <4>2. Walk(k, e, Header, i) = [at |-> S(i), rank |-> pos[S(i)] - 0]
        BY <1>1, <1>2, <1>3, <4>1, WalkStops
      <4>3. pos[S(i)] - 0 = pos[S(i)] /\ 0 + pos[S(i)] = pos[S(i)]
        BY <1>3
      <4> QED BY <3>1, <4>2, <4>3
    <3>2. CASE i # level
      <4>1. from(g, i) = [at |-> S(i + 1), rank |-> pos[S(i + 1)]]
        BY <1>4, <3>2
      <4>2. Walk(k, e, S(i + 1), i) = [at |-> S(i), rank |-> pos[S(i)] - pos[S(i + 1)]]
        BY <1>1, <1>2, <1>4, <3>2, WalkStops
      <4>3. pos[S(i + 1)] + (pos[S(i)] - pos[S(i + 1)]) = pos[S(i)]
        BY <1>3, <1>4, <3>2
      <4> QED BY <4>1, <4>2, <4>3
    <3> QED BY <3>1, <3>2
  <2> QED BY <2>1
<1>7. P = F(P)
  <2> HIDE DEF F, g
  <2> QED BY <1>6
<1>8. ASSUME NEW y \in 1..level, P[y] # g[y] PROVE FALSE
  <2> DEFINE B == {i \in 1..level : P[i] # g[i]}
  <2> HIDE DEF P, g
  <2>1. B # {} /\ B \in SUBSET (0..level) /\ level \in Nat
    BY <1>2, <1>8
  <2>2. PICK i \in B : \A j \in B : j <= i
    BY <2>1, GreatestOf
  <2>3. i \in 1..level /\ (i # level => i + 1 \in 1..level /\ i + 1 \notin B)
    BY <1>2, <2>2
  <2>4. i # level => P[i + 1] = g[i + 1]
    BY <2>3
  <2>5. from(P, i) = from(g, i)
    BY <2>4
  <2>6. P[i] = step(P, i) /\ g[i] = step(g, i)
    BY <1>6, <1>7, <2>3
  <2> HIDE DEF from
  <2>7. P[i] = g[i]
    BY <2>5, <2>6
  <2> QED BY <2>2, <2>7
<1>9. P = g
  <2>1. P = [i \in 1..level |-> step(P, i)]
    BY <1>7
  <2> HIDE DEF P, g, step
  <2>2. g = [i \in 1..level |-> g[i]]
    BY DEF g
  <2>3. P = [i \in 1..level |-> P[i]]
    BY <2>1
  <2>4. \A i \in 1..level : P[i] = g[i]
    BY <1>8
  <2> QED BY <2>2, <2>3, <2>4
<1> HIDE DEF P
<1> QED BY <1>1, <1>5, <1>9 DEF S

(* Level 1 links every node to the one behind it.                          *)
LEMMA NextOnOne ==
    ASSUME TypeOK, NEW pos, Placed(pos), Linked(pos), NEW x \in DOMAIN node
    PROVE  /\ OnLevel(1) = DOMAIN node
           /\ Forward(x, 1) \in Nodes \cup {Nil} /\ pos[Forward(x, 1)] = pos[x] + 1
<1> DEFINE f == Forward(x, 1)
<1>1. 1 \in 1..MaxLevel /\ length \in Nat
  BY SkiplistAssumption DEF TypeOK
<1>2. \A y \in DOMAIN node : 1 \in DOMAIN node[y].level
  BY NodeFields
<1>3. OnLevel(1) = DOMAIN node
  BY <1>2 DEF OnLevel
<1>4. \A z \in DOMAIN node : pos[z] \in 0..length
  BY <1>1 DEF Placed, Nodes
<1>5. /\ f # Nil => f \in DOMAIN node
      /\ pos[x] < pos[f]
      /\ \A z \in DOMAIN node : pos[x] < pos[z] => pos[f] <= pos[z]
  BY <1>1, <1>3 DEF Linked
<1> HIDE DEF f
<1>6. f \in Nodes \cup {Nil} /\ pos[f] \in Nat
  BY <1>4, <1>5 DEF Placed, Nodes
<1>7. CASE pos[x] = length
  <2>1. f = Nil
    BY <1>1, <1>4, <1>5, <1>7
  <2> QED BY <1>3, <1>7, <2>1 DEF Placed, f
<1>8. CASE pos[x] < length
  <2>1. pos[x] + 1 \in 1..length
    BY <1>1, <1>4, <1>8
  <2>2. PICK z \in Nodes : pos[z] = pos[x] + 1
    BY <2>1 DEF Placed
  <2>3. pos[f] <= pos[z]
    BY <1>4, <1>5, <2>2 DEF Nodes
  <2> QED BY <1>3, <1>4, <1>5, <1>6, <2>2, <2>3 DEF f
<1> QED BY <1>1, <1>4, <1>7, <1>8

(* Nodes at one place are one node.                                        *)
LEMMA PlaceIsNode ==
    ASSUME TypeOK, NEW pos, Placed(pos), NEW x \in DOMAIN node, NEW y \in DOMAIN node,
           pos[x] = pos[y]
    PROVE  x = y
BY SMTT(30) DEF Placed, Nodes, TypeOK

(* s has the stop of the search for k on every level.                      *)
Descent(s, k, e, pos) == \A i \in 1..MaxLevel : Stops(s[i], k, e, i, pos)

LEMMA DescentExists ==
    ASSUME TypeOK, NEW pos, Placed(pos), NEW k \in Tuple, NEW e \in BOOLEAN
    PROVE  \E s : Descent(s, k, e, pos)
<1> DEFINE s == [i \in 1..MaxLevel |-> StopAt(k, e, i, pos)]
<1>1. Descent(s, k, e, pos)
  BY StopExists DEF StopAt, Descent
<1> QED BY <1>1

LEMMA DescentIs ==
    ASSUME TypeOK, Towers, NEW pos, Placed(pos), Linked(pos), NEW k \in Tuple, NEW e \in BOOLEAN,
           NEW s, Descent(s, k, e, pos)
    PROVE  /\ \A i \in 1..level :
                Path(k, e)[i] = [at |-> s[i], rank |-> pos[s[i]]]
           /\ \A i \in 1..MaxLevel :
                /\ s[i] \in OnLevel(i) /\ s[i] \in DOMAIN node
                /\ pos[s[i]] \in Nat /\ pos[s[i]] <= pos[s[1]]
                /\ i > level => s[i] = Header /\ Forward(Header, i) = Nil
<1>1. level \in 1..MaxLevel /\ MaxLevel \in Nat /\ 1..level \subseteq 1..MaxLevel /\ 1 \in 1..MaxLevel
  BY SkiplistAssumption DEF TypeOK
<1>2. \A i \in 1..MaxLevel : s[i] \in OnLevel(i) /\ s[i] \in DOMAIN node /\ pos[s[i]] \in Nat
  BY DEF Descent, Stops, OnLevel, Placed
<1>3. ASSUME NEW i \in 1..level PROVE Path(k, e)[i] = [at |-> s[i], rank |-> pos[s[i]]]
  <2> DEFINE t == StopAt(k, e, i, pos)
  <2>1. Stops(t, k, e, i, pos) /\ Path(k, e)[i] = [at |-> t, rank |-> pos[t]]
    BY <1>1, PathStops
  <2> HIDE DEF t
  <2>2. Stops(s[i], k, e, i, pos)
    BY <1>1 DEF Descent
  <2>3. pos[t] <= pos[s[i]] /\ pos[s[i]] <= pos[t] /\ t \in DOMAIN node /\ s[i] \in DOMAIN node
    BY <2>1, <2>2 DEF Stops, OnLevel
  <2>4. pos[t] = pos[s[i]]
    BY <2>3 DEF Placed
  <2> QED BY <2>1, <2>3, <2>4, PlaceIsNode
<1>4. ASSUME NEW i \in 1..MaxLevel PROVE pos[s[i]] <= pos[s[1]]
  <2>1. s[i] \in OnLevel(1)
    BY <1>2, NextOnOne
  <2> QED BY <1>1, <2>1 DEF Descent, Stops
<1>5. ASSUME NEW i \in 1..MaxLevel, i > level PROVE s[i] = Header /\ Forward(Header, i) = Nil
  <2>1. \A y \in OnLevel(i) : y = Header
    BY <1>1, <1>5 DEF Towers, OnLevel, Nodes
  <2>2. Header \in OnLevel(i)
    BY HeaderTower
  <2>3. Forward(Header, i) # Nil => Forward(Header, i) = Header
    BY <2>1, <2>2 DEF Linked
  <2>4. pos[Header] < pos[Forward(Header, i)] /\ pos[Header] = 0
    BY <2>2 DEF Linked, Placed
  <2> QED BY <1>2, <2>1, <2>3, <2>4
<1> QED BY <1>2, <1>3, <1>4, <1>5

(* Where the search for k ends: on the first node it does not pass.        *)
LEMMA Landing ==
    ASSUME TypeOK, NEW pos, Placed(pos), Linked(pos), NEW k \in Tuple, NEW e \in BOOLEAN,
           NEW s, Descent(s, k, e, pos)
    PROVE  \A z \in Nodes : Past(node[z].obj, k, e) <=> pos[z] <= pos[s[1]]
<1>1. 1 \in 1..MaxLevel /\ OnLevel(1) = DOMAIN node
  <2>1. Header \in DOMAIN node
    BY DEF TypeOK
  <2> QED BY <2>1, NextOnOne, SkiplistAssumption
<1>2. Stops(s[1], k, e, 1, pos) /\ s[1] \in DOMAIN node /\ Passes(s[1], k, e)
  BY <1>1 DEF Descent, Stops
<1>3. ASSUME NEW z \in DOMAIN node PROVE Passes(z, k, e) <=> pos[z] <= pos[s[1]]
  BY <1>1, <1>2, PassedBefore DEF Stops
<1> QED BY <1>3 DEF Passes, Nodes

(* The searches of insert and delete: they stop before the key.            *)
AtKey == FALSE

(* The search of a call: before the place p it finds are the smaller keys, *)
(* and the key itself is there or nowhere.                                 *)
LEMMA SearchSplits ==
    ASSUME TypeOK, Towers, NEW pos, Placed(pos), Linked(pos), NEW k \in Tuple,
           NEW s, Descent(s, k, AtKey, pos), NEW next, next = Forward(s[1], 1)
    PROVE  /\ next = FindAtLeast(k, AtKey) /\ next = Forward(Path(k, AtKey)[1].at, 1)
           /\ \A i \in 1..level : Path(k, AtKey)[i].at = s[i] /\ Path(k, AtKey)[i].rank = pos[s[i]]
           /\ next \in Nodes \cup {Nil} /\ pos[next] = pos[s[1]] + 1
           /\ \A z \in Nodes :
                /\ pos[z] < pos[next] => Lt(node[z].obj, k)
                /\ pos[z] >= pos[next] => node[z].obj = k \/ Lt(k, node[z].obj)
                /\ node[z].obj = k => z = next
<1>1. 1 \in 1..level /\ 1 \in 1..MaxLevel
  BY SkiplistAssumption DEF TypeOK
<1>0. AtKey \in BOOLEAN /\ (AtKey <=> FALSE)
  BY DEF AtKey
<1>2. ASSUME NEW i \in 1..level
      PROVE  Path(k, AtKey)[i].at = s[i] /\ Path(k, AtKey)[i].rank = pos[s[i]]
  <2>1. Path(k, AtKey)[i] = [at |-> s[i], rank |-> pos[s[i]]]
    BY <1>0, DescentIs
  <2> QED BY <2>1
<1>7. next = FindAtLeast(k, AtKey) /\ next = Forward(Path(k, AtKey)[1].at, 1)
  BY <1>1, <1>2, Zenon DEF FindAtLeast
<1>3. s[1] \in DOMAIN node /\ pos[s[1]] \in Nat
  BY <1>0, <1>1, DescentIs
<1>4. next \in Nodes \cup {Nil} /\ pos[next] = pos[s[1]] + 1
  BY <1>3, NextOnOne
<1>5. ASSUME NEW z \in Nodes
      PROVE  /\ pos[z] < pos[next] => Lt(node[z].obj, k)
             /\ pos[z] >= pos[next] => node[z].obj = k \/ Lt(k, node[z].obj)
  <2>1. pos[z] \in Nat /\ node[z].obj \in Tuple
    BY NodeFields DEF Placed, Nodes
  <2>2. Past(node[z].obj, k, AtKey) <=> pos[z] <= pos[s[1]]
    BY <1>0, Landing
  <2>3. Lt(node[z].obj, k) <=> pos[z] < pos[next]
    BY <1>0, <1>3, <1>4, <2>1, <2>2 DEF Past
  <2> QED BY <1>3, <1>4, <2>1, <2>3, LtAssumption
<1>6. ASSUME NEW z \in Nodes, node[z].obj = k PROVE z = next
  <2>1. pos[z] \in 1..length /\ length \in Nat /\ node[z].obj \in Tuple
    BY NodeFields DEF Placed, Nodes, TypeOK
  <2>2. pos[next] <= pos[z]
    BY <1>3, <1>4, <1>5, <1>6, <2>1, LtAssumption
  <2>3. next \in Nodes
    BY <1>3, <1>4, <2>1, <2>2 DEF Placed
  <2>4. pos[next] < pos[z] => Lt(node[next].obj, node[z].obj)
    BY <2>3 DEF Placed
  <2>5. ~Lt(node[next].obj, k)
    <3>1. node[next].obj = k \/ Lt(k, node[next].obj)
      BY <1>3, <1>4, <1>5, <2>3
    <3>2. node[next].obj \in Tuple
      BY <2>3, NodeFields DEF Nodes
    <3> QED BY <3>1, <3>2, LtAssumption
  <2>6. pos[next] = pos[z]
    BY <1>3, <1>4, <1>6, <2>1, <2>2, <2>4, <2>5
  <2> QED BY <2>3, <2>6 DEF Placed
<1> QED BY <1>2, <1>4, <1>5, <1>6, <1>7
-----------------------------------------------------------------------------
(* A call that only changes the values of a node leaves the list laid out. *)
LEMMA ValuesKeepLayout ==
    ASSUME TypeOK, Towers, NEW pos, Laid(pos), NEW x \in Nodes, NEW vals \in Seq(Val),
           vals # <<>>, node' = [node EXCEPT ![x].vals = vals], ret' \in Tuple \cup {Nil},
           UNCHANGED <<tail, length, level>>
    PROVE  TypeOK' /\ Towers' /\ Laid(pos)'
<1>1. /\ DOMAIN node' = DOMAIN node
      /\ \A y \in DOMAIN node :
           /\ node'[y].obj = node[y].obj /\ node'[y].backward = node[y].backward
           /\ node'[y].level = node[y].level
           /\ node'[y].vals = IF y = x THEN vals ELSE node[y].vals
           /\ \A h \in 1..MaxLevel : node[y] \in NodeRecord(h) => node'[y] \in NodeRecord(h)
  <2>1. ASSUME NEW y \in DOMAIN node, y # x PROVE node'[y] = node[y]
    BY <2>1
  <2>2. x \in DOMAIN node /\ node'[x] = [node[x] EXCEPT !.vals = vals]
    BY DEF Nodes
  <2>3. node[x] = [obj |-> node[x].obj, vals |-> node[x].vals,
                   backward |-> node[x].backward, level |-> node[x].level]
    BY <2>2, NodeFields
  <2>4. node'[x] = [obj |-> node[x].obj, vals |-> vals,
                    backward |-> node[x].backward, level |-> node[x].level]
    BY <2>2, <2>3
  <2>5. ASSUME NEW h \in 1..MaxLevel, node[x] \in NodeRecord(h) PROVE node'[x] \in NodeRecord(h)
    BY <2>4, <2>5 DEF NodeRecord
  <2> QED BY <2>1, <2>2, <2>4, <2>5
<1>2. Nodes' = Nodes /\ \A i : OnLevel(i)' = OnLevel(i)
  BY <1>1 DEF Nodes, OnLevel
<1>3. \A y \in DOMAIN node : \A i : Forward(y, i)' = Forward(y, i)
  BY <1>1 DEF Forward
<1>4. TypeOK'
  <2>1. \A y \in DOMAIN node : \E h \in 1..MaxLevel : node'[y] \in NodeRecord(h)
    BY <1>1 DEF TypeOK
  <2>2. \A y \in DOMAIN node :
          /\ y # Header => node'[y].obj \in Tuple /\ node'[y].vals # <<>>
          /\ node'[y].backward \in DOMAIN node \cup {Nil}
    BY <1>1 DEF TypeOK
  <2>3. \A y \in DOMAIN node : \A i \in DOMAIN node'[y].level :
          Forward(y, i)' \in DOMAIN node \cup {Nil}
    BY <1>1, <1>3 DEF TypeOK
  <2>4. Header \in DOMAIN node /\ DOMAIN node'[Header].level = 1..MaxLevel
    BY <1>1 DEF TypeOK
  <2> QED BY <1>1, <2>1, <2>2, <2>3, <2>4 DEF TypeOK
<1>5. Towers'
  BY <1>1, <1>2 DEF Towers, Nodes
<1>6. Placed(pos)'
  BY <1>1, <1>2 DEF Laid, Placed, Nodes
<1>7. Linked(pos)'
  BY <1>1, <1>2, <1>3 DEF Laid, Linked, OnLevel
<1>8. Backed(pos)'
  BY <1>1, <1>2 DEF Laid, Backed, AtBack, Nodes, TypeOK
<1> QED BY <1>4, <1>5, <1>6, <1>7, <1>8 DEF Laid

(* Where a last link of the list ends, and any other.                      *)
End(pos, f) == IF f = Nil THEN length ELSE pos[f]

(* The new node of a search with the stops s, and what becomes of y.       *)
NewNode(pos, s, k, v, h) ==
    [obj |-> k, vals |-> <<v>>, backward |-> IF s[1] = Header THEN Nil ELSE s[1],
     level |-> [i \in 1..h |-> [forward |-> Forward(s[i], i),
                               span |-> End(pos, Forward(s[i], i)) - pos[s[1]]]]]

SplicedNode(pos, s, h, x, next, y) ==
    [obj |-> node[y].obj, vals |-> node[y].vals,
     backward |-> IF y = next THEN x ELSE node[y].backward,
     level |-> [i \in DOMAIN node[y].level |->
                  IF y = s[i] /\ i <= h
                  THEN [forward |-> x, span |-> pos[s[1]] - pos[s[i]] + 1]
                  ELSE IF y = s[i] /\ i <= level
                  THEN [forward |-> Forward(y, i), span |-> node[y].level[i].span + 1]
                  ELSE node[y].level[i]]]

Inserted(pos, s, k, v, h, x, next) ==
    /\ ~Found(next, k)
    /\ DOMAIN node' = DOMAIN node \cup {x}
    /\ node'[x] = NewNode(pos, s, k, v, h)
    /\ \A y \in DOMAIN node : node'[y] = SplicedNode(pos, s, h, x, next, y)
    /\ tail' = IF next = Nil THEN x ELSE tail
    /\ length' = length + 1
    /\ level' = IF h > level THEN h ELSE level
    /\ ret' = k

(* What skiplistInsert writes into the new node and the ones around it.    *)
LEMMA InsertFields ==
    ASSUME TypeOK, Towers, NEW pos, Placed(pos), Linked(pos), NEW k \in Tuple, NEW v \in Val,
           NEW h \in 1..MaxLevel, NEW x \in NodeId \ DOMAIN node, InsertNode(k, v, h, x),
           NEW s, Descent(s, k, AtKey, pos), NEW next, next = Forward(s[1], 1)
    PROVE  Inserted(pos, s, k, v, h, x, next)
<1> DEFINE path == Path(k, AtKey)
           at(i) == IF i <= level THEN path[i].at ELSE Header
           rank(i) == IF i <= level THEN path[i].rank ELSE 0
           before(i) == IF i <= level THEN node[at(i)].level[i].span ELSE length
           top == IF h > level THEN h ELSE level
           new == [obj |-> k, vals |-> <<v>>,
                   backward |-> IF at(1) = Header THEN Nil ELSE at(1),
                   level |-> [i \in 1..h |->
                                 [forward |-> Forward(at(i), i),
                                  span |-> before(i) - (rank(1) - rank(i))]]]
           spliced(y) == [i \in DOMAIN node[y].level |->
                             IF i <= top /\ at(i) = y
                             THEN Splice(node[y].level[i], i, h, x, rank(i), rank(1))
                             ELSE node[y].level[i]]
           old(y) == [node[y] EXCEPT !.backward = IF y = next THEN x ELSE @,
                                     !.level = [i \in DOMAIN @ |->
                                                   IF i <= top /\ at(i) = y
                                                   THEN Splice(@[i], i, h, x, rank(i), rank(1))
                                                   ELSE @[i]]]
<1>1. /\ level \in 1..MaxLevel /\ MaxLevel \in Nat /\ 1 \in 1..level /\ 1 \in 1..MaxLevel
      /\ length \in Nat /\ \A i \in 1..h : i \in 1..MaxLevel
  BY SkiplistAssumption DEF TypeOK
<1>2. \A i \in 1..level : path[i].at = s[i] /\ path[i].rank = pos[s[i]]
  BY SearchSplits
<1>3. next = Forward(path[1].at, 1)
  BY SearchSplits
<1>4. /\ ~Found(next, k)
      /\ node' = [y \in DOMAIN node \cup {x} |-> IF y = x THEN new ELSE old(y)]
      /\ tail' = IF next = Nil THEN x ELSE tail
      /\ length' = length + 1 /\ level' = top /\ ret' = k
  BY <1>3, Zenon DEF InsertNode, AtKey
<1>5. \A i \in 1..MaxLevel :
        /\ s[i] \in OnLevel(i) /\ s[i] \in DOMAIN node /\ pos[s[i]] \in Nat
        /\ i > level => s[i] = Header /\ Forward(Header, i) = Nil
  <2>1. AtKey \in BOOLEAN
    BY DEF AtKey
  <2> QED BY <2>1, DescentIs
<1> HIDE DEF path
<1>6. \A i \in 1..MaxLevel : at(i) = s[i] /\ rank(i) = pos[s[i]]
  <2>1. \A i \in 1..MaxLevel : i <= level => i \in 1..level
    BY <1>1
  <2>2. \A i \in 1..MaxLevel : i > level \/ i <= level
    BY <1>1
  <2>3. pos[Header] = 0
    BY DEF Placed
  <2> QED BY <1>1, <1>2, <1>5, <2>1, <2>2, <2>3
<1> HIDE DEF at, rank
<1>7. ASSUME NEW i \in 1..MaxLevel PROVE before(i) = End(pos, Forward(s[i], i)) - pos[s[i]]
  <2>1. CASE i <= level
    BY <1>5, <1>6, <2>1 DEF Linked, End
  <2>2. CASE ~(i <= level)
    <3>1. s[i] = Header /\ Forward(s[i], i) = Nil /\ pos[s[i]] = 0
      BY <1>1, <1>5, <2>2 DEF Placed
    <3> QED BY <1>1, <2>2, <3>1 DEF End
  <2> QED BY <2>1, <2>2
<1> HIDE DEF before
<1>8. ASSUME NEW i \in 1..h
      PROVE  before(i) - (rank(1) - rank(i)) = End(pos, Forward(s[i], i)) - pos[s[1]]
  <2>1. i \in 1..MaxLevel /\ 1 \in 1..MaxLevel
    BY <1>1
  <2>2. End(pos, Forward(s[i], i)) \in Int
    <3>1. Forward(s[i], i) \in DOMAIN node \cup {Nil}
      BY <1>5, <2>1 DEF TypeOK, OnLevel
    <3> QED BY <1>1, <3>1 DEF End, Placed
  <2> QED BY <1>5, <1>6, <1>7, <2>1, <2>2
<1>9. new = [obj |-> k, vals |-> <<v>>,
             backward |-> IF s[1] = Header THEN Nil ELSE s[1],
             level |-> [i \in 1..h |->
                          [forward |-> Forward(s[i], i),
                           span |-> End(pos, Forward(s[i], i)) - pos[s[1]]]]]
  BY <1>1, <1>6, <1>8
<1> HIDE DEF top
<1>10. ASSUME NEW y \in DOMAIN node
       PROVE  old(y) = [obj |-> node[y].obj, vals |-> node[y].vals,
                        backward |-> IF y = next THEN x ELSE node[y].backward,
                        level |-> spliced(y)]
  <2> DEFINE b == node[y].backward
             l == node[y].level
             o == node[y].obj
             w == node[y].vals
  <2>1. node[y] = [obj |-> o, vals |-> w, backward |-> b, level |-> l]
    BY NodeFields
  <2> HIDE DEF b, l, o, w
  <2> DEFINE nb == IF y = next THEN x ELSE b
             nl == [i \in DOMAIN l |-> IF i <= top /\ at(i) = y
                                      THEN Splice(l[i], i, h, x, rank(i), rank(1))
                                      ELSE l[i]]
  <2>2. [node[y] EXCEPT !.backward = IF y = next THEN x ELSE node[y].backward,
                        !.level = [i \in DOMAIN node[y].level |->
                                     IF i <= top /\ at(i) = y
                                     THEN Splice(node[y].level[i], i, h, x, rank(i), rank(1))
                                     ELSE node[y].level[i]]]
          = [[obj |-> o, vals |-> w, backward |-> b, level |-> l]
                EXCEPT !.backward = nb, !.level = nl]
    BY <2>1
  <2>3. [[obj |-> o, vals |-> w, backward |-> b, level |-> l]
                EXCEPT !.backward = nb, !.level = nl]
         = [obj |-> o, vals |-> w, backward |-> nb, level |-> nl]
    <3> HIDE DEF nb, nl
    <3>1. [[obj |-> o, vals |-> w, backward |-> b, level |-> l] EXCEPT !.backward = nb]
          = [obj |-> o, vals |-> w, backward |-> nb, level |-> l]
      OBVIOUS
    <3>2. [[obj |-> o, vals |-> w, backward |-> nb, level |-> l] EXCEPT !.level = nl]
          = [obj |-> o, vals |-> w, backward |-> nb, level |-> nl]
      OBVIOUS
    <3> QED BY <3>1, <3>2
  <2> QED BY <2>2, <2>3 DEF b, l, o, w
<1>11. ASSUME NEW y \in DOMAIN node, NEW i \in DOMAIN node[y].level
       PROVE  spliced(y)[i] = IF y = s[i] /\ i <= h
                              THEN [forward |-> x, span |-> pos[s[1]] - pos[s[i]] + 1]
                              ELSE IF y = s[i] /\ i <= level
                              THEN [forward |-> Forward(y, i), span |-> node[y].level[i].span + 1]
                              ELSE node[y].level[i]
  <2>1. i \in 1..MaxLevel /\ i \in Nat /\ h \in Nat /\ level \in Nat
    BY <1>1, NodeFields
  <2>2. node[y].level[i] = [forward |-> Forward(y, i), span |-> node[y].level[i].span]
    BY NodeFields
  <2>3. i <= top <=> i <= h \/ i <= level
    BY <2>1 DEF top
  <2>4. Splice(node[y].level[i], i, h, x, rank(i), rank(1)) =
           IF i <= h THEN [forward |-> x, span |-> pos[s[1]] - pos[s[i]] + 1]
           ELSE [forward |-> Forward(y, i), span |-> node[y].level[i].span + 1]
    BY <1>1, <1>6, <2>1, <2>2 DEF Splice
  <2> QED BY <1>6, <2>1, <2>3, <2>4
<1> HIDE DEF new, old, top
<1>12. \A y \in DOMAIN node \cup {x} : node'[y] = IF y = x THEN new ELSE old(y)
  BY <1>4
<1>13. node'[x] = new /\ \A y \in DOMAIN node : node'[y] = old(y)
  BY <1>12
<1>14. \A y \in DOMAIN node :
         spliced(y) = [i \in DOMAIN node[y].level |->
                                IF y = s[i] /\ i <= h
                                THEN [forward |-> x, span |-> pos[s[1]] - pos[s[i]] + 1]
                                ELSE IF y = s[i] /\ i <= level
                                THEN [forward |-> Forward(y, i), span |-> node[y].level[i].span + 1]
                                ELSE node[y].level[i]]
  BY <1>11
<1> HIDE DEF spliced
<1> QED BY <1>4, <1>9, <1>10, <1>13, <1>14 DEF top, NewNode, SplicedNode, Inserted

(* The nodes of a level the search for k passes end at its stop there.     *)
LEMMA StopsBefore ==
    ASSUME TypeOK, Towers, NEW pos, Placed(pos), Linked(pos), NEW k \in Tuple,
           NEW s, Descent(s, k, AtKey, pos), NEW i \in 1..MaxLevel
    PROVE  /\ s[i] \in OnLevel(i) /\ s[i] \in DOMAIN node /\ pos[s[i]] < pos[s[1]] + 1
           /\ \A y \in OnLevel(i) : pos[y] < pos[s[1]] + 1 => pos[y] <= pos[s[i]]
           /\ \A y \in OnLevel(i) : pos[y] = pos[s[i]] => y = s[i]
<1>0. AtKey \in BOOLEAN /\ 1 \in 1..MaxLevel
  BY SkiplistAssumption DEF AtKey
<1>1. /\ s[i] \in OnLevel(i) /\ s[i] \in DOMAIN node /\ s[1] \in DOMAIN node
      /\ pos[s[i]] \in Nat /\ pos[s[1]] \in Nat /\ pos[s[i]] <= pos[s[1]]
  BY <1>0, DescentIs
<1>2. ASSUME NEW y \in OnLevel(i), pos[y] < pos[s[1]] + 1 PROVE pos[y] <= pos[s[i]]
  <2>1. y \in DOMAIN node /\ pos[y] \in Nat
    BY DEF OnLevel, Placed
  <2>2. pos[y] <= pos[s[1]]
    BY <1>1, <1>2, <2>1
  <2>3. Passes(y, k, AtKey)
    BY <1>0, <2>1, <2>2, Landing DEF Passes, Nodes
  <2> QED BY <2>3 DEF Descent, Stops
<1>3. ASSUME NEW y \in OnLevel(i), pos[y] = pos[s[i]] PROVE y = s[i]
  BY <1>1, <1>3, PlaceIsNode DEF OnLevel
<1> QED BY <1>1, <1>2, <1>3

(* The step to places q puts x before next, with one value.                *)
Grown(pos, q, k, v, x, next) ==
    /\ x \notin Nodes /\ Nodes' = Nodes \cup {x} /\ length' = length + 1 /\ ret' = k
    /\ node'[x].obj = k /\ node'[x].vals = <<v>>
    /\ q[x] = pos[next]
    /\ \A y \in Nodes :
         /\ node'[y].obj = node[y].obj /\ node'[y].vals = node[y].vals
         /\ q[y] = IF pos[y] < pos[next] THEN pos[y] ELSE pos[y] + 1

(* The step to places q takes x out.                                       *)
Shrunk(pos, q, x) ==
    /\ Nodes' = Nodes \ {x} /\ length' = length - 1
    /\ \A y \in Nodes \ {x} :
         /\ node'[y].obj = node[y].obj /\ node'[y].vals = node[y].vals
         /\ q[y] = IF pos[y] < pos[x] THEN pos[y] ELSE pos[y] - 1

(* A new node keeps the list laid out: those behind it move by one.        *)
LEMMA InsertKeepsLayout ==
    ASSUME TypeOK, Towers, NEW pos, Laid(pos), NEW k \in Tuple, NEW v \in Val,
           NEW h \in 1..MaxLevel, NEW x \in NodeId \ DOMAIN node, InsertNode(k, v, h, x)
    PROVE  /\ TypeOK' /\ Towers' /\ ~Found(FindAtLeast(k, AtKey), k)
           /\ \E q : Laid(q)' /\ Grown(pos, q, k, v, x, FindAtLeast(k, AtKey))
<1>1. Placed(pos) /\ Linked(pos) /\ Backed(pos)
  BY DEF Laid
<1>2. PICK s : Descent(s, k, AtKey, pos)
  <2>1. AtKey \in BOOLEAN
    BY DEF AtKey
  <2> QED BY <1>1, <2>1, DescentExists
<1>3. PICK next : next = Forward(s[1], 1)
  OBVIOUS
<1>4. PICK p : p = pos[s[1]] + 1
  OBVIOUS
<1>5. PICK q : q = [y \in DOMAIN node \cup {x, Nil} |->
                      IF y = x THEN p ELSE IF pos[y] < p THEN pos[y] ELSE pos[y] + 1]
  OBVIOUS
<1>6. /\ MaxLevel \in Nat /\ level \in 1..MaxLevel /\ length \in Nat /\ h \in Nat
      /\ 1 \in 1..MaxLevel /\ x # Nil /\ x # Header /\ x \notin DOMAIN node
      /\ Header \in DOMAIN node /\ Nil \notin DOMAIN node /\ 1..h \subseteq 1..MaxLevel
  BY SkiplistAssumption DEF TypeOK
<1>7. Inserted(pos, s, k, v, h, x, next)
  BY <1>1, <1>2, <1>3, InsertFields
<1>8. /\ ~Found(next, k) /\ DOMAIN node' = DOMAIN node \cup {x}
      /\ tail' = (IF next = Nil THEN x ELSE tail) /\ length' = length + 1
      /\ level' = (IF h > level THEN h ELSE level) /\ ret' = k
  BY <1>7 DEF Inserted
<1>9. /\ node'[x].obj = k /\ node'[x].vals = <<v>> /\ DOMAIN node'[x].level = 1..h
      /\ node'[x].backward = (IF s[1] = Header THEN Nil ELSE s[1])
      /\ \A y \in DOMAIN node :
           /\ node'[y].obj = node[y].obj /\ node'[y].vals = node[y].vals
           /\ DOMAIN node'[y].level = DOMAIN node[y].level
           /\ node'[y].backward = IF y = next THEN x ELSE node[y].backward
  <2>1. /\ node'[x].obj = k /\ node'[x].vals = <<v>> /\ DOMAIN node'[x].level = 1..h
        /\ node'[x].backward = (IF s[1] = Header THEN Nil ELSE s[1])
    BY <1>7 DEF Inserted, NewNode
  <2>2. ASSUME NEW y \in DOMAIN node
        PROVE  /\ node'[y].obj = node[y].obj /\ node'[y].vals = node[y].vals
               /\ DOMAIN node'[y].level = DOMAIN node[y].level
               /\ node'[y].backward = IF y = next THEN x ELSE node[y].backward
    <3>1. node'[y] = SplicedNode(pos, s, h, x, next, y)
      BY <1>7 DEF Inserted
    <3> QED BY <3>1 DEF SplicedNode
  <2> QED BY <2>1, <2>2
<1>10. ASSUME NEW i \in 1..h
       PROVE  /\ node'[x].level[i].forward = Forward(s[i], i)
              /\ node'[x].level[i].span = End(pos, Forward(s[i], i)) - pos[s[1]]
  BY <1>7 DEF Inserted, NewNode
<1>11. ASSUME NEW y \in DOMAIN node, NEW i \in DOMAIN node[y].level
       PROVE  /\ node'[y].level[i].forward = IF y = s[i] /\ i <= h THEN x ELSE Forward(y, i)
              /\ node'[y].level[i].span =
                   IF y = s[i] /\ i <= h THEN pos[s[1]] - pos[s[i]] + 1
                   ELSE IF y = s[i] /\ i <= level THEN node[y].level[i].span + 1
                   ELSE node[y].level[i].span
  <2>1. node'[y].level[i] = IF y = s[i] /\ i <= h
                            THEN [forward |-> x, span |-> pos[s[1]] - pos[s[i]] + 1]
                            ELSE IF y = s[i] /\ i <= level
                            THEN [forward |-> Forward(y, i), span |-> node[y].level[i].span + 1]
                            ELSE node[y].level[i]
    <3>1. node'[y] = SplicedNode(pos, s, h, x, next, y)
      BY <1>7 DEF Inserted
    <3> QED BY <3>1 DEF SplicedNode
  <2> QED BY <2>1 DEF Forward
<1>12. /\ pos[Nil] = length + 1 /\ pos[Header] = 0
       /\ \A y \in DOMAIN node : pos[y] \in 0..length
       /\ p \in 1..(length + 1) /\ s[1] \in DOMAIN node /\ pos[s[1]] = p - 1
  <2>1. \A y \in DOMAIN node : pos[y] \in 0..length
    BY <1>1, <1>6 DEF Placed, Nodes
  <2>2. s[1] \in DOMAIN node
    BY <1>1, <1>2, <1>6, StopsBefore
  <2> QED BY <1>1, <1>4, <1>6, <2>1, <2>2 DEF Placed
<1>13. /\ next \in Nodes \cup {Nil} /\ pos[next] = p
       /\ \A z \in Nodes : /\ pos[z] < p => Lt(node[z].obj, k)
                           /\ pos[z] >= p => Lt(k, node[z].obj)
  <2>1. /\ next \in Nodes \cup {Nil} /\ pos[next] = p
        /\ \A z \in Nodes :
             /\ pos[z] < p => Lt(node[z].obj, k)
             /\ pos[z] >= p => node[z].obj = k \/ Lt(k, node[z].obj)
             /\ node[z].obj = k => z = next
    BY <1>1, <1>2, <1>3, <1>4, SearchSplits
  <2>2. \A z \in Nodes : node[z].obj # k
    BY <1>6, <1>8, <2>1 DEF Found, Nodes
  <2> QED BY <2>1, <2>2
<1>14. /\ q \in [DOMAIN node' \cup {Nil} -> Nat] /\ q[x] = p
       /\ \A y \in DOMAIN node \cup {Nil} : q[y] = IF pos[y] < p THEN pos[y] ELSE pos[y] + 1
  <2>1. \A y \in DOMAIN node \cup {Nil} : pos[y] \in Nat /\ y # x
    BY <1>6, <1>12
  <2> QED BY <1>5, <1>8, <1>12, <2>1
<1>15. \A i \in 1..MaxLevel : \A y : y \in OnLevel(i)' <=> y \in OnLevel(i) \/ (y = x /\ i <= h)
  BY <1>6, <1>8, <1>9 DEF OnLevel
<1>16. /\ \A i \in 1..MaxLevel : \A y \in OnLevel(i) :
            Forward(y, i)' = IF y = s[i] /\ i <= h THEN x ELSE Forward(y, i)
       /\ \A i \in 1..h : Forward(x, i)' = Forward(s[i], i)
  BY <1>10, <1>11 DEF Forward, OnLevel
<1>17. Nodes' = Nodes \cup {x}
  BY <1>6, <1>8 DEF Nodes
<1>20. Placed(q)'
  <2>1. q[Header] = 0 /\ q[Nil] = length' + 1
    BY <1>6, <1>8, <1>12, <1>14
  <2>2. \A y \in Nodes' : q[y] \in 1..length'
    BY <1>1, <1>6, <1>8, <1>12, <1>14, <1>17 DEF Placed, Nodes
  <2>3. ASSUME NEW j \in 1..length' PROVE \E y \in Nodes' : q[y] = j
    <3>1. CASE j = p
      BY <1>14, <1>17, <3>1
    <3>2. CASE j < p
      <4>1. j \in 1..length
        BY <1>6, <1>8, <1>12, <3>2
      <4>2. PICK y \in Nodes : pos[y] = j
        BY <1>1, <4>1 DEF Placed
      <4> QED BY <1>14, <1>17, <3>2, <4>2 DEF Nodes
    <3>3. CASE j > p
      <4>1. j - 1 \in 1..length /\ ~(j - 1 < p) /\ j - 1 + 1 = j
        BY <1>6, <1>8, <1>12, <3>3
      <4>2. PICK y \in Nodes : pos[y] = j - 1
        BY <1>1, <4>1 DEF Placed
      <4> QED BY <1>14, <1>17, <4>1, <4>2 DEF Nodes
    <3> QED BY <1>6, <1>8, <1>12, <3>1, <3>2, <3>3
  <2>4. ASSUME NEW y \in Nodes', NEW z \in Nodes', q[y] = q[z] PROVE y = z
    <3>1. CASE y \in Nodes /\ z \in Nodes
      BY <1>1, <1>12, <1>14, <2>4, <3>1 DEF Placed, Nodes
    <3>2. CASE y = x \/ z = x
      BY <1>12, <1>14, <1>17, <2>4, <3>2 DEF Nodes
    <3> QED BY <1>17, <3>1, <3>2
  <2>5. ASSUME NEW y \in Nodes', NEW z \in Nodes', q[y] < q[z]
        PROVE  Lt(node'[y].obj, node'[z].obj)
    <3>1. CASE y \in Nodes /\ z \in Nodes
      <4>1. pos[y] < pos[z]
        BY <1>12, <1>14, <2>5, <3>1 DEF Nodes
      <4> QED BY <1>1, <1>9, <3>1, <4>1 DEF Placed, Nodes
    <3>2. CASE y = x /\ z \in Nodes
      <4>1. pos[z] >= p
        BY <1>12, <1>14, <2>5, <3>2 DEF Nodes
      <4> QED BY <1>9, <1>13, <3>2, <4>1 DEF Nodes
    <3>3. CASE y \in Nodes /\ z = x
      <4>1. pos[y] < p
        BY <1>12, <1>14, <2>5, <3>3 DEF Nodes
      <4> QED BY <1>9, <1>13, <3>3, <4>1 DEF Nodes
    <3>4. CASE y = x /\ z = x
      BY <1>12, <1>14, <2>5, <3>4
    <3> QED BY <1>17, <3>1, <3>2, <3>3, <3>4
  <2> QED BY <1>14, <2>1, <2>2, <2>3, <2>4, <2>5 DEF Placed
<1>21. Linked(q)'
  <2> SUFFICES ASSUME NEW i \in 1..MaxLevel, NEW y \in OnLevel(i)'
               PROVE  LET f == Forward(y, i)'
                      IN  /\ f # Nil => f \in OnLevel(i)'
                          /\ q[y] < q[f]
                          /\ \A z \in OnLevel(i)' : q[y] < q[z] => q[f] <= q[z]
                          /\ i <= level' => node'[y].level[i].span
                                              = (IF f = Nil THEN length' ELSE q[f]) - q[y]
    BY DEF Linked
  <2> DEFINE f == Forward(y, i)'
             o == Forward(s[i], i)
  <2>1. /\ s[i] \in OnLevel(i) /\ s[i] \in DOMAIN node /\ pos[s[i]] < p
        /\ \A z \in OnLevel(i) : /\ pos[z] < p => pos[z] <= pos[s[i]]
                                 /\ pos[z] = pos[s[i]] => z = s[i]
    BY <1>1, <1>2, <1>4, StopsBefore
  <2>2. ASSUME NEW z \in OnLevel(i)
        PROVE  /\ z \in DOMAIN node /\ i \in DOMAIN node[z].level /\ pos[z] \in 0..length /\ z # x
               /\ Forward(z, i) \in DOMAIN node \cup {Nil}
               /\ Forward(z, i) # Nil => Forward(z, i) \in OnLevel(i)
               /\ pos[Forward(z, i)] \in 0..(length + 1)
               /\ pos[z] < pos[Forward(z, i)]
               /\ \A w \in OnLevel(i) : pos[z] < pos[w] => pos[Forward(z, i)] <= pos[w]
               /\ i <= level => node[z].level[i].span = End(pos, Forward(z, i)) - pos[z]
    <3>1. z \in DOMAIN node /\ i \in DOMAIN node[z].level
      BY DEF OnLevel
    <3>2. Forward(z, i) \in DOMAIN node \cup {Nil}
      BY <3>1 DEF TypeOK
    <3>3. pos[z] \in 0..length /\ pos[Forward(z, i)] \in 0..(length + 1) /\ z # x
      BY <1>6, <1>12, <3>1, <3>2
    <3> QED BY <1>1, <3>1, <3>2, <3>3 DEF Linked, End
  <2>3. /\ o \in DOMAIN node \cup {Nil} /\ o # x /\ (o # Nil => o \in OnLevel(i))
        /\ p <= pos[o] /\ pos[o] \in 0..(length + 1) /\ pos[s[i]] \in 0..length
    <3>1. o = Nil => pos[o] = length + 1
      BY <1>12
    <3>2. o # Nil => p <= pos[o]
      BY <1>12, <2>1, <2>2
    <3> QED BY <1>6, <1>12, <2>1, <2>2, <3>1, <3>2
  <2>4. \A z \in OnLevel(i)' : z = x \/ z \in OnLevel(i)
    BY <1>15
  <2>5. \A z \in OnLevel(i) : z \in OnLevel(i)'
    BY <1>15
  <2>6. i \in Nat /\ level \in Nat /\ h \in Nat /\ length' = length + 1
        /\ (i <= level' <=> i <= level \/ i <= h)
    BY <1>6, <1>8
  <2>7. q[x] = p /\ p \in Nat /\ length \in Nat /\ \A z \in OnLevel(i) : q[z] = IF pos[z] < p THEN pos[z] ELSE pos[z] + 1
    BY <1>6, <1>12, <1>14, <2>2
  <2>8. \A z \in OnLevel(i) : LET g == Forward(z, i)
                              IN  q[g] = IF pos[g] < p THEN pos[g] ELSE pos[g] + 1
    BY <1>14, <2>2
  <2>9. CASE y = x
    <3>1. i <= h /\ i \in 1..h /\ f = o
      BY <1>6, <1>15, <1>16, <2>2, <2>9
    <3>2. q[f] = pos[o] + 1 /\ q[y] = p
      BY <2>1, <2>3, <2>7, <2>8, <2>9, <3>1
    <3>3. f # Nil => f \in OnLevel(i)'
      BY <2>3, <2>5, <3>1
    <3>4. ASSUME NEW z \in OnLevel(i)', q[y] < q[z] PROVE q[f] <= q[z]
      <4>1. z \in OnLevel(i) /\ z # x
        BY <2>4, <2>7, <2>9, <3>4
      <4>2. pos[s[i]] < pos[z] /\ ~(pos[z] < p)
        BY <2>1, <2>2, <2>3, <2>7, <3>2, <3>4, <4>1
      <4>3. pos[o] <= pos[z]
        BY <2>1, <2>2, <4>1, <4>2
      <4> QED BY <2>2, <2>3, <2>7, <3>2, <4>1, <4>2, <4>3
    <3>5. node'[y].level[i].span = End(pos, o) - (p - 1)
      BY <1>10, <1>12, <2>9, <3>1
    <3>6. node'[y].level[i].span = (IF f = Nil THEN length' ELSE q[f]) - q[y]
      BY <2>3, <2>6, <2>7, <3>1, <3>2, <3>5 DEF End
    <3> QED BY <2>3, <2>7, <3>2, <3>3, <3>4, <3>6
  <2>10. CASE y = s[i] /\ i <= h
    <3>1. f = x /\ x \in OnLevel(i)' /\ x # Nil
      BY <1>6, <1>15, <1>16, <2>1, <2>10
    <3>2. q[y] = pos[y] /\ q[f] = p /\ q[y] < p
      BY <2>1, <2>7, <2>10, <3>1
    <3>3. ASSUME NEW z \in OnLevel(i)', q[y] < q[z] PROVE q[f] <= q[z]
      <4>1. CASE z = x
        BY <2>7, <3>2, <4>1
      <4>2. CASE z \in OnLevel(i)
        BY <2>1, <2>2, <2>3, <2>7, <2>10, <3>2, <3>3, <4>2
      <4> QED BY <2>4, <4>1, <4>2
    <3>4. node'[y].level[i].span = pos[s[1]] - pos[s[i]] + 1
      BY <1>11, <2>1, <2>2, <2>10
    <3>5. node'[y].level[i].span = q[f] - q[y]
      BY <1>12, <2>3, <2>7, <2>10, <3>2, <3>4
    <3> QED BY <3>1, <3>2, <3>3, <3>5
  <2>11. CASE y = s[i] /\ ~(i <= h)
    <3>1. f = o /\ x \notin OnLevel(i)'
      BY <1>15, <1>16, <2>1, <2>2, <2>11
    <3>2. q[y] = pos[y] /\ q[f] = pos[o] + 1
      BY <2>1, <2>3, <2>7, <2>8, <2>11, <3>1
    <3>3. f # Nil => f \in OnLevel(i)'
      BY <2>3, <2>5, <3>1
    <3>4. ASSUME NEW z \in OnLevel(i)', q[y] < q[z] PROVE q[f] <= q[z]
      <4>1. z \in OnLevel(i)
        BY <2>4, <3>1
      <4>2. pos[s[i]] < pos[z] /\ ~(pos[z] < p)
        BY <2>1, <2>2, <2>3, <2>7, <2>11, <3>2, <3>4, <4>1
      <4>3. pos[o] <= pos[z]
        BY <2>1, <2>2, <4>1, <4>2
      <4> QED BY <2>2, <2>3, <2>7, <3>2, <4>1, <4>2, <4>3
    <3>5. ASSUME i <= level' PROVE node'[y].level[i].span = (IF f = Nil THEN length' ELSE q[f]) - q[y]
      <4>1. i <= level
        BY <2>6, <2>11, <3>5
      <4>2. node'[y].level[i].span = node[y].level[i].span + 1
        BY <1>11, <2>1, <2>2, <2>11, <4>1
      <4>3. node[y].level[i].span = End(pos, o) - pos[y]
        BY <2>1, <2>2, <2>11, <4>1
      <4> QED BY <2>3, <2>6, <2>7, <2>11, <3>1, <3>2, <4>2, <4>3 DEF End
    <3>6. q[y] < q[f]
      BY <2>1, <2>3, <2>7, <2>11, <3>2
    <3> QED BY <3>3, <3>4, <3>5, <3>6
  <2>12. CASE y \in OnLevel(i) /\ y # s[i]
    <3> DEFINE g == Forward(y, i)
    <3>1. f = g /\ pos[y] # pos[s[i]] /\ pos[y] \in 0..length /\ pos[g] \in 0..(length + 1)
      BY <1>16, <2>1, <2>2, <2>12
    <3>2. f # Nil => f \in OnLevel(i)'
      BY <2>2, <2>5, <2>12, <3>1
    <3>3. /\ q[y] = IF pos[y] < p THEN pos[y] ELSE pos[y] + 1
          /\ q[f] = IF pos[g] < p THEN pos[g] ELSE pos[g] + 1
          /\ pos[y] < pos[g]
      BY <2>2, <2>7, <2>8, <2>12, <3>1
    <3>4. (pos[y] < p /\ pos[g] < p) \/ (~(pos[y] < p) /\ ~(pos[g] < p))
      <4>1. CASE pos[y] < p
        <5>1. pos[y] < pos[s[i]]
          BY <2>1, <2>3, <2>12, <3>1, <4>1
        <5>2. pos[g] <= pos[s[i]]
          BY <2>1, <2>2, <2>12, <5>1
        <5> QED BY <2>1, <2>3, <2>7, <3>1, <4>1, <5>2
      <4>2. CASE ~(pos[y] < p)
        BY <2>7, <3>1, <3>3, <4>2
      <4> QED BY <4>1, <4>2
    <3>5. ASSUME NEW z \in OnLevel(i)', q[y] < q[z] PROVE q[f] <= q[z]
      <4>1. CASE z = x
        BY <2>7, <3>1, <3>3, <3>4, <3>5, <4>1
      <4>2. CASE z \in OnLevel(i)
        <5>1. pos[z] \in 0..length /\ q[z] = IF pos[z] < p THEN pos[z] ELSE pos[z] + 1
          BY <2>2, <2>7, <4>2
        <5>2. pos[y] < pos[z]
          BY <2>7, <3>1, <3>3, <3>5, <5>1
        <5>3. pos[g] <= pos[z]
          BY <2>2, <2>12, <4>2, <5>2
        <5> QED BY <2>7, <3>1, <3>3, <3>4, <5>1, <5>3
      <4> QED BY <2>4, <4>1, <4>2
    <3>6. ASSUME i <= level' PROVE node'[y].level[i].span = (IF f = Nil THEN length' ELSE q[f]) - q[y]
      <4>1. i <= level
        <5>1. CASE y = Header
          <6>1. AtKey \in BOOLEAN
            BY DEF AtKey
          <6>2. i > level => s[i] = Header
            BY <1>1, <1>2, <6>1, DescentIs
          <6> QED BY <2>6, <2>12, <5>1, <6>2
        <5>2. CASE y # Header
          <6>1. y \in Nodes /\ i \in DOMAIN node[y].level
            BY <2>2, <2>12, <5>2 DEF Nodes
          <6>2. i \in 1..level
            BY <6>1 DEF Towers
          <6> QED BY <2>6, <6>2
        <5> QED BY <5>1, <5>2
      <4>2. node'[y].level[i].span = node[y].level[i].span
        BY <1>11, <2>2, <2>12
      <4>3. node[y].level[i].span = End(pos, g) - pos[y]
        BY <2>2, <2>12, <4>1
      <4>4. CASE g = Nil
        <5>1. ~(pos[y] < p) /\ g = Nil /\ f = Nil
          BY <1>12, <2>7, <3>1, <3>4, <4>4
        <5> QED BY <2>6, <2>7, <3>1, <3>3, <4>2, <4>3, <5>1 DEF End
      <4>5. CASE g # Nil
        BY <2>7, <3>1, <3>3, <3>4, <4>2, <4>3, <4>5 DEF End
      <4> QED BY <4>4, <4>5
    <3> QED BY <2>7, <3>1, <3>2, <3>3, <3>4, <3>5, <3>6
  <2>13. y = x \/ y \in OnLevel(i)
    BY <2>4
  <2> QED BY <2>9, <2>10, <2>11, <2>12, <2>13
<1>22. Backed(q)'
  <2>1. node'[Header].backward = Nil
    BY <1>1, <1>6, <1>9, <1>13 DEF Backed, Nodes
  <2>2. ASSUME NEW y \in Nodes' PROVE AtBack(q, node[y].backward, q[y] - 1)'
    <3>1. CASE y = x
      <4>1. CASE s[1] = Header
        BY <1>9, <1>12, <1>14, <3>1, <4>1 DEF AtBack
      <4>2. CASE s[1] # Header
        <5>1. /\ node'[x].backward = s[1] /\ s[1] # Nil /\ s[1] \in Nodes'
              /\ q[s[1]] = p - 1 /\ q[x] = p
          BY <1>6, <1>9, <1>12, <1>14, <1>17, <4>2 DEF Nodes
        <5> QED BY <3>1, <5>1 DEF AtBack
      <4> QED BY <4>1, <4>2
    <3>2. CASE y \in Nodes /\ y = next
      <4>1. node'[y].backward = x /\ q[y] = p + 1 /\ x # Nil /\ x \in Nodes' /\ q[x] = p
        BY <1>6, <1>9, <1>12, <1>13, <1>14, <1>17, <3>2 DEF Nodes
      <4> QED BY <1>12, <4>1 DEF AtBack
    <3>3. CASE y \in Nodes /\ y # next
      <4> DEFINE b == node[y].backward
      <4>1. node'[y].backward = b /\ y \in DOMAIN node /\ pos[y] \in 1..length
        BY <1>1, <1>9, <3>3 DEF Nodes, Placed
      <4>2. AtBack(pos, b, pos[y] - 1)
        BY <1>1, <3>3 DEF Backed
      <4>3. pos[y] # p
        <5>1. next = Nil => pos[next] = length + 1
          BY <1>12
        <5>2. pos[y] = p => next \in Nodes /\ pos[next] = pos[y]
          BY <1>6, <1>13, <4>1, <5>1
        <5> QED BY <1>1, <3>3, <5>2 DEF Placed
      <4>4. q[y] = IF pos[y] < p THEN pos[y] ELSE pos[y] + 1
        BY <1>14, <4>1
      <4> HIDE DEF b
      <4>5. CASE b = Nil
        <5>1. pos[y] = 1 /\ pos[y] < p
          BY <1>6, <1>12, <4>1, <4>2, <4>3, <4>5 DEF AtBack
        <5> QED BY <4>1, <4>4, <4>5, <5>1 DEF AtBack
      <4>6. CASE b # Nil
        <5>1. b \in Nodes /\ pos[b] = pos[y] - 1 /\ b \in DOMAIN node /\ b \in Nodes'
          BY <1>17, <4>2, <4>6 DEF AtBack, Nodes
        <5>2. q[b] = q[y] - 1
          BY <1>6, <1>12, <1>14, <4>1, <4>3, <4>4, <5>1
        <5> QED BY <4>1, <4>6, <5>1, <5>2 DEF AtBack
      <4> QED BY <4>5, <4>6
    <3> QED BY <1>17, <3>1, <3>2, <3>3
  <2>3. AtBack(q, tail, length)'
    <3>1. CASE next = Nil
      <4>1. tail' = x /\ x # Nil /\ x \in Nodes' /\ q[x] = length'
        BY <1>6, <1>8, <1>12, <1>13, <1>14, <1>17, <3>1
      <4> QED BY <4>1 DEF AtBack
    <3>2. CASE next # Nil
      <4>1. next \in Nodes /\ p \in 1..length /\ tail' = tail
        BY <1>1, <1>8, <1>13, <3>2 DEF Placed
      <4>2. tail # Nil /\ tail \in Nodes /\ pos[tail] = length
        BY <1>1, <1>6, <4>1 DEF Backed, AtBack
      <4>3. q[tail] = length' /\ tail \in Nodes'
        BY <1>6, <1>8, <1>14, <1>17, <4>1, <4>2 DEF Nodes
      <4> QED BY <4>1, <4>2, <4>3 DEF AtBack
    <3> QED BY <3>1, <3>2
  <2> QED BY <2>1, <2>2, <2>3 DEF Backed
<1>23. Towers'
  <2>1. \A i : i \in 1..h => i \in 1..level'
    BY <1>6, <1>8
  <2>2. \A i : i \in 1..level => i \in 1..level'
    BY <1>6, <1>8
  <2>3. \A y \in Nodes' : DOMAIN node'[y].level \subseteq 1..level'
    BY <1>9, <1>17, <2>1, <2>2 DEF Towers, Nodes
  <2>4. ASSUME level' > 1 PROVE \E y \in Nodes' : y \in OnLevel(level)'
    <3>1. CASE h > level
      BY <1>6, <1>8, <1>15, <1>17, <3>1
    <3>2. CASE ~(h > level)
      BY <1>6, <1>8, <1>15, <1>17, <2>4, <3>2 DEF Towers
    <3> QED BY <3>1, <3>2
  <2> QED BY <2>3, <2>4 DEF Towers
<1>24. TypeOK'
  <2>1. ASSUME NEW y \in DOMAIN node', NEW i \in DOMAIN node'[y].level
        PROVE  Forward(y, i)' \in (NodeId \cup {Nil}) \cap (DOMAIN node' \cup {Nil})
    <3> DEFINE f == Forward(y, i)'
    <3>1. i \in 1..MaxLevel
      BY <1>6, <1>8, <1>9, NodeFields
    <3>2. y \in OnLevel(i)'
      BY <2>1 DEF OnLevel
    <3>3. (f # Nil => f \in OnLevel(i)') /\ q[y] < q[f]
      BY <1>21, <3>1, <3>2 DEF Linked
    <3>4. q[Header] = 0 /\ q[y] \in Nat
      BY <1>14, <1>20, <2>1 DEF Placed
    <3>5. f # Nil => f \in DOMAIN node' /\ f # Header
      BY <3>3, <3>4 DEF OnLevel
    <3> QED BY <1>8, <3>5 DEF TypeOK
  <2>2. node'[x] \in NodeRecord(h)
    <3>1. ASSUME NEW i \in 1..h
          PROVE  NewNode(pos, s, k, v, h).level[i] \in Link
      <4> DEFINE f == Forward(s[i], i)
                 r == NewNode(pos, s, k, v, h).level[i].span
      <4>1. x \in OnLevel(i)' /\ i \in 1..MaxLevel /\ i \in DOMAIN node'[x].level /\ i <= level'
        BY <1>6, <1>8, <1>9, <1>15
      <4>2. Forward(x, i)' = f /\ f \in NodeId \cup {Nil} /\ f \in DOMAIN node' \cup {Nil}
        BY <1>8, <1>16, <2>1, <4>1
      <4>3. node'[x].level[i].span = (IF f = Nil THEN length' ELSE q[f]) - q[x] /\ q[x] < q[f]
        BY <1>21, <4>1, <4>2 DEF Linked
      <4>4. node'[x].level[i].span = r
        BY <1>7 DEF Inserted
      <4>5. q[Nil] = length' + 1 /\ length' \in Nat /\ q[x] \in Nat /\ q[f] \in Nat
        BY <1>6, <1>8, <1>12, <1>14, <1>20, <4>2 DEF Placed
      <4>6. r \in Nat
        BY <4>3, <4>4, <4>5
      <4> QED BY <4>2, <4>6 DEF NewNode, Link
    <3>2. NewNode(pos, s, k, v, h).level \in [1..h -> Link]
      BY <3>1 DEF NewNode
    <3>3. <<v>> \in Seq(Val) /\ (s[1] # Header => s[1] \in NodeId)
      BY <1>12 DEF TypeOK
    <3>4. node'[x] = NewNode(pos, s, k, v, h)
      BY <1>7 DEF Inserted
    <3> QED BY <3>2, <3>3, <3>4 DEF NewNode, NodeRecord
  <2>3. ASSUME NEW y \in DOMAIN node, NEW g \in 1..MaxLevel, node[y] \in NodeRecord(g)
        PROVE  node'[y] \in NodeRecord(g)
    <3> DEFINE l == SplicedNode(pos, s, h, x, next, y).level
    <3>1. node'[y] = SplicedNode(pos, s, h, x, next, y)
      BY <1>7 DEF Inserted
    <3>2. DOMAIN node[y].level = 1..g /\ node[y].obj \in Tuple \cup {Nil} /\ node[y].vals \in Seq(Val)
          /\ node[y].backward \in NodeId \cup {Nil} /\ \A i \in 1..g : node[y].level[i] \in Link
      BY <2>3 DEF NodeRecord
    <3>3. ASSUME NEW i \in 1..g PROVE l[i] \in Link
      <4>1. i \in 1..MaxLevel
        BY <3>2, NodeFields
      <4>2. node[y].level[i].span \in Nat /\ Forward(y, i) \in NodeId \cup {Nil}
        BY <3>2 DEF Link, Forward
      <4>3. pos[s[1]] - pos[s[i]] + 1 \in Nat
        <5>1. s[i] \in DOMAIN node /\ pos[s[i]] < p
          BY <1>1, <1>2, <1>4, <4>1, StopsBefore
        <5> QED BY <1>12, <5>1
      <4>4. l[i] = IF y = s[i] /\ i <= h
                   THEN [forward |-> x, span |-> pos[s[1]] - pos[s[i]] + 1]
                   ELSE IF y = s[i] /\ i <= level
                   THEN [forward |-> Forward(y, i), span |-> node[y].level[i].span + 1]
                   ELSE node[y].level[i]
        BY <3>2 DEF SplicedNode
      <4> QED BY <3>2, <4>2, <4>3, <4>4 DEF Link
    <3>4. l \in [1..g -> Link]
      <4>1. DOMAIN l = 1..g /\ l = [i \in 1..g |-> l[i]]
        BY <3>2 DEF SplicedNode
      <4> HIDE DEF l
      <4> QED BY <3>3, <4>1
    <3> QED BY <3>1, <3>2, <3>4 DEF SplicedNode, NodeRecord
  <2>4. \A y \in DOMAIN node' : \E g \in 1..MaxLevel : node'[y] \in NodeRecord(g)
    BY <1>8, <2>2, <2>3 DEF TypeOK
  <2>5. ASSUME NEW y \in DOMAIN node'
        PROVE  /\ y # Header => node'[y].obj \in Tuple /\ node'[y].vals # <<>>
               /\ node'[y].backward \in DOMAIN node' \cup {Nil}
               /\ \A i \in DOMAIN node'[y].level : Forward(y, i)' \in DOMAIN node' \cup {Nil}
    <3>1. y # Header => node'[y].obj \in Tuple /\ node'[y].vals # <<>>
      <4>1. CASE y = x
        <5>1. node'[y].obj = k /\ node'[y].vals = <<v>>
          BY <1>9, <4>1
        <5> QED BY <5>1
      <4>2. CASE y \in DOMAIN node
        BY <1>9, <4>2 DEF TypeOK
      <4> QED BY <1>8, <4>1, <4>2
    <3>2. node'[y].backward \in DOMAIN node' \cup {Nil}
      BY <1>8, <1>9, <1>12 DEF TypeOK
    <3> QED BY <2>1, <3>1, <3>2
  <2>6. /\ Header \in DOMAIN node' /\ DOMAIN node' \subseteq NodeId \cup {Header}
        /\ DOMAIN node'[Header].level = 1..MaxLevel
        /\ length' \in Nat /\ level' \in 1..MaxLevel /\ ret' \in Tuple \cup {Nil}
    BY <1>6, <1>8, <1>9 DEF TypeOK
  <2>7. tail' \in (DOMAIN node' \ {Header}) \cup {Nil}
    BY <1>6, <1>8 DEF TypeOK
  <2> QED BY <2>4, <2>5, <2>6, <2>7 DEF TypeOK
<1>25. next = FindAtLeast(k, AtKey)
  BY <1>1, <1>2, <1>3, SearchSplits
<1>26. Grown(pos, q, k, v, x, next)
  BY <1>6, <1>8, <1>9, <1>13, <1>14, <1>17 DEF Grown, Nodes
<1>27. Laid(q)'
  BY <1>20, <1>21, <1>22 DEF Laid
<1> QED BY <1>8, <1>23, <1>24, <1>25, <1>26, <1>27
-----------------------------------------------------------------------------
LEMMA MaxIsGreatest ==
    ASSUME NEW n \in Nat, NEW S \in SUBSET (0..n), S # {}
    PROVE  Max(S) \in S /\ \A i \in S : i <= Max(S)
<1>1. PICK m \in S : \A i \in S : i <= m
  BY GreatestOf
<1>2. \A i \in S : m >= i
  <2>1. \A i \in S : i \in Int
    OBVIOUS
  <2> QED BY <1>1, <2>1
<1>3. Max(S) \in S /\ \A i \in S : Max(S) >= i
  BY <1>2 DEF Max
<1>4. \A i \in S : i \in Int
  OBVIOUS
<1> QED BY <1>3, <1>4

(* The node the search for its key ends at: the stops are linked to it on  *)
(* the levels of its tower and on no others.                               *)
LEMMA StopsLead ==
    ASSUME TypeOK, Towers, NEW pos, Placed(pos), Linked(pos), NEW k \in Tuple,
           NEW s, Descent(s, k, AtKey, pos), NEW x \in Nodes, x = Forward(s[1], 1)
    PROVE  /\ pos[x] = pos[s[1]] + 1
           /\ \A i \in 1..MaxLevel : Forward(s[i], i) = x <=> x \in OnLevel(i)
<1>1. pos[x] = pos[s[1]] + 1 /\ pos[x] \in 1..length /\ length \in Nat
  <2>1. pos[x] = pos[s[1]] + 1
    BY SearchSplits
  <2> QED BY <2>1 DEF Placed, TypeOK
<1>2. ASSUME NEW i \in 1..MaxLevel PROVE Forward(s[i], i) = x <=> x \in OnLevel(i)
  <2> DEFINE f == Forward(s[i], i)
  <2>1. /\ s[i] \in OnLevel(i) /\ s[i] \in DOMAIN node /\ pos[s[i]] < pos[x]
        /\ \A y \in OnLevel(i) : pos[y] < pos[x] => pos[y] <= pos[s[i]]
    BY <1>1, StopsBefore
  <2>2. /\ f # Nil => f \in OnLevel(i) /\ f \in DOMAIN node
        /\ pos[s[i]] < pos[f] /\ pos[s[i]] \in Nat /\ pos[f] \in Nat
        /\ \A y \in OnLevel(i) : pos[s[i]] < pos[y] => pos[f] <= pos[y]
    BY <2>1 DEF Linked, OnLevel, Placed
  <2> HIDE DEF f
  <2>3. x # Nil /\ x \in DOMAIN node
    BY NodeFields DEF Nodes
  <2>4. ASSUME x \in OnLevel(i) PROVE f = x
    <3>1. pos[f] <= pos[x]
      BY <2>1, <2>2, <2>4
    <3>2. f # Nil
      BY <1>1, <2>2, <3>1 DEF Placed
    <3>3. ~(pos[f] < pos[x])
      BY <1>1, <2>1, <2>2, <3>2
    <3>4. pos[f] = pos[x]
      BY <1>1, <2>2, <3>1, <3>3
    <3> QED BY <2>2, <2>3, <3>2, <3>4, PlaceIsNode
  <2> QED BY <2>2, <2>3, <2>4 DEF f
<1> QED BY <1>1, <1>2

(* What becomes of y when x is unlinked after a search with the stops s.   *)
RestNode(s, x, y) ==
    [obj |-> node[y].obj, vals |-> node[y].vals,
     backward |-> IF y = Forward(x, 1) THEN node[x].backward ELSE node[y].backward,
     level |-> [i \in DOMAIN node[y].level |->
                  IF y = s[i] /\ i <= level
                  THEN IF x \in OnLevel(i)
                       THEN [forward |-> Forward(x, i),
                             span |-> node[y].level[i].span + node[x].level[i].span - 1]
                       ELSE [forward |-> Forward(y, i), span |-> node[y].level[i].span - 1]
                  ELSE node[y].level[i]]]

Unlinked(s, x) ==
    /\ DOMAIN node' = DOMAIN node \ {x}
    /\ \A y \in DOMAIN node \ {x} : node'[y] = RestNode(s, x, y)
    /\ tail' = IF Forward(x, 1) = Nil THEN node[x].backward ELSE tail
    /\ length' = length - 1
    /\ level' \in 1..level
    /\ level' > 1 => node'[Header].level[level'].forward # Nil
    /\ \A i \in 2..level : node'[Header].level[i].forward # Nil => i <= level'

(* What skiplistDeleteNode writes into the nodes around the one it removes.*)
LEMMA UnlinkFields ==
    ASSUME TypeOK, Towers, NEW pos, Placed(pos), Linked(pos), NEW k \in Tuple,
           NEW s, Descent(s, k, AtKey, pos), NEW x \in Nodes, x = Forward(s[1], 1),
           Unlink(x, Path(k, AtKey))
    PROVE  Unlinked(s, x)
<1> DEFINE path == Path(k, AtKey)
           at(i) == path[i].at
           gone(link, i) ==
               IF link.forward = x
               THEN [forward |-> Forward(x, i), span |-> link.span + node[x].level[i].span - 1]
               ELSE [link EXCEPT !.span = @ - 1]
           bridged(y) == [i \in DOMAIN node[y].level |->
                            IF i <= level /\ at(i) = y THEN gone(node[y].level[i], i)
                            ELSE node[y].level[i]]
           rest(y) == [node[y] EXCEPT
                          !.backward = IF y = Forward(x, 1) THEN node[x].backward ELSE @,
                          !.level = [i \in DOMAIN @ |->
                                        IF i <= level /\ at(i) = y THEN gone(@[i], i) ELSE @[i]]]
           left == [y \in DOMAIN node \ {x} |-> rest(y)]
           used == {1} \cup {i \in 2..level : left[Header].level[i].forward # Nil}
<1>1. /\ level \in 1..MaxLevel /\ MaxLevel \in Nat /\ 1..level \subseteq 1..MaxLevel
      /\ Header \in DOMAIN node \ {x} /\ level \in Nat /\ level >= 1
  BY SkiplistAssumption DEF TypeOK, Nodes
<1>2. \A i \in 1..level : at(i) = s[i]
  BY SearchSplits
<1> HIDE DEF path, at
<1>3. /\ node' = left /\ level' = Max(used) /\ length' = length - 1
      /\ tail' = IF Forward(x, 1) = Nil THEN node[x].backward ELSE tail
  BY Zenon DEF Unlink, path, at
<1>4. ASSUME NEW y \in DOMAIN node
      PROVE  rest(y) = [obj |-> node[y].obj, vals |-> node[y].vals,
                        backward |-> IF y = Forward(x, 1) THEN node[x].backward ELSE node[y].backward,
                        level |-> bridged(y)]
  <2> DEFINE b == node[y].backward
             l == node[y].level
             o == node[y].obj
             w == node[y].vals
  <2>1. node[y] = [obj |-> o, vals |-> w, backward |-> b, level |-> l]
    BY NodeFields
  <2> HIDE DEF b, l, o, w, gone
  <2> DEFINE nb == IF y = Forward(x, 1) THEN node[x].backward ELSE b
             nl == [i \in DOMAIN l |-> IF i <= level /\ at(i) = y THEN gone(l[i], i) ELSE l[i]]
  <2>2. [node[y] EXCEPT !.backward = IF y = Forward(x, 1) THEN node[x].backward ELSE node[y].backward,
                        !.level = [i \in DOMAIN node[y].level |->
                                     IF i <= level /\ at(i) = y THEN gone(node[y].level[i], i)
                                     ELSE node[y].level[i]]]
          = [[obj |-> o, vals |-> w, backward |-> b, level |-> l]
                EXCEPT !.backward = nb, !.level = nl]
    BY <2>1
  <2>3. [[obj |-> o, vals |-> w, backward |-> b, level |-> l]
                EXCEPT !.backward = nb, !.level = nl]
         = [obj |-> o, vals |-> w, backward |-> nb, level |-> nl]
    <3> HIDE DEF nb, nl
    <3>1. [[obj |-> o, vals |-> w, backward |-> b, level |-> l] EXCEPT !.backward = nb]
          = [obj |-> o, vals |-> w, backward |-> nb, level |-> l]
      OBVIOUS
    <3>2. [[obj |-> o, vals |-> w, backward |-> nb, level |-> l] EXCEPT !.level = nl]
          = [obj |-> o, vals |-> w, backward |-> nb, level |-> nl]
      OBVIOUS
    <3> QED BY <3>1, <3>2
  <2> QED BY <2>2, <2>3 DEF b, l, o, w
<1>5. ASSUME NEW y \in DOMAIN node, NEW i \in DOMAIN node[y].level
      PROVE  bridged(y)[i] =
                IF y = s[i] /\ i <= level
                THEN IF x \in OnLevel(i)
                     THEN [forward |-> Forward(x, i),
                           span |-> node[y].level[i].span + node[x].level[i].span - 1]
                     ELSE [forward |-> Forward(y, i), span |-> node[y].level[i].span - 1]
                ELSE node[y].level[i]
  <2>1. i \in 1..MaxLevel /\ i \in Nat /\ (i <= level => i \in 1..level)
    BY <1>1, NodeFields
  <2>2. node[y].level[i] = [forward |-> Forward(y, i), span |-> node[y].level[i].span]
    BY NodeFields
  <2>3. y = s[i] => (Forward(y, i) = x <=> x \in OnLevel(i))
    BY <2>1, StopsLead
  <2>4. gone(node[y].level[i], i) =
           IF Forward(y, i) = x
           THEN [forward |-> Forward(x, i), span |-> node[y].level[i].span + node[x].level[i].span - 1]
           ELSE [forward |-> Forward(y, i), span |-> node[y].level[i].span - 1]
    <3> DEFINE u == node[y].level[i].span
               f == Forward(y, i)
    <3>1. node[y].level[i].forward = f /\ node[y].level[i] = [forward |-> f, span |-> u]
      BY <2>2 DEF Forward
    <3> HIDE DEF u, f
    <3>2. [node[y].level[i] EXCEPT !.span = @ - 1] = [forward |-> f, span |-> u - 1]
      <4>1. [[forward |-> f, span |-> u] EXCEPT !.span = u - 1] = [forward |-> f, span |-> u - 1]
        OBVIOUS
      <4> QED BY <3>1, <4>1 DEF u
    <3> QED BY <3>1, <3>2 DEF u, f
  <2> HIDE DEF gone
  <2>5. bridged(y)[i] = IF i <= level /\ at(i) = y THEN gone(node[y].level[i], i) ELSE node[y].level[i]
    OBVIOUS
  <2> HIDE DEF bridged
  <2>6. i <= level => at(i) = s[i]
    BY <1>2, <2>1
  <2> QED BY <2>3, <2>4, <2>5, <2>6
<1>6. \A y \in DOMAIN node : rest(y) = RestNode(s, x, y)
  <2> SUFFICES ASSUME NEW y \in DOMAIN node PROVE rest(y) = RestNode(s, x, y)
    OBVIOUS
  <2>1. bridged(y) = [i \in DOMAIN node[y].level |->
                IF y = s[i] /\ i <= level
                THEN IF x \in OnLevel(i)
                     THEN [forward |-> Forward(x, i),
                           span |-> node[y].level[i].span + node[x].level[i].span - 1]
                     ELSE [forward |-> Forward(y, i), span |-> node[y].level[i].span - 1]
                ELSE node[y].level[i]]
    BY <1>5
  <2> HIDE DEF bridged, rest
  <2> QED BY <1>4, <2>1 DEF RestNode
<1> HIDE DEF rest
<1>7. /\ DOMAIN node' = DOMAIN node \ {x}
      /\ \A y \in DOMAIN node \ {x} : node'[y] = RestNode(s, x, y)
  BY <1>3, <1>6
<1>8. level' \in used /\ \A i \in used : i <= level'
  <2>1. used \in SUBSET (0..level) /\ used # {}
    <3> HIDE DEF left
    <3> QED BY <1>1
  <2> HIDE DEF used
  <2> QED BY <1>1, <1>3, <2>1, MaxIsGreatest
<1>9. left[Header] = node'[Header]
  BY <1>3
<1> HIDE DEF left
<1>10. /\ level' \in 1..level
       /\ level' > 1 => node'[Header].level[level'].forward # Nil
       /\ \A i \in 2..level : node'[Header].level[i].forward # Nil => i <= level'
  BY <1>1, <1>8, <1>9
<1> QED BY <1>3, <1>7, <1>10 DEF Unlinked

(* Removing a node keeps the list laid out: those behind it move by one.   *)
LEMMA UnlinkKeepsLayout ==
    ASSUME TypeOK, Towers, NEW pos, Laid(pos), NEW k \in Tuple, NEW x \in Nodes,
           x = FindAtLeast(k, AtKey), Unlink(x, Path(k, AtKey)), ret' \in Tuple \cup {Nil}
    PROVE  TypeOK' /\ Towers' /\ \E q : Laid(q)' /\ Shrunk(pos, q, x)
<1>1. Placed(pos) /\ Linked(pos) /\ Backed(pos)
  BY DEF Laid
<1>2. PICK s : Descent(s, k, AtKey, pos)
  <2>1. AtKey \in BOOLEAN
    BY DEF AtKey
  <2> QED BY <1>1, <2>1, DescentExists
<1>3. x = Forward(s[1], 1)
  BY <1>1, <1>2, SearchSplits
<1>4. PICK p : p = pos[x]
  OBVIOUS
<1>5. PICK q : q = [y \in (DOMAIN node \ {x}) \cup {Nil} |-> IF pos[y] < p THEN pos[y] ELSE pos[y] - 1]
  OBVIOUS
<1>6. /\ MaxLevel \in Nat /\ level \in 1..MaxLevel /\ level \in Nat /\ length \in Nat
      /\ 1 \in 1..MaxLevel /\ x # Nil /\ x # Header /\ x \in DOMAIN node
      /\ Header \in DOMAIN node /\ Nil \notin DOMAIN node /\ 1..level \subseteq 1..MaxLevel
  BY SkiplistAssumption DEF TypeOK, Nodes
<1>7. Unlinked(s, x)
  BY <1>1, <1>2, <1>3, UnlinkFields
<1>8. /\ DOMAIN node' = DOMAIN node \ {x}
      /\ tail' = (IF Forward(x, 1) = Nil THEN node[x].backward ELSE tail) /\ length' = length - 1
      /\ level' \in 1..level
      /\ (level' > 1 => node'[Header].level[level'].forward # Nil)
      /\ \A i \in 2..level : node'[Header].level[i].forward # Nil => i <= level'
  BY <1>7 DEF Unlinked
<1>9. ASSUME NEW y \in DOMAIN node'
      PROVE  /\ node'[y].obj = node[y].obj /\ node'[y].vals = node[y].vals
             /\ DOMAIN node'[y].level = DOMAIN node[y].level
             /\ node'[y].backward = IF y = Forward(x, 1) THEN node[x].backward ELSE node[y].backward
  <2>1. node'[y] = RestNode(s, x, y)
    BY <1>7 DEF Unlinked
  <2> QED BY <2>1 DEF RestNode
<1>10. ASSUME NEW y \in DOMAIN node', NEW i \in DOMAIN node[y].level
       PROVE  /\ node'[y].level[i].forward =
                   IF y = s[i] /\ i <= level /\ x \in OnLevel(i) THEN Forward(x, i) ELSE Forward(y, i)
              /\ node'[y].level[i].span =
                   IF y = s[i] /\ i <= level
                   THEN IF x \in OnLevel(i) THEN node[y].level[i].span + node[x].level[i].span - 1
                        ELSE node[y].level[i].span - 1
                   ELSE node[y].level[i].span
  <2>1. node'[y] = RestNode(s, x, y)
    BY <1>7 DEF Unlinked
  <2>2. node'[y].level[i] = IF y = s[i] /\ i <= level
                            THEN IF x \in OnLevel(i)
                                 THEN [forward |-> Forward(x, i),
                                       span |-> node[y].level[i].span + node[x].level[i].span - 1]
                                 ELSE [forward |-> Forward(y, i), span |-> node[y].level[i].span - 1]
                            ELSE node[y].level[i]
    BY <2>1 DEF RestNode
  <2> QED BY <2>2 DEF Forward
<1>12. /\ pos[Nil] = length + 1 /\ pos[Header] = 0
       /\ \A y \in DOMAIN node : pos[y] \in 0..length
       /\ \A y \in DOMAIN node' : pos[y] # p
       /\ p \in 1..length /\ s[1] \in DOMAIN node /\ pos[s[1]] = p - 1 /\ p = pos[x]
  <2>1. \A y \in DOMAIN node : pos[y] \in 0..length
    BY <1>1, <1>6 DEF Placed, Nodes
  <2>2. s[1] \in DOMAIN node /\ pos[x] = pos[s[1]] + 1
    BY <1>1, <1>2, <1>3, <1>6, StopsBefore, StopsLead
  <2>3. \A y \in DOMAIN node' : pos[y] # p
    BY <1>1, <1>4, <1>6, <1>8, PlaceIsNode
  <2>4. pos[x] \in 1..length /\ pos[Nil] = length + 1 /\ pos[Header] = 0
    BY <1>1 DEF Placed
  <2> QED BY <1>4, <2>1, <2>2, <2>3, <2>4
<1>13. Forward(x, 1) \in Nodes \cup {Nil} /\ pos[Forward(x, 1)] = p + 1
  BY <1>1, <1>4, <1>6, NextOnOne
<1>14. /\ q \in [DOMAIN node' \cup {Nil} -> Nat]
       /\ \A y \in DOMAIN node' \cup {Nil} : q[y] = IF pos[y] < p THEN pos[y] ELSE pos[y] - 1
  <2>1. \A y \in DOMAIN node' \cup {Nil} : pos[y] \in Nat
    BY <1>6, <1>8, <1>12
  <2>2. \A y \in DOMAIN node' \cup {Nil} : (IF pos[y] < p THEN pos[y] ELSE pos[y] - 1) \in Nat
    BY <1>12, <2>1
  <2> QED BY <1>5, <1>8, <2>2
<1>15. \A i \in 1..MaxLevel : \A y : y \in OnLevel(i)' <=> y \in OnLevel(i) /\ y # x
  BY <1>6, <1>8, <1>9 DEF OnLevel
<1>16. \A i \in 1..MaxLevel : \A y \in OnLevel(i)' :
            Forward(y, i)' = IF y = s[i] /\ i <= level /\ x \in OnLevel(i) THEN Forward(x, i) ELSE Forward(y, i)
  BY <1>8, <1>9, <1>10 DEF Forward, OnLevel
<1>17. Nodes' = Nodes \ {x}
  BY <1>6, <1>8 DEF Nodes
<1>18. \A i \in DOMAIN node[x].level : i \in 1..level
  BY DEF Towers
<1>20. Placed(q)'
  <2>1. q[Header] = 0 /\ q[Nil] = length' + 1
    BY <1>6, <1>8, <1>12, <1>14
  <2>2. \A y \in Nodes' : q[y] \in 1..length'
    <3> SUFFICES ASSUME NEW y \in Nodes' PROVE q[y] \in 1..length'
      OBVIOUS
    <3>1. pos[y] \in 1..length /\ pos[y] # p /\ q[y] = IF pos[y] < p THEN pos[y] ELSE pos[y] - 1
      BY <1>1, <1>12, <1>14, <1>17 DEF Placed, Nodes
    <3> QED BY <1>6, <1>8, <1>12, <3>1
  <2>3. ASSUME NEW j \in 1..length' PROVE \E y \in Nodes' : q[y] = j
    <3>1. CASE j < p
      <4>1. j \in 1..length
        BY <1>6, <1>8, <1>12, <3>1
      <4>2. PICK y \in Nodes : pos[y] = j
        BY <1>1, <4>1 DEF Placed
      <4>3. y \in Nodes'
        BY <1>4, <1>12, <1>17, <3>1, <4>2
      <4> QED BY <1>14, <3>1, <4>2, <4>3 DEF Nodes
    <3>2. CASE ~(j < p)
      <4>1. j + 1 \in 1..length /\ ~(j + 1 < p) /\ j + 1 # p /\ j + 1 - 1 = j
        BY <1>6, <1>8, <1>12, <3>2
      <4>2. PICK y \in Nodes : pos[y] = j + 1
        BY <1>1, <4>1 DEF Placed
      <4>3. y \in Nodes'
        BY <1>4, <1>17, <4>1, <4>2
      <4> QED BY <1>14, <4>1, <4>2, <4>3 DEF Nodes
    <3> QED BY <3>1, <3>2
  <2>4. ASSUME NEW y \in Nodes', NEW z \in Nodes'
        PROVE  (q[y] = q[z] => pos[y] = pos[z]) /\ (q[y] < q[z] => pos[y] < pos[z])
    <3>1. /\ pos[y] \in 0..length /\ pos[y] # p /\ q[y] = IF pos[y] < p THEN pos[y] ELSE pos[y] - 1
          /\ pos[z] \in 0..length /\ pos[z] # p /\ q[z] = IF pos[z] < p THEN pos[z] ELSE pos[z] - 1
      BY <1>8, <1>12, <1>14 DEF Nodes
    <3> QED BY <1>12, <3>1
  <2>5. ASSUME NEW y \in Nodes', NEW z \in Nodes'
        PROVE  (q[y] = q[z] => y = z) /\ (q[y] < q[z] => Lt(node'[y].obj, node'[z].obj))
    <3>1. y \in Nodes /\ z \in Nodes /\ node'[y].obj = node[y].obj /\ node'[z].obj = node[z].obj
      BY <1>9, <1>17 DEF Nodes
    <3> QED BY <1>1, <2>4, <3>1 DEF Placed
  <2> QED BY <1>14, <2>1, <2>2, <2>3, <2>5 DEF Placed
<1>21. Linked(q)'
  <2> SUFFICES ASSUME NEW i \in 1..MaxLevel, NEW y \in OnLevel(i)'
               PROVE  LET f == Forward(y, i)'
                      IN  /\ f # Nil => f \in OnLevel(i)'
                          /\ q[y] < q[f]
                          /\ \A z \in OnLevel(i)' : q[y] < q[z] => q[f] <= q[z]
                          /\ i <= level' => node'[y].level[i].span
                                              = (IF f = Nil THEN length' ELSE q[f]) - q[y]
    BY DEF Linked
  <2> DEFINE f == Forward(y, i)'
             o == Forward(s[i], i)
             g == Forward(y, i)
             a == Forward(x, i)
  <2>0. y \in OnLevel(i) /\ y # x /\ y \in DOMAIN node' /\ i \in DOMAIN node[y].level
    BY <1>8, <1>9, <1>15 DEF OnLevel
  <2>1. /\ s[i] \in OnLevel(i) /\ s[i] \in DOMAIN node /\ pos[s[i]] < p
        /\ \A z \in OnLevel(i) : /\ pos[z] < p => pos[z] <= pos[s[i]]
                                 /\ pos[z] = pos[s[i]] => z = s[i]
        /\ (o = x <=> x \in OnLevel(i))
    <3>1. pos[x] = pos[s[1]] + 1 /\ (o = x <=> x \in OnLevel(i))
      BY <1>1, <1>2, <1>3, StopsLead
    <3> QED BY <1>1, <1>2, <1>4, <3>1, StopsBefore
  <2>2. ASSUME NEW z \in OnLevel(i)
        PROVE  /\ z \in DOMAIN node /\ i \in DOMAIN node[z].level /\ pos[z] \in 0..length
               /\ Forward(z, i) \in DOMAIN node \cup {Nil}
               /\ Forward(z, i) # Nil => Forward(z, i) \in OnLevel(i)
               /\ pos[Forward(z, i)] \in 0..(length + 1)
               /\ pos[z] < pos[Forward(z, i)]
               /\ \A w \in OnLevel(i) : pos[z] < pos[w] => pos[Forward(z, i)] <= pos[w]
               /\ i <= level => node[z].level[i].span = End(pos, Forward(z, i)) - pos[z]
    <3>1. z \in DOMAIN node /\ i \in DOMAIN node[z].level
      BY DEF OnLevel
    <3>2. Forward(z, i) \in DOMAIN node \cup {Nil}
      BY <3>1 DEF TypeOK
    <3>3. pos[z] \in 0..length /\ pos[Forward(z, i)] \in 0..(length + 1)
      BY <1>6, <1>12, <3>1, <3>2
    <3> QED BY <1>1, <3>1, <3>2, <3>3 DEF Linked, End
  <2>4. \A z \in OnLevel(i)' : /\ z \in OnLevel(i) /\ z # x /\ pos[z] \in 0..length /\ pos[z] # p
                               /\ q[z] = IF pos[z] < p THEN pos[z] ELSE pos[z] - 1
    BY <1>8, <1>12, <1>14, <1>15, <2>2
  <2>5. \A z \in OnLevel(i) : z # x => z \in OnLevel(i)'
    BY <1>15
  <2>6. /\ i \in Nat /\ level \in Nat /\ level' \in Nat /\ length' = length - 1 /\ (i <= level' => i <= level)
        /\ p \in Nat /\ length \in Nat
    BY <1>6, <1>8, <1>12
  <2>7. \A z \in DOMAIN node \cup {Nil} : z # x => q[z] = IF pos[z] < p THEN pos[z] ELSE pos[z] - 1
    BY <1>8, <1>14
  <2>8. pos[y] \in 0..length /\ pos[y] # p /\ pos[g] \in 0..(length + 1) /\ pos[y] < pos[g]
    BY <2>0, <2>2, <2>4
  <2>9. CASE y = s[i] /\ x \in OnLevel(i)
    <3>1. g = x /\ i <= level /\ f = a
      BY <1>6, <1>16, <1>18, <2>0, <2>1, <2>2, <2>6, <2>9
    <3>2. a # x /\ pos[a] \in 0..(length + 1) /\ p < pos[a] /\ a \in DOMAIN node \cup {Nil}
      BY <1>4, <1>12, <2>2, <2>9
    <3>3. q[f] = pos[a] - 1 /\ q[y] = pos[y] /\ pos[y] < p
      BY <2>0, <2>1, <2>4, <2>6, <2>7, <2>9, <3>1, <3>2
    <3>4. f # Nil => f \in OnLevel(i)'
      BY <2>2, <2>5, <2>9, <3>1, <3>2
    <3>5. q[y] < q[f]
      BY <2>6, <2>8, <3>2, <3>3
    <3>6. ASSUME NEW z \in OnLevel(i)', q[y] < q[z] PROVE q[f] <= q[z]
      <4>1. pos[y] < pos[z] /\ z \in OnLevel(i) /\ pos[z] \in 0..length /\ pos[z] # p
        BY <2>4, <2>6, <2>8, <3>3, <3>6
      <4>2. p <= pos[z]
        BY <1>4, <2>0, <2>2, <3>1, <4>1
      <4>3. pos[a] <= pos[z]
        BY <1>4, <2>2, <2>6, <2>9, <4>1, <4>2
      <4> QED BY <2>4, <2>6, <3>2, <3>3, <4>1, <4>2, <4>3
    <3>7. node'[y].level[i].span = node[y].level[i].span + node[x].level[i].span - 1
      BY <1>10, <2>0, <2>9, <3>1
    <3>8. node[y].level[i].span = p - pos[y] /\ node[x].level[i].span = End(pos, a) - p
      BY <1>4, <1>6, <2>0, <2>2, <2>9, <3>1 DEF End
    <3>9. node'[y].level[i].span = (IF f = Nil THEN length' ELSE q[f]) - q[y]
      BY <2>6, <2>8, <3>1, <3>2, <3>3, <3>7, <3>8 DEF End
    <3> QED BY <3>4, <3>5, <3>6, <3>9
  <2>10. CASE ~(y = s[i] /\ x \in OnLevel(i))
    <3>1. f = g
      BY <1>16, <2>0, <2>10
    <3>2. g # x
      <4>1. ASSUME g = x PROVE FALSE
        <5>1. x \in OnLevel(i) /\ pos[y] < p
          BY <1>4, <1>6, <2>0, <2>2, <4>1
        <5>2. y # s[i] /\ pos[y] <= pos[s[i]]
          BY <2>0, <2>1, <2>10, <5>1
        <5>3. pos[y] < pos[s[i]]
          BY <2>0, <2>1, <2>2, <2>8, <5>2
        <5>4. pos[g] <= pos[s[i]]
          BY <2>0, <2>1, <2>2, <5>3
        <5> QED BY <1>4, <2>1, <2>2, <2>6, <4>1, <5>4
      <4> QED BY <4>1
    <3>3. /\ pos[g] # p /\ q[f] = IF pos[g] < p THEN pos[g] ELSE pos[g] - 1
          /\ q[y] = IF pos[y] < p THEN pos[y] ELSE pos[y] - 1
      <4>1. g \in DOMAIN node \cup {Nil}
        BY <2>0, <2>2
      <4>2. pos[g] # p
        <5>1. pos[Nil] # p
          BY <1>6, <1>12
        <5> QED BY <1>8, <1>12, <3>2, <4>1, <5>1
      <4>3. q[g] = IF pos[g] < p THEN pos[g] ELSE pos[g] - 1
        BY <2>7, <3>2, <4>1
      <4>4. q[f] = q[g]
        BY <3>1
      <4>5. q[y] = IF pos[y] < p THEN pos[y] ELSE pos[y] - 1
        BY <2>4
      <4> HIDE DEF f, g
      <4> QED BY <4>2, <4>3, <4>4, <4>5
    <3>4. f # Nil => f \in OnLevel(i)'
      BY <2>0, <2>2, <2>5, <3>1, <3>2
    <3>5. q[y] < q[f]
      BY <2>6, <2>8, <3>3
    <3>6. ASSUME NEW z \in OnLevel(i)', q[y] < q[z] PROVE q[f] <= q[z]
      <4>1. z \in OnLevel(i) /\ pos[z] \in 0..length /\ pos[z] # p /\ q[z] = IF pos[z] < p THEN pos[z] ELSE pos[z] - 1
        BY <2>4
      <4>2. pos[y] < pos[z]
        BY <2>6, <2>8, <3>3, <3>6, <4>1
      <4>3. pos[g] <= pos[z]
        BY <2>0, <2>2, <4>1, <4>2
      <4> QED BY <2>6, <2>8, <3>3, <4>1, <4>3
    <3>7. ASSUME i <= level' PROVE node'[y].level[i].span = (IF f = Nil THEN length' ELSE q[f]) - q[y]
      <4>1. i <= level /\ node[y].level[i].span = End(pos, g) - pos[y]
        BY <2>0, <2>2, <2>6, <3>7
      <4>2. CASE y = s[i]
        <5>1. node'[y].level[i].span = node[y].level[i].span - 1
          BY <1>10, <2>0, <2>10, <4>1, <4>2
        <5>2. pos[y] < p /\ ~(pos[g] < p)
          <6>1. ASSUME pos[g] < p PROVE FALSE
            <7>1. g # Nil
              BY <1>12, <2>6, <6>1
            <7>2. pos[g] <= pos[s[i]]
              BY <2>0, <2>1, <2>2, <6>1, <7>1
            <7> QED BY <2>8, <4>2, <7>2
          <6> QED BY <2>1, <4>2, <6>1
        <5> QED BY <1>12, <2>6, <2>8, <3>1, <3>3, <4>1, <5>1, <5>2 DEF End
      <4>3. CASE y # s[i]
        <5>1. node'[y].level[i].span = node[y].level[i].span
          BY <1>10, <2>0, <4>3
        <5>2. (pos[y] < p /\ pos[g] < p) \/ (~(pos[y] < p) /\ ~(pos[g] < p))
          <6>1. CASE pos[y] < p
            <7>1. pos[y] <= pos[s[i]] /\ pos[y] # pos[s[i]] /\ pos[s[i]] \in 0..length
              BY <2>0, <2>1, <2>2, <4>3, <6>1
            <7>2. pos[y] < pos[s[i]]
              BY <2>8, <7>1
            <7>3. pos[g] <= pos[s[i]]
              BY <2>0, <2>1, <2>2, <7>2
            <7> QED BY <2>1, <2>6, <2>8, <6>1, <7>1, <7>3
          <6>2. CASE ~(pos[y] < p)
            BY <2>6, <2>8, <6>2
          <6> QED BY <6>1, <6>2
        <5>3. g = Nil => pos[g] = length + 1 /\ ~(pos[g] < p)
          BY <1>12, <2>6
        <5> QED BY <2>6, <2>8, <3>1, <3>3, <4>1, <5>1, <5>2, <5>3 DEF End
      <4> QED BY <4>2, <4>3
    <3> QED BY <3>4, <3>5, <3>6, <3>7
  <2> QED BY <2>9, <2>10
<1>22. Backed(q)'
  <2>1. node'[Header].backward = Nil
    BY <1>1, <1>6, <1>8, <1>9, <1>13 DEF Backed, Nodes
  <2>2. ASSUME NEW b, NEW j \in 0..(p - 1), AtBack(pos, b, j), b # x
        PROVE  IF b = Nil THEN j = 0 ELSE b \in Nodes' /\ q[b] = j
    <3>1. CASE b = Nil
      BY <2>2, <3>1 DEF AtBack
    <3>2. CASE b # Nil
      <4>1. b \in Nodes' /\ b \in DOMAIN node' /\ pos[b] = j
        BY <1>8, <1>17, <2>2, <3>2 DEF AtBack, Nodes
      <4>2. pos[b] < p
        BY <1>12, <2>2, <4>1
      <4> QED BY <1>14, <3>2, <4>1, <4>2
    <3> QED BY <3>1, <3>2
  <2>3. ASSUME NEW b, NEW j \in (p + 1)..length, AtBack(pos, b, j)
        PROVE  b # Nil /\ b \in Nodes' /\ q[b] = j - 1
    <3>1. b # Nil /\ b \in Nodes /\ pos[b] = j /\ b # x
      BY <1>12, <2>3 DEF AtBack
    <3>2. b \in Nodes' /\ b \in DOMAIN node'
      BY <1>8, <1>17, <3>1 DEF Nodes
    <3> QED BY <1>12, <1>14, <2>3, <3>1, <3>2
  <2>4. AtBack(pos, node[x].backward, p - 1) /\ node[x].backward # x
    <3>1. AtBack(pos, node[x].backward, p - 1)
      BY <1>1, <1>4 DEF Backed
    <3>2. p - 1 # p
      BY <1>12
    <3> QED BY <1>6, <1>12, <3>1, <3>2 DEF AtBack
  <2>5. ASSUME NEW y \in Nodes' PROVE AtBack(q, node[y].backward, q[y] - 1)'
    <3> DEFINE b == node[y].backward
    <3>1. /\ y \in DOMAIN node' /\ y \in Nodes /\ pos[y] \in 1..length /\ pos[y] # p
          /\ q[y] = IF pos[y] < p THEN pos[y] ELSE pos[y] - 1
      BY <1>1, <1>8, <1>12, <1>14, <1>17 DEF Placed, Nodes
    <3>2. AtBack(pos, b, pos[y] - 1)
      BY <1>1, <3>1 DEF Backed
    <3>3. node'[y].backward = IF y = Forward(x, 1) THEN node[x].backward ELSE b
      BY <1>9, <3>1
    <3> HIDE DEF b
    <3>4. CASE y = Forward(x, 1)
      <4>1. pos[y] = p + 1 /\ q[y] = p
        BY <1>12, <1>13, <3>1, <3>4
      <4>2. p - 1 \in 0..(p - 1)
        BY <1>12
      <4>3. IF node[x].backward = Nil THEN p - 1 = 0
            ELSE node[x].backward \in Nodes' /\ q[node[x].backward] = p - 1
        BY <2>2, <2>4, <4>2
      <4> QED BY <3>3, <3>4, <4>1, <4>3 DEF AtBack
    <3>5. CASE y # Forward(x, 1) /\ pos[y] < p
      <4>1. q[y] = pos[y] /\ pos[y] - 1 \in 0..(p - 1) /\ pos[y] - 1 # p
        BY <1>12, <3>1, <3>5
      <4>2. b # x
        BY <1>6, <1>12, <3>2, <4>1 DEF AtBack
      <4>3. IF b = Nil THEN pos[y] - 1 = 0 ELSE b \in Nodes' /\ q[b] = pos[y] - 1
        BY <2>2, <3>2, <4>1, <4>2
      <4> QED BY <3>3, <3>5, <4>1, <4>3 DEF AtBack
    <3>6. CASE y # Forward(x, 1) /\ ~(pos[y] < p)
      <4>1. pos[y] # p + 1
        <5>1. pos[y] = p + 1 => Forward(x, 1) # Nil
          BY <1>6, <1>12, <1>13, <3>1
        <5> QED BY <1>1, <1>13, <3>1, <3>6, <5>1 DEF Placed
      <4>2. pos[y] - 1 \in (p + 1)..length /\ q[y] = pos[y] - 1
        BY <1>6, <1>12, <3>1, <3>6, <4>1
      <4>3. b # Nil /\ b \in Nodes' /\ q[b] = pos[y] - 1 - 1
        BY <2>3, <3>2, <4>2
      <4> QED BY <3>3, <3>6, <4>2, <4>3 DEF AtBack
    <3> QED BY <3>4, <3>5, <3>6
  <2>6. AtBack(q, tail, length)'
    <3>1. AtBack(pos, tail, length)
      BY <1>1 DEF Backed
    <3>2. CASE Forward(x, 1) = Nil
      <4>1. p = length /\ p - 1 \in 0..(p - 1) /\ length' = p - 1
        BY <1>6, <1>8, <1>12, <1>13, <3>2
      <4>2. IF node[x].backward = Nil THEN p - 1 = 0
            ELSE node[x].backward \in Nodes' /\ q[node[x].backward] = p - 1
        BY <2>2, <2>4, <4>1
      <4> QED BY <1>8, <3>2, <4>1, <4>2 DEF AtBack
    <3>3. CASE Forward(x, 1) # Nil
      <4>1. p + 1 <= length
        BY <1>1, <1>13, <3>3 DEF Placed
      <4>2. length \in (p + 1)..length /\ length' = length - 1
        BY <1>6, <1>8, <1>12, <4>1
      <4>3. tail # Nil /\ tail \in Nodes' /\ q[tail] = length - 1
        BY <2>3, <3>1, <4>2
      <4> QED BY <1>8, <3>3, <4>2, <4>3 DEF AtBack
    <3> QED BY <3>2, <3>3
  <2> QED BY <2>1, <2>5, <2>6 DEF Backed
<1>23. Towers'
  <2>1. ASSUME NEW y \in Nodes', NEW i \in DOMAIN node'[y].level PROVE i \in 1..level'
    <3>1. i \in 1..level /\ i \in 1..MaxLevel
      BY <1>6, <1>8, <1>9, <1>17 DEF Towers, Nodes
    <3>2. CASE i = 1
      BY <1>8, <3>2
    <3>3. CASE i # 1
      <4>1. i \in 2..level
        BY <3>1, <3>3
      <4>2. y \in OnLevel(i)' /\ Header \in OnLevel(i)'
        BY <1>6, <1>8, <1>15, <2>1, <3>1, HeaderTower DEF OnLevel, Nodes
      <4>3. q[Header] = 0 /\ q[y] \in 1..length' /\ q[Nil] = length' + 1 /\ length' \in Nat
        BY <1>6, <1>8, <1>12, <1>20 DEF Placed
      <4>4. q[Header] < q[y]
        BY <4>3
      <4>5. q[Forward(Header, i)'] <= q[y]
        BY <1>21, <3>1, <4>2, <4>4 DEF Linked
      <4>6. Forward(Header, i)' # Nil
        BY <4>3, <4>5
      <4>7. node'[Header].level[i].forward # Nil
        BY <4>6 DEF Forward
      <4> QED BY <1>8, <3>1, <4>1, <4>7
    <3> QED BY <3>2, <3>3
  <2>2. ASSUME level' > 1 PROVE \E y \in Nodes' : y \in OnLevel(level)'
    <3> DEFINE f == Forward(Header, level)'
    <3>1. level' \in 1..MaxLevel
      BY <1>6, <1>8
    <3>2. Header \in OnLevel(level)'
      BY <1>6, <1>8, <1>9, <3>1 DEF OnLevel, TypeOK
    <3>3. f # Nil
      BY <1>8, <2>2 DEF Forward
    <3>4. f \in OnLevel(level)' /\ q[Header] < q[f]
      BY <1>21, <3>1, <3>2, <3>3 DEF Linked
    <3>5. q[Header] = 0
      BY <1>20 DEF Placed
    <3> HIDE DEF f
    <3>6. f # Header
      BY <3>4, <3>5
    <3> QED BY <3>4, <3>6 DEF OnLevel, Nodes
  <2> QED BY <2>1, <2>2 DEF Towers
<1>24. TypeOK'
  <2>1. ASSUME NEW y \in DOMAIN node', NEW i \in DOMAIN node'[y].level
        PROVE  Forward(y, i)' \in (NodeId \cup {Nil}) \cap (DOMAIN node' \cup {Nil})
    <3> DEFINE f == Forward(y, i)'
    <3>1. i \in 1..MaxLevel
      BY <1>6, <1>8, <1>9, NodeFields
    <3>2. y \in OnLevel(i)'
      BY <2>1 DEF OnLevel
    <3>3. (f # Nil => f \in OnLevel(i)') /\ q[y] < q[f]
      BY <1>21, <3>1, <3>2 DEF Linked
    <3>4. q[Header] = 0 /\ q[y] \in Nat
      BY <1>14, <1>20, <2>1 DEF Placed
    <3>5. f # Nil => f \in DOMAIN node' /\ f # Header
      BY <3>3, <3>4 DEF OnLevel
    <3> QED BY <1>8, <3>5 DEF TypeOK
  <2>2. ASSUME NEW y \in DOMAIN node', NEW g \in 1..MaxLevel, node[y] \in NodeRecord(g)
        PROVE  node'[y] \in NodeRecord(g)
    <3> DEFINE l == RestNode(s, x, y).level
    <3>1. node'[y] = RestNode(s, x, y)
      BY <1>7, <1>8 DEF Unlinked
    <3>2. DOMAIN node[y].level = 1..g /\ node[y].obj \in Tuple \cup {Nil} /\ node[y].vals \in Seq(Val)
          /\ node[y].backward \in NodeId \cup {Nil} /\ \A i \in 1..g : node[y].level[i] \in Link
      BY <2>2 DEF NodeRecord
    <3>3. ASSUME NEW i \in 1..g PROVE l[i] \in Link
      <4>1. i \in 1..MaxLevel /\ y \in OnLevel(i) /\ y \in DOMAIN node
        BY <1>8, <3>2, NodeFields DEF OnLevel
      <4>2. node[y].level[i].span \in Nat /\ Forward(y, i) \in NodeId \cup {Nil}
        BY <3>2 DEF Link, Forward
      <4>3. l[i] = IF y = s[i] /\ i <= level
                   THEN IF x \in OnLevel(i)
                        THEN [forward |-> Forward(x, i),
                              span |-> node[y].level[i].span + node[x].level[i].span - 1]
                        ELSE [forward |-> Forward(y, i), span |-> node[y].level[i].span - 1]
                   ELSE node[y].level[i]
        BY <3>2 DEF RestNode
      <4>4. x \in OnLevel(i) => node[x].level[i].span \in Nat
        BY <1>6, NodeFields DEF OnLevel
      <4>5. ASSUME y = s[i], i <= level PROVE node[y].level[i].span >= 1
        <5>1. node[y].level[i].span = End(pos, Forward(y, i)) - pos[y]
          BY <1>1, <4>1, <4>5 DEF Linked, End
        <5>2. pos[y] < pos[Forward(y, i)]
          BY <1>1, <4>1 DEF Linked
        <5>3. pos[y] < p /\ pos[y] \in Nat
          <6>1. pos[x] = pos[s[1]] + 1
            BY <1>1, <1>2, <1>3, StopsLead
          <6> QED BY <1>1, <1>2, <1>4, <1>12, <4>1, <4>5, <6>1, StopsBefore
        <5>4. pos[Forward(y, i)] \in Nat
          <6>1. Forward(y, i) \in DOMAIN node \cup {Nil}
            BY <4>1 DEF TypeOK, OnLevel
          <6> QED BY <1>1, <6>1 DEF Placed
        <5> QED BY <1>6, <1>12, <5>1, <5>2, <5>3, <5>4 DEF End
      <4>6. x \in OnLevel(i) => Forward(x, i) \in NodeId \cup {Nil}
        <5> SUFFICES ASSUME x \in OnLevel(i) PROVE Forward(x, i) \in NodeId \cup {Nil}
          OBVIOUS
        <5>1. i \in DOMAIN node[x].level
          BY DEF OnLevel
        <5>2. PICK h \in 1..MaxLevel : node[x] \in NodeRecord(h)
          BY <1>6 DEF TypeOK
        <5>3. node[x].level[i] \in Link
          BY <5>1, <5>2 DEF NodeRecord
        <5> QED BY <5>3 DEF Link, Forward
      <4>7. ASSUME NEW n \in Nat, NEW m \in Nat, n >= 1 PROVE n + m - 1 \in Nat /\ n - 1 \in Nat
        BY <4>7
      <4>8. CASE y = s[i] /\ i <= level
        BY <4>2, <4>3, <4>4, <4>5, <4>6, <4>7, <4>8 DEF Link
      <4>9. CASE ~(y = s[i] /\ i <= level)
        BY <3>2, <4>3, <4>9
      <4> QED BY <4>8, <4>9
    <3>4. l \in [1..g -> Link]
      <4>1. DOMAIN l = 1..g /\ l = [i \in 1..g |-> l[i]]
        BY <3>2 DEF RestNode
      <4> HIDE DEF l
      <4> QED BY <3>3, <4>1
    <3>5. node[x].backward \in NodeId \cup {Nil}
      <4>1. PICK h \in 1..MaxLevel : node[x] \in NodeRecord(h)
        BY <1>6 DEF TypeOK
      <4> QED BY <4>1 DEF NodeRecord
    <3> QED BY <3>1, <3>2, <3>4, <3>5 DEF RestNode, NodeRecord
  <2>3. \A y \in DOMAIN node' : \E g \in 1..MaxLevel : node'[y] \in NodeRecord(g)
    BY <1>8, <2>2 DEF TypeOK
  <2>4. ASSUME NEW y \in DOMAIN node'
        PROVE  /\ y # Header => node'[y].obj \in Tuple /\ node'[y].vals # <<>>
               /\ node'[y].backward \in DOMAIN node' \cup {Nil}
               /\ \A i \in DOMAIN node'[y].level : Forward(y, i)' \in DOMAIN node' \cup {Nil}
    <3>1. y # Header => node'[y].obj \in Tuple /\ node'[y].vals # <<>>
      BY <1>8, <1>9 DEF TypeOK
    <3>2. node'[y].backward \in DOMAIN node' \cup {Nil}
      <4>1. CASE y = Header
        BY <1>22, <4>1 DEF Backed
      <4>2. CASE y # Header
        <5>1. AtBack(q, node[y].backward, q[y] - 1)'
          BY <1>22, <4>2 DEF Backed, Nodes
        <5> QED BY <5>1 DEF AtBack, Nodes
      <4> QED BY <4>1, <4>2
    <3> QED BY <2>1, <3>1, <3>2
  <2>5. /\ Header \in DOMAIN node' /\ DOMAIN node' \subseteq NodeId \cup {Header}
        /\ DOMAIN node'[Header].level = 1..MaxLevel
        /\ length' \in Nat /\ level' \in 1..MaxLevel /\ ret' \in Tuple \cup {Nil}
    BY <1>6, <1>8, <1>9, <1>12 DEF TypeOK
  <2>6. tail' \in (DOMAIN node' \ {Header}) \cup {Nil}
    BY <1>22 DEF Backed, AtBack, Nodes
  <2> QED BY <2>3, <2>4, <2>5, <2>6 DEF TypeOK
<1>25. Shrunk(pos, q, x)
  <2>1. DOMAIN node' = Nodes' \cup {Header} /\ pos[x] = p
    BY <1>4, <1>6, <1>8, <1>17 DEF Nodes
  <2> QED BY <1>8, <1>9, <1>14, <1>17, <2>1 DEF Shrunk
<1>26. Laid(q)'
  BY <1>20, <1>21, <1>22 DEF Laid
<1> QED BY <1>23, <1>24, <1>25, <1>26
-----------------------------------------------------------------------------
LEMMA InitLaid == Init => SInv
<1> SUFFICES ASSUME Init PROVE SInv
  OBVIOUS
<1> DEFINE pos == [x \in {Header, Nil} |-> IF x = Header THEN 0 ELSE 1]
           top == [obj |-> Nil, vals |-> <<>>, backward |-> Nil,
                   level |-> [i \in 1..MaxLevel |-> [forward |-> Nil, span |-> 0]]]
<1>1. /\ DOMAIN node = {Header} /\ node[Header] = top
      /\ tail = Nil /\ length = 0 /\ level = 1 /\ ret = Nil
  BY DEF Init
<1>2. /\ node[Header].backward = Nil /\ DOMAIN node[Header].level = 1..MaxLevel
      /\ \A i \in 1..MaxLevel : node[Header].level[i].forward = Nil /\ node[Header].level[i].span = 0
  BY <1>1
<1>3. MaxLevel \in Nat /\ MaxLevel >= 1 /\ Header # Nil /\ 1 \in 1..MaxLevel /\ MaxLevel \in 1..MaxLevel
  BY SkiplistAssumption
<1>4. TypeOK
  <2>1. top \in NodeRecord(MaxLevel)
    BY DEF NodeRecord, Link
  <2> HIDE DEF top
  <2>2. \A x \in DOMAIN node : \E h \in 1..MaxLevel : node[x] \in NodeRecord(h)
    BY <1>1, <1>3, <2>1
  <2> QED BY <1>1, <1>2, <1>3, <2>2 DEF TypeOK, Forward
<1>5. Nodes = {} /\ \A i \in 1..MaxLevel : \A x : x \in OnLevel(i) <=> x = Header
  BY <1>1, <1>2 DEF Nodes, OnLevel
<1>6. Towers
  BY <1>1, <1>5 DEF Towers
<1>7. pos \in [DOMAIN node \cup {Nil} -> Nat] /\ pos[Header] = 0 /\ pos[Nil] = 1
  BY <1>1, <1>3
<1> HIDE DEF pos
<1>8. Placed(pos)
  BY <1>1, <1>5, <1>7 DEF Placed
<1>9. Linked(pos)
  <2> SUFFICES ASSUME NEW i \in 1..MaxLevel, NEW x \in OnLevel(i)
               PROVE  LET f == Forward(x, i)
                      IN  /\ f # Nil => f \in OnLevel(i)
                          /\ pos[x] < pos[f]
                          /\ \A y \in OnLevel(i) : pos[x] < pos[y] => pos[f] <= pos[y]
                          /\ i <= level => node[x].level[i].span = (IF f = Nil THEN length ELSE pos[f]) - pos[x]
    BY DEF Linked
  <2>1. x = Header /\ Forward(x, i) = Nil /\ node[x].level[i].span = 0
    BY <1>2, <1>5 DEF Forward
  <2>2. \A y \in OnLevel(i) : y = Header
    BY <1>5
  <2> QED BY <1>1, <1>7, <2>1, <2>2
<1>10. Backed(pos)
  BY <1>1, <1>2, <1>5 DEF Backed, AtBack
<1> QED BY <1>4, <1>6, <1>8, <1>9, <1>10 DEF SInv, Laid

(* What the search of a call finds.                                        *)
LEMMA SearchFinds ==
    ASSUME TypeOK, Towers, NEW pos, Laid(pos), NEW k \in Tuple, NEW x, x = FindAtLeast(k, AtKey)
    PROVE  /\ x \in Nodes \cup {Nil} /\ x = Forward(Path(k, AtKey)[1].at, 1)
           /\ \A z \in Nodes :
                /\ pos[z] < pos[x] => Lt(node[z].obj, k)
                /\ pos[z] >= pos[x] => node[z].obj = k \/ Lt(k, node[z].obj)
                /\ node[z].obj = k => z = x
<1>1. AtKey \in BOOLEAN
  BY DEF AtKey
<1>2. PICK s : Descent(s, k, AtKey, pos)
  BY <1>1, DescentExists DEF Laid
<1>3. PICK next : next = Forward(s[1], 1)
  OBVIOUS
<1>4. /\ next = FindAtLeast(k, AtKey) /\ next = Forward(Path(k, AtKey)[1].at, 1)
      /\ next \in Nodes \cup {Nil}
      /\ \A z \in Nodes :
           /\ pos[z] < pos[next] => Lt(node[z].obj, k)
           /\ pos[z] >= pos[next] => node[z].obj = k \/ Lt(k, node[z].obj)
           /\ node[z].obj = k => z = next
  BY <1>2, <1>3, SearchSplits DEF Laid
<1> QED BY <1>4

LEMMA DeleteKeeps ==
    ASSUME SInv, NEW k \in Tuple, NEW v, Delete(k, v)
    PROVE  SInv'
<1>1. PICK pos : TypeOK /\ Towers /\ Laid(pos)
  BY DEF SInv
<1> DEFINE rest == RemoveValue(node[FindAtLeast(k, AtKey)].vals, v)
<1>2. PICK x : x = FindAtLeast(k, AtKey)
  OBVIOUS
<1>3. x \in Nodes \cup {Nil} /\ x = Forward(Path(k, AtKey)[1].at, 1)
  BY <1>1, <1>2, SearchFinds
<1>4. \/ ret' = Nil /\ UNCHANGED <<node, tail, length, level>>
      \/ /\ Found(x, k) /\ RemoveValue(node[x].vals, v) # <<>>
         /\ node' = [node EXCEPT ![x].vals = RemoveValue(node[x].vals, v)]
         /\ ret' = k /\ UNCHANGED <<tail, length, level>>
      \/ Found(x, k) /\ Unlink(x, Path(k, AtKey)) /\ ret' = k
  BY <1>3, Zenon DEF Delete, AtKey
<1>5. CASE ret' = Nil /\ UNCHANGED <<node, tail, length, level>>
  <2>1. TypeOK'
    BY <1>1, <1>5 DEF TypeOK, NodeRecord, Forward
  <2>2. Towers' /\ Laid(pos)'
    BY <1>1, <1>5 DEF Towers, Laid, Placed, Linked, Backed, AtBack, OnLevel, Nodes, Forward
  <2> QED BY <2>1, <2>2 DEF SInv
<1>6. CASE /\ Found(x, k) /\ RemoveValue(node[x].vals, v) # <<>>
           /\ node' = [node EXCEPT ![x].vals = RemoveValue(node[x].vals, v)]
           /\ ret' = k /\ UNCHANGED <<tail, length, level>>
  <2>1. x \in Nodes /\ node[x].vals \in Seq(Val)
    BY <1>1, <1>3, <1>6, NodeFields DEF Found, Nodes
  <2>2. RemoveValue(node[x].vals, v) \in Seq(Val)
    BY <2>1, RemoveValueType
  <2> QED BY <1>1, <1>6, <2>1, <2>2, ValuesKeepLayout DEF SInv
<1>7. CASE Found(x, k) /\ Unlink(x, Path(k, AtKey)) /\ ret' = k
  <2>1. x \in Nodes
    BY <1>3, <1>7 DEF Found
  <2> QED BY <1>1, <1>2, <1>7, <2>1, UnlinkKeepsLayout DEF SInv
<1> QED BY <1>4, <1>5, <1>6, <1>7

LEMMA InsertKeeps ==
    ASSUME SInv, NEW k \in Tuple, NEW v \in Val, Insert(k, v)
    PROVE  SInv'
<1>1. PICK pos : TypeOK /\ Towers /\ Laid(pos)
  BY DEF SInv
<1>2. PICK x : x = FindAtLeast(k, AtKey)
  OBVIOUS
<1>3. x \in Nodes \cup {Nil}
  BY <1>1, <1>2, SearchFinds
<1>4. CASE InsertAppend(k, v)
  <2>1. /\ Found(x, k) /\ node' = [node EXCEPT ![x].vals = AppendValue(@, v)]
        /\ (ret' \in IF v \in ToSet(node[x].vals) THEN {Nil} ELSE {k, Nil})
        /\ UNCHANGED <<tail, length, level>>
    BY <1>2, <1>4, Zenon DEF InsertAppend, AtKey
  <2>2. ret' \in Tuple \cup {Nil}
    BY <2>1
  <2>3. x \in Nodes /\ node[x].vals \in Seq(Val) /\ node[x].vals # <<>>
    BY <1>1, <1>3, <2>1, NodeFields DEF Found, Nodes
  <2>4. AppendValue(node[x].vals, v) \in Seq(Val) /\ AppendValue(node[x].vals, v) # <<>>
    <3>1. Append(node[x].vals, v) \in Seq(Val) /\ Append(node[x].vals, v) # <<>>
      BY <2>3
    <3> QED BY <2>3, <3>1 DEF AppendValue
  <2>5. node' = [node EXCEPT ![x].vals = AppendValue(node[x].vals, v)]
    BY <2>1
  <2> QED BY <1>1, <2>1, <2>2, <2>3, <2>4, <2>5, ValuesKeepLayout DEF SInv
<1>5. ASSUME NEW h \in 1..MaxLevel, NEW y \in NodeId \ DOMAIN node, InsertNode(k, v, h, y)
      PROVE  SInv'
  BY <1>1, <1>5, InsertKeepsLayout DEF SInv
<1> QED BY <1>4, <1>5 DEF Insert

(* The whole state is an invariant of the skip list.                       *)
LEMMA StepKeeps == SInv /\ [Next]_vars => SInv'
<1> SUFFICES ASSUME SInv, [Next]_vars PROVE SInv'
  OBVIOUS
<1>1. PICK pos : TypeOK /\ Towers /\ Laid(pos)
  BY DEF SInv
<1>2. ASSUME UNCHANGED <<node, tail, length, level>>, ret' \in Tuple \cup {Nil} PROVE SInv'
  <2>1. TypeOK'
    BY <1>1, <1>2 DEF TypeOK, NodeRecord, Forward
  <2>2. Towers' /\ Laid(pos)'
    BY <1>1, <1>2 DEF Towers, Laid, Placed, Linked, Backed, AtBack, OnLevel, Nodes, Forward
  <2> QED BY <2>1, <2>2 DEF SInv
<1>3. ASSUME NEW x, PopEmpty(x) PROVE SInv'
  BY <1>2, <1>3 DEF PopEmpty
<1>4. ASSUME NEW k \in Tuple, NEW v \in Val, Insert(k, v) PROVE SInv'
  BY <1>4, InsertKeeps
<1>5. ASSUME NEW k \in Tuple, NEW v, Delete(k, v) PROVE SInv'
  BY <1>5, DeleteKeeps
<1>6. ASSUME NEW x \in Nodes PROVE node[x].obj \in Tuple
  BY <1>1, NodeFields DEF Nodes
<1>7. CASE PopHead
  <2>1. Forward(Header, 1) # Nil => Forward(Header, 1) \in Nodes
    <3>1. Header \in DOMAIN node
      BY <1>1 DEF TypeOK
    <3> QED BY <1>1, <3>1, NextOnOne DEF Laid
  <2> QED BY <1>3, <1>5, <1>6, <1>7, <2>1 DEF PopHead
<1>8. CASE PopTail
  <2>1. tail # Nil => tail \in Nodes
    BY <1>1 DEF TypeOK, Nodes
  <2> QED BY <1>3, <1>5, <1>6, <1>8, <2>1 DEF PopTail
<1>9. CASE UNCHANGED vars
  BY <1>1, <1>2, <1>9 DEF vars, TypeOK
<1> QED BY <1>4, <1>5, <1>7, <1>8, <1>9 DEF Next

(* No call leaves a pointer to a node that has been freed, a node without  *)
(* values, or a link, count or level out of its range.                     *)
THEOREM TypeCorrect == Spec => []TypeOK
<1>1. SInv => TypeOK
  BY DEF SInv
<1> QED BY <1>1, InitLaid, StepKeeps, PTL DEF Spec
-----------------------------------------------------------------------------
(* The node at place j, the header at 0.                                   *)
NodeAt(pos, j) == CHOOSE y \in DOMAIN node : pos[y] = j

LEMMA NodeAtIs ==
    ASSUME TypeOK, NEW pos, Laid(pos), NEW j \in 0..length
    PROVE  /\ NodeAt(pos, j) \in DOMAIN node /\ pos[NodeAt(pos, j)] = j
           /\ j # 0 => NodeAt(pos, j) \in Nodes
           /\ \A y \in DOMAIN node : pos[y] = j => y = NodeAt(pos, j)
<1>1. \E y \in DOMAIN node : pos[y] = j
  <2>1. CASE j = 0
    BY <2>1 DEF Laid, Placed, TypeOK
  <2>2. CASE j # 0
    <3>1. j \in 1..length
      BY <2>2 DEF TypeOK
    <3> QED BY <3>1 DEF Laid, Placed, Nodes
  <2> QED BY <2>1, <2>2
<1>2. NodeAt(pos, j) \in DOMAIN node /\ pos[NodeAt(pos, j)] = j
  BY <1>1 DEF NodeAt
<1>3. \A y \in DOMAIN node : pos[y] = j => y = NodeAt(pos, j)
  BY <1>2, PlaceIsNode DEF Laid
<1> QED BY <1>2, <1>3 DEF Laid, Placed, Nodes

(* Following the links of level 1 visits the nodes place by place.         *)
LEMMA ChainIs ==
    ASSUME TypeOK, NEW pos, Laid(pos)
    PROVE  Chain(1) = [j \in 1..length |-> NodeAt(pos, j)]
<1> DEFINE D == OnLevel(1) \cup {Nil}
           F(c) == [x \in D |-> IF x = Nil THEN <<>> ELSE <<x>> \o c[Forward(x, 1)]]
           rest(j) == [m \in 1..(length + 1 - j) |-> NodeAt(pos, j + m - 1)]
           g == [x \in D |-> rest(pos[x])]
           C == CHOOSE c : c = F(c)
<1>1. /\ Header \in DOMAIN node /\ OnLevel(1) = DOMAIN node /\ length \in Nat
      /\ Nil \notin DOMAIN node
  <2>1. Header \in DOMAIN node
    BY DEF TypeOK
  <2>2. OnLevel(1) = DOMAIN node
    BY <2>1, NextOnOne DEF Laid
  <2> QED BY <2>1, <2>2, SkiplistAssumption DEF TypeOK
<1>2. ASSUME NEW x \in DOMAIN node
      PROVE  /\ pos[x] \in 0..length /\ Forward(x, 1) \in D
             /\ pos[Forward(x, 1)] = pos[x] + 1
  <2>1. Forward(x, 1) \in Nodes \cup {Nil} /\ pos[Forward(x, 1)] = pos[x] + 1
    BY NextOnOne DEF Laid
  <2> QED BY <1>1, <2>1 DEF Laid, Placed, Nodes
<1>3. pos[Nil] = length + 1 /\ \A x \in D : pos[x] \in 0..(length + 1)
  BY <1>1, <1>2 DEF Laid, Placed
<1>4. \A j \in 0..length : NodeAt(pos, j) \in DOMAIN node
  BY NodeAtIs
<1>5. Chain(1) = C[Forward(Header, 1)]
  BY Zenon DEF Chain
<1>6. ASSUME NEW x \in D
      PROVE  rest(pos[x]) = IF x = Nil THEN <<>> ELSE <<x>> \o rest(pos[Forward(x, 1)])
  <2>1. CASE x = Nil
    <3>1. 1..(length + 1 - pos[x]) = {}
      BY <1>1, <1>3, <2>1
    <3>2. rest(pos[x]) = <<>>
      BY <3>1
    <3> QED BY <2>1, <3>2
  <2>2. CASE x # Nil
    <3> DEFINE j == pos[x]
               r == rest(j + 1)
               n == length - j
    <3>1. x \in DOMAIN node /\ j \in 0..length /\ pos[Forward(x, 1)] = j + 1 /\ x = NodeAt(pos, j)
      BY <1>1, <1>2, <2>2, NodeAtIs
    <3> HIDE DEF j
    <3>2. /\ n \in Nat /\ length + 1 - (j + 1) = n /\ length + 1 - j = n + 1
          /\ \A m \in 1..n : j + 1 + m - 1 = j + m /\ j + m \in 0..length
          /\ \A m \in 1..(n + 1) : m # 1 => m - 1 \in 1..n /\ j + (m - 1) = j + m - 1
          /\ j + 1 - 1 = j
      BY <1>1, <3>1
    <3>3. r = [m \in 1..n |-> NodeAt(pos, j + m)]
      BY <3>2
    <3>4. r \in Seq(DOMAIN node) /\ Len(r) = n /\ \A m \in 1..n : r[m] = NodeAt(pos, j + m)
      <4>1. \A m \in 1..n : NodeAt(pos, j + m) \in DOMAIN node
        BY <1>4, <3>2
      <4> HIDE DEF n, r, rest
      <4>2. r \in [1..n -> DOMAIN node] /\ \A m \in 1..n : r[m] = NodeAt(pos, j + m)
        BY <3>3, <4>1
      <4>3. n \in Nat
        BY <3>2
      <4> QED BY <4>2, <4>3
    <3>5. <<x>> \o r = rest(j)
      <4> DEFINE t == <<x>> \o r
      <4> HIDE DEF r, n
      <4>1. t \in Seq(DOMAIN node) /\ Len(t) = n + 1
        BY <3>1, <3>2, <3>4
      <4>2. \A m \in 1..(n + 1) : t[m] = NodeAt(pos, j + m - 1)
        <5> SUFFICES ASSUME NEW m \in 1..(n + 1) PROVE t[m] = NodeAt(pos, j + m - 1)
          OBVIOUS
        <5>1. t[m] = IF m = 1 THEN x ELSE r[m - 1]
          BY <3>1, <3>2, <3>4
        <5>2. CASE m = 1
          BY <3>1, <3>2, <5>1, <5>2
        <5>3. CASE m # 1
          <6>1. m - 1 \in 1..n /\ j + (m - 1) = j + m - 1
            BY <3>2, <5>3
          <6>2. r[m - 1] = NodeAt(pos, j + (m - 1))
            BY <3>4, <6>1
          <6> QED BY <5>1, <5>3, <6>1, <6>2
        <5> QED BY <5>2, <5>3
      <4>3. t = [m \in 1..(n + 1) |-> t[m]]
        <5> HIDE DEF t
        <5> QED BY <3>2, <4>1
      <4>4. [m \in 1..(n + 1) |-> t[m]] = [m \in 1..(n + 1) |-> NodeAt(pos, j + m - 1)]
        BY <4>2
      <4>5. rest(j) = [m \in 1..(n + 1) |-> NodeAt(pos, j + m - 1)]
        BY <3>2
      <4> QED BY <4>3, <4>4, <4>5
    <3> HIDE DEF rest
    <3> QED BY <2>2, <3>1, <3>5 DEF j
  <2> QED BY <2>1, <2>2
<1> HIDE DEF rest
<1>7. g = F(g)
  <2>1. \A x \in D : x # Nil => g[Forward(x, 1)] = rest(pos[Forward(x, 1)])
    BY <1>1, <1>2
  <2>2. \A x \in D : g[x] = IF x = Nil THEN <<>> ELSE <<x>> \o g[Forward(x, 1)]
    BY <1>6, <2>1
  <2> QED BY <2>2
<1>8. C = F(C)
  <2> HIDE DEF F, g
  <2> QED BY <1>7
<1>9. ASSUME NEW y \in D, C[y] # g[y] PROVE FALSE
  <2> DEFINE B == {pos[z] : z \in {u \in D : C[u] # g[u]}}
  <2> HIDE DEF C, g
  <2>1. B # {} /\ B \in SUBSET (0..(length + 1)) /\ length + 1 \in Nat
    BY <1>1, <1>3, <1>9
  <2>2. PICK m \in B : \A j \in B : j <= m
    <3> HIDE DEF B
    <3> QED BY <2>1, GreatestOf
  <2>3. PICK z \in D : C[z] # g[z] /\ pos[z] = m
    BY <2>2
  <2>4. z # Nil => C[Forward(z, 1)] = g[Forward(z, 1)]
    <3> SUFFICES ASSUME z # Nil, C[Forward(z, 1)] # g[Forward(z, 1)] PROVE FALSE
      OBVIOUS
    <3>1. Forward(z, 1) \in D /\ pos[Forward(z, 1)] = m + 1 /\ m \in Int
      BY <1>1, <1>2, <1>3, <2>3
    <3>2. pos[Forward(z, 1)] \in B
      BY <3>1
    <3>3. m + 1 <= m
      BY <2>2, <3>1, <3>2
    <3> QED BY <3>1, <3>3
  <2>5. /\ C[z] = IF z = Nil THEN <<>> ELSE <<z>> \o C[Forward(z, 1)]
        /\ g[z] = IF z = Nil THEN <<>> ELSE <<z>> \o g[Forward(z, 1)]
    BY <1>7, <1>8
  <2> QED BY <2>3, <2>4, <2>5
<1>10. /\ Forward(Header, 1) \in D /\ pos[Forward(Header, 1)] = 1
  BY <1>1, <1>2 DEF Laid, Placed
<1>11. C[Forward(Header, 1)] = rest(1)
  <2> HIDE DEF C
  <2> QED BY <1>9, <1>10
<1>12. rest(1) = [j \in 1..length |-> NodeAt(pos, j)]
  <2>1. length + 1 - 1 = length /\ \A m \in 1..length : 1 + m - 1 = m
    BY <1>1
  <2> QED BY <2>1 DEF rest
<1> HIDE DEF C
<1> QED BY <1>5, <1>11, <1>12

(* The places TLC reads off the chain are those of the proof.              *)
LEMMA PositionIs ==
    ASSUME TypeOK, NEW pos, Laid(pos)
    PROVE  /\ Position(Header) = 0 /\ Position(Nil) = length
           /\ \A x \in Nodes : Position(x) = pos[x]
<1>1. Header # Nil
  BY SkiplistAssumption
<1>2. ASSUME NEW x \in Nodes PROVE Position(x) = pos[x]
  <2>1. x # Header /\ x # Nil /\ x \in DOMAIN node
    BY NodeFields DEF Nodes
  <2>2. pos[x] \in 1..length /\ length \in Nat
    BY DEF Laid, Placed, TypeOK
  <2>3. DOMAIN Chain(1) = 1..length /\ \A j \in 1..length : Chain(1)[j] = NodeAt(pos, j)
    BY ChainIs
  <2>4. ASSUME NEW j \in 1..length PROVE Chain(1)[j] = x <=> j = pos[x]
    <3>1. j \in 0..length
      BY <2>2
    <3> QED BY <2>1, <2>3, <3>1, NodeAtIs
  <2>5. Position(x) = CHOOSE j \in DOMAIN Chain(1) : Chain(1)[j] = x
    BY <2>1 DEF Position
  <2> QED BY <2>2, <2>3, <2>4, <2>5
<1> QED BY <1>1, <1>2 DEF Position

(* The chain lists the nodes in the order of their places.                 *)
LEMMA ChainPlaces ==
    ASSUME TypeOK, NEW pos, Laid(pos)
    PROVE  /\ length \in Nat /\ Chain(1) \in Seq(Nodes) /\ Len(Chain(1)) = length
           /\ DOMAIN Chain(1) = 1..length
           /\ \A j \in 1..length : Chain(1)[j] \in Nodes /\ pos[Chain(1)[j]] = j
           /\ \A x \in Nodes : pos[x] \in 1..length /\ Chain(1)[pos[x]] = x
<1>1. length \in Nat
  BY DEF TypeOK
<1>2. Chain(1) = [j \in 1..length |-> NodeAt(pos, j)]
  BY ChainIs
<1>3. \A j \in 1..length : NodeAt(pos, j) \in Nodes /\ pos[NodeAt(pos, j)] = j
  BY <1>1, NodeAtIs
<1>4. Chain(1) \in [1..length -> Nodes]
  BY <1>2, <1>3
<1>5. Chain(1) \in Seq(Nodes) /\ Len(Chain(1)) = length
  BY <1>1, <1>4
<1>6. ASSUME NEW x \in Nodes PROVE pos[x] \in 1..length /\ Chain(1)[pos[x]] = x
  <2>1. pos[x] \in 1..length /\ pos[x] \in 0..length /\ x \in DOMAIN node
    BY <1>1 DEF Laid, Placed, Nodes
  <2>2. x = NodeAt(pos, pos[x])
    BY <2>1, NodeAtIs
  <2> QED BY <1>2, <2>1, <2>2
<1> QED BY <1>1, <1>2, <1>3, <1>4, <1>5, <1>6

LEMMA LaidNested ==
    ASSUME TypeOK, Towers, NEW pos, Laid(pos)
    PROVE  LevelsNested
<1>1. /\ length \in Nat /\ DOMAIN Chain(1) = 1..length
      /\ \A j \in 1..length : Chain(1)[j] \in Nodes /\ pos[Chain(1)[j]] = j
      /\ \A x \in Nodes : pos[x] \in 1..length /\ Chain(1)[pos[x]] = x
  BY ChainPlaces
<1>2. ToSet(Chain(1)) = DOMAIN node \ {Header}
  BY <1>1 DEF ToSet, Nodes
<1>3. \A i, j \in DOMAIN Chain(1) : i < j => Lt(node[Chain(1)[i]].obj, node[Chain(1)[j]].obj)
  BY <1>1 DEF Laid, Placed
<1>4. ASSUME NEW x \in DOMAIN node, NEW i \in DOMAIN node[x].level
      PROVE  LET f == Forward(x, i)
             IN  /\ f # Nil => f \in OnLevel(i) /\ Position(x) < Position(f)
                 /\ \A y \in OnLevel(i) :
                       Position(x) < Position(y) => f # Nil /\ Position(f) <= Position(y)
  <2> DEFINE f == Forward(x, i)
  <2>1. i \in 1..MaxLevel /\ x \in OnLevel(i)
    BY NodeFields DEF OnLevel
  <2>2. \A y \in DOMAIN node : Position(y) = pos[y] /\ pos[y] \in 0..length
    <3>1. pos[Header] = 0
      BY DEF Laid, Placed
    <3>2. Position(Header) = 0 /\ \A y \in Nodes : Position(y) = pos[y]
      BY PositionIs
    <3> QED BY <1>1, <3>1, <3>2 DEF Nodes
  <2>3. /\ f # Nil => f \in OnLevel(i)
        /\ pos[x] < pos[f]
        /\ \A y \in OnLevel(i) : pos[x] < pos[y] => pos[f] <= pos[y]
    BY <2>1 DEF Laid, Linked
  <2>4. pos[Nil] = length + 1 /\ \A y \in OnLevel(i) : y \in DOMAIN node
    BY DEF Laid, Placed, OnLevel
  <2> HIDE DEF f
  <2>5. f # Nil => f \in OnLevel(i) /\ Position(x) < Position(f)
    BY <2>2, <2>3, <2>4
  <2>6. ASSUME NEW y \in OnLevel(i), Position(x) < Position(y)
        PROVE  f # Nil /\ Position(f) <= Position(y)
    <3>1. pos[x] < pos[y] /\ pos[y] \in 0..length /\ Position(y) = pos[y]
      BY <2>2, <2>4, <2>6
    <3>2. pos[f] <= pos[y]
      BY <2>3, <3>1
    <3>3. f # Nil
      BY <1>1, <2>4, <3>1, <3>2
    <3> QED BY <2>2, <2>3, <2>4, <3>1, <3>2, <3>3
  <2> QED BY <2>5, <2>6 DEF f
<1>5. \A x \in DOMAIN node \ {Header} : DOMAIN node[x].level \subseteq 1..level
  BY DEF Towers, Nodes
<1>6. level > 1 => OnLevel(level) # {Header}
  BY DEF Towers, Nodes
<1> QED BY <1>2, <1>3, <1>4, <1>5, <1>6 DEF LevelsNested

LEMMA LaidSpans ==
    ASSUME TypeOK, NEW pos, Laid(pos)
    PROVE  SpansExact
<1> SUFFICES ASSUME NEW x \in DOMAIN node, NEW i \in DOMAIN node[x].level, i <= level
             PROVE  node[x].level[i].span = Position(Forward(x, i)) - Position(x)
  BY DEF SpansExact
<1> DEFINE f == Forward(x, i)
<1>1. i \in 1..MaxLevel /\ x \in OnLevel(i) /\ f \in (Nodes \cup {Header}) \cup {Nil}
  BY NodeFields DEF OnLevel
<1>2. node[x].level[i].span = (IF f = Nil THEN length ELSE pos[f]) - pos[x]
  BY <1>1 DEF Laid, Linked
<1>3. /\ Position(Nil) = length /\ Header # Nil
      /\ \A y \in Nodes \cup {Header} : Position(y) = pos[y] /\ y # Nil
  <2>1. pos[Header] = 0
    BY DEF Laid, Placed
  <2>2. /\ Position(Header) = 0 /\ Position(Nil) = length
        /\ \A y \in Nodes : Position(y) = pos[y]
    BY PositionIs
  <2>3. Header # Nil /\ \A y \in Nodes : y # Nil
    BY NodeFields, SkiplistAssumption DEF Nodes
  <2> QED BY <2>1, <2>2, <2>3
<1>4. x \in Nodes \cup {Header}
  BY DEF Nodes
<1> HIDE DEF f
<1>5. Position(f) = IF f = Nil THEN length ELSE pos[f]
  BY <1>1, <1>3
<1> QED BY <1>2, <1>3, <1>4, <1>5 DEF f

LEMMA LaidMirror ==
    ASSUME TypeOK, NEW pos, Laid(pos)
    PROVE  BackLinksMirror
<1> DEFINE c == Chain(1)
<1>1. /\ length \in Nat /\ c \in Seq(Nodes) /\ Len(c) = length /\ DOMAIN c = 1..length
      /\ \A j \in 1..length : c[j] \in Nodes /\ pos[c[j]] = j
      /\ \A x \in Nodes : pos[x] \in 1..length /\ c[pos[x]] = x
  BY ChainPlaces
<1> HIDE DEF c
<1>2. /\ \A x \in Nodes : AtBack(pos, node[x].backward, pos[x] - 1)
      /\ AtBack(pos, tail, length)
  BY DEF Laid, Backed
<1>3. ASSUME NEW b, NEW j \in 0..length, AtBack(pos, b, j)
      PROVE  b = IF j = 0 THEN Nil ELSE c[j]
  <2>1. b # Nil => j # 0 /\ b = c[j]
    BY <1>1, <1>3 DEF AtBack
  <2> QED BY <1>3, <2>1 DEF AtBack
<1>4. tail = IF c = <<>> THEN Nil ELSE Last(c)
  <2>1. tail = IF length = 0 THEN Nil ELSE c[length]
    BY <1>1, <1>2, <1>3
  <2> QED BY <1>1, <2>1 DEF Last
<1>5. ASSUME NEW j \in DOMAIN c PROVE node[c[j]].backward = IF j = 1 THEN Nil ELSE c[j - 1]
  <2>1. c[j] \in Nodes /\ pos[c[j]] - 1 = j - 1 /\ j - 1 \in 0..length /\ (j = 1 <=> j - 1 = 0)
    BY <1>1
  <2>2. AtBack(pos, node[c[j]].backward, j - 1)
    BY <1>2, <2>1
  <2> QED BY <1>3, <2>1, <2>2
<1> QED BY <1>1, <1>4, <1>5 DEF c, BackLinksMirror

LEMMA LaidFinds ==
    ASSUME TypeOK, Towers, NEW pos, Laid(pos)
    PROVE  FindExact
<1> SUFFICES ASSUME NEW k \in Tuple
             PROVE  IF \E x \in DOMAIN node \ {Header} : node[x].obj = k
                    THEN Find(k) # Nil /\ node[Find(k)].obj = k
                    ELSE Find(k) = Nil
  BY DEF FindExact
<1>1. PICK x : x = FindAtLeast(k, AtKey)
  OBVIOUS
<1>2. x \in Nodes \cup {Nil} /\ \A z \in Nodes : node[z].obj = k => z = x
  BY <1>1, SearchFinds
<1>3. x = FindAtLeast(k, FALSE)
  BY <1>1, Zenon DEF AtKey
<1>4. Find(k) = IF Found(x, k) THEN x ELSE Nil
  BY <1>3, Zenon DEF Find
<1>5. Nil \notin Nodes
  BY NodeFields DEF Nodes
<1> QED BY <1>2, <1>4, <1>5 DEF Found, Nodes
-----------------------------------------------------------------------------
(* After any calls, level 1 lists every node in ascending key order, every *)
(* link leads to the next node of its level and the height is that of the  *)
(* tallest tower, whatever heights the towers were drawn with.             *)
THEOREM LevelsStayNested == Spec => []LevelsNested
<1>1. SInv => LevelsNested
  BY LaidNested DEF SInv
<1> QED BY <1>1, InitLaid, StepKeeps, PTL DEF Spec

(* The span of every link in use is the number of nodes it crosses: the    *)
(* sums and differences of skiplistInsert and skiplistDeleteNode are exact *)
(* for towers of all heights.                                              *)
THEOREM SpansStayExact == Spec => []SpansExact
<1>1. SInv => SpansExact
  BY LaidSpans DEF SInv
<1> QED BY <1>1, InitLaid, StepKeeps, PTL DEF Spec

(* Back pointers, tail and length agree with the links of level 1.         *)
THEOREM BackLinksStayMirrored == Spec => []BackLinksMirror
<1>1. SInv => BackLinksMirror
  BY LaidMirror DEF SInv
<1> QED BY <1>1, InitLaid, StepKeeps, PTL DEF Spec

(* skiplistFind returns the node of a key exactly when there is one: the   *)
(* search through the upper levels never passes a node that is there.      *)
THEOREM SearchStaysExact == Spec => []FindExact
<1>1. SInv => FindExact
  BY LaidFinds DEF SInv
<1> QED BY <1>1, InitLaid, StepKeeps, PTL DEF Spec

-----------------------------------------------------------------------------
(* The skip list keeps its promise: every call does to the list its nodes  *)
(* stand for what OrderedList.tla says, whatever the towers.               *)
Cells == [obj : Tuple, vals : Seq(Val)]

Cell(x) == [obj |-> node[x].obj, vals |-> node[x].vals]

(* The list l reads the nodes at their places. *)
Reads(pos, l) ==
    /\ l \in Seq(Cells) /\ Len(l) = length /\ DOMAIN l = 1..length
    /\ \A x \in Nodes : pos[x] \in 1..length /\ l[pos[x]] = Cell(x)
    /\ \A j \in 1..length : \E x \in Nodes : pos[x] = j

LEMMA AsListReads == \A pos : TypeOK /\ Laid(pos) => Reads(pos, AsList)
<1> SUFFICES ASSUME TypeOK, NEW pos, Laid(pos) PROVE Reads(pos, AsList)
  OBVIOUS
<1> DEFINE c == Chain(1)
<1>1. /\ length \in Nat /\ DOMAIN c = 1..length
      /\ \A j \in 1..length : c[j] \in Nodes /\ pos[c[j]] = j
      /\ \A x \in Nodes : pos[x] \in 1..length /\ c[pos[x]] = x
  BY ChainPlaces
<1>2. AsList = [j \in 1..length |-> Cell(c[j])]
  BY <1>1 DEF AsList, Cell
<1> HIDE DEF c
<1>3. \A x \in Nodes : Cell(x) \in Cells
  BY NodeFields DEF Cell, Cells, Nodes
<1>4. AsList \in [1..length -> Cells]
  BY <1>1, <1>2, <1>3
<1>5. AsList \in Seq(Cells) /\ Len(AsList) = length
  BY <1>1, <1>4
<1> QED BY <1>1, <1>2, <1>4, <1>5 DEF Reads

LEMMA AsListReadsNext == \A pos : TypeOK' /\ Laid(pos)' => Reads(pos, AsList)'
<1>1. (\A pos : TypeOK /\ Laid(pos) => Reads(pos, AsList))'
  BY AsListReads, PTL
<1> QED BY <1>1

(* The operators of the promise are those of the list of nodes.            *)
LEMMA PromiseReads ==
    /\ Promise!Keys = [i \in DOMAIN AsList |-> AsList[i].obj]
    /\ \A keys, k : Promise!Landings(keys, k) = Landings(keys, k)
    /\ \A keys, p, k : Promise!Hit(keys, p, k) = Hit(keys, p, k)
    /\ \A l, keys, p, k, obj, v : Promise!ListInsert(l, keys, p, k, obj, v) = ListInsert(l, keys, p, k, obj, v)
    /\ \A l, keys, p, k, v : Promise!ListDelete(l, keys, p, k, v) = ListDelete(l, keys, p, k, v)
    /\ \A l, p : Promise!RemoveAt(l, p) = RemoveAt(l, p)
<1>1. Promise!Keys = [i \in DOMAIN AsList |-> AsList[i].obj]
  BY DEF Promise!Keys
<1>2. \A keys, k : Promise!Landings(keys, k) = Landings(keys, k)
  BY DEF Promise!Landings, Landings
<1>3. \A keys, p, k : Promise!Hit(keys, p, k) = Hit(keys, p, k)
  BY DEF Promise!Hit, Hit
<1>4. \A l, keys, p, k, obj, v : Promise!ListInsert(l, keys, p, k, obj, v) = ListInsert(l, keys, p, k, obj, v)
  BY DEF Promise!ListInsert, ListInsert, Promise!Hit, Hit, Promise!AppendValue, AppendValue, Promise!InsertAt, InsertAt, Promise!ToSet, ToSet
<1>5. \A l, keys, p, k, v : Promise!ListDelete(l, keys, p, k, v) = ListDelete(l, keys, p, k, v)
  BY DEF Promise!ListDelete, ListDelete, Promise!Hit, Hit, Promise!RemoveValue, RemoveValue, Promise!RemoveAt, RemoveAt, Promise!ToSet, ToSet
<1>6. \A l, p : Promise!RemoveAt(l, p) = RemoveAt(l, p)
  BY DEF Promise!RemoveAt, RemoveAt
<1> QED BY <1>1, <1>2, <1>3, <1>4, <1>5, <1>6
-----------------------------------------------------------------------------
(* The keys of the list are those of the nodes.                            *)
LEMMA KeysRead ==
    ASSUME TypeOK, NEW pos, Laid(pos)
    PROVE  /\ length \in Nat /\ Promise!Keys \in Seq(Tuple) /\ Len(Promise!Keys) = length
           /\ \A x \in Nodes : pos[x] \in 1..length /\ Promise!Keys[pos[x]] = node[x].obj
           /\ \A j \in 1..length : \E x \in Nodes : pos[x] = j
           /\ pos[Nil] = length + 1
<1> DEFINE keys == Promise!Keys
<1>1. length \in Nat
  BY DEF TypeOK
<1>2. Reads(pos, AsList)
  BY AsListReads
<1>3. keys = [i \in 1..length |-> AsList[i].obj]
  BY <1>2, PromiseReads DEF Reads
<1>4. /\ \A i \in 1..length : AsList[i] \in Cells
      /\ \A x \in Nodes : pos[x] \in 1..length /\ AsList[pos[x]] = Cell(x)
      /\ \A j \in 1..length : \E x \in Nodes : pos[x] = j
  BY <1>2 DEF Reads
<1> HIDE DEF keys
<1>5. keys \in [1..length -> Tuple]
  BY <1>3, <1>4 DEF Cells
<1>6. keys \in Seq(Tuple) /\ Len(keys) = length
  BY <1>1, <1>5
<1>7. \A x \in Nodes : pos[x] \in 1..length /\ keys[pos[x]] = node[x].obj
  <2> SUFFICES ASSUME NEW x \in Nodes PROVE pos[x] \in 1..length /\ keys[pos[x]] = node[x].obj
    OBVIOUS
  <2>1. pos[x] \in 1..length /\ AsList[pos[x]] = Cell(x) /\ keys[pos[x]] = AsList[pos[x]].obj
    BY <1>3, <1>4
  <2> QED BY <2>1 DEF Cell
<1>8. pos[Nil] = length + 1
  BY DEF Laid, Placed
<1> QED BY <1>1, <1>4, <1>6, <1>7, <1>8 DEF keys

(* The search lands where the promise says it may.                         *)
LEMMA SearchLands ==
    ASSUME TypeOK, Towers, NEW pos, Laid(pos), NEW k \in Tuple, NEW x, x = FindAtLeast(k, AtKey)
    PROVE  /\ pos[x] \in Landings(Promise!Keys, k) /\ pos[x] \in 1..(length + 1)
           /\ Found(x, k) => x \in Nodes /\ pos[x] \in 1..length
           /\ Hit(Promise!Keys, pos[x], k) <=> Found(x, k)
           /\ k \in ToSet(Promise!Keys) => Found(x, k)
<1> DEFINE keys == Promise!Keys
<1>1. /\ length \in Nat /\ keys \in Seq(Tuple) /\ Len(keys) = length
      /\ \A z \in Nodes : pos[z] \in 1..length /\ keys[pos[z]] = node[z].obj
      /\ \A j \in 1..length : \E z \in Nodes : pos[z] = j
      /\ pos[Nil] = length + 1
  BY KeysRead
<1> HIDE DEF keys
<1>2. /\ x \in Nodes \cup {Nil}
      /\ \A z \in Nodes :
           /\ pos[z] < pos[x] => Lt(node[z].obj, k)
           /\ pos[z] >= pos[x] => node[z].obj = k \/ Lt(k, node[z].obj)
           /\ node[z].obj = k => z = x
  BY SearchFinds
<1>3. Nil \notin Nodes /\ \A z \in Nodes : node[z].obj \in Tuple
  BY NodeFields DEF Nodes
<1>4. pos[x] \in 1..(length + 1) /\ (x \in Nodes <=> pos[x] <= Len(keys))
  BY <1>1, <1>2, <1>3
<1>5. \A j \in 1..length : /\ j < pos[x] => Lt(keys[j], k)
                           /\ j >= pos[x] => ~Lt(keys[j], k)
  <2> SUFFICES ASSUME NEW j \in 1..length
               PROVE  /\ j < pos[x] => Lt(keys[j], k)
                      /\ j >= pos[x] => ~Lt(keys[j], k)
    OBVIOUS
  <2>1. PICK z \in Nodes : pos[z] = j
    BY <1>1
  <2>2. keys[j] = node[z].obj /\ node[z].obj \in Tuple
    BY <1>1, <1>3, <2>1
  <2>3. j < pos[x] => Lt(keys[j], k)
    BY <1>2, <2>1, <2>2
  <2>4. j >= pos[x] => keys[j] = k \/ Lt(k, keys[j])
    BY <1>2, <2>1, <2>2
  <2> QED BY <2>2, <2>3, <2>4, LtAssumption
<1>6. pos[x] \in Landings(keys, k)
  BY <1>1, <1>4, <1>5 DEF Landings
<1>7. Found(x, k) <=> x \in Nodes /\ node[x].obj = k
  BY <1>2, <1>3 DEF Found
<1>8. Hit(keys, pos[x], k) <=> Found(x, k)
  BY <1>1, <1>4, <1>7 DEF Hit
<1>9. k \in ToSet(keys) => Found(x, k)
  <2> SUFFICES ASSUME k \in ToSet(keys) PROVE Found(x, k)
    OBVIOUS
  <2>1. PICK j \in 1..length : keys[j] = k
    BY <1>1 DEF ToSet
  <2>2. PICK z \in Nodes : pos[z] = j
    BY <1>1
  <2> QED BY <1>1, <1>2, <1>7, <2>1, <2>2
<1> QED BY <1>1, <1>4, <1>6, <1>7, <1>8, <1>9 DEF keys
-----------------------------------------------------------------------------
(* Two lists that read the same cells at the same places are one.          *)
LEMMA SameList ==
    ASSUME NEW n \in Nat, NEW l \in Seq(Cells), NEW m \in Seq(Cells), Len(l) = n, Len(m) = n,
           \A j \in 1..n : l[j] = m[j]
    PROVE  l = m
OBVIOUS

(* The step only gives the node x the values vals. *)
Revalued(x, vals) ==
    /\ node' = [node EXCEPT ![x].vals = vals] /\ ret' \in Tuple \cup {Nil}
    /\ UNCHANGED <<tail, length, level>>

(* It changes them in the list. *)
LEMMA ValuesRead ==
    ASSUME TypeOK, Towers, NEW pos, Laid(pos), NEW x \in Nodes, NEW vals \in Seq(Val),
           vals # <<>>, Revalued(x, vals)
    PROVE  /\ pos[x] \in DOMAIN AsList /\ AsList[pos[x]].vals = node[x].vals
           /\ AsList' = [AsList EXCEPT ![pos[x]].vals = vals]
<1>1. Reads(pos, AsList)
  BY AsListReads
<1>0. /\ node' = [node EXCEPT ![x].vals = vals] /\ ret' \in Tuple \cup {Nil}
      /\ UNCHANGED <<tail, length, level>>
  BY DEF Revalued
<1>2. Reads(pos, AsList)'
  BY <1>0, ValuesKeepLayout, AsListReadsNext
<1>3. Nodes' = Nodes /\ length' = length /\ length \in Nat
  BY <1>0 DEF Nodes, TypeOK
<1>4. \A y \in Nodes : Cell(y)' = IF y = x THEN [Cell(y) EXCEPT !.vals = vals] ELSE Cell(y)
  <2>1. ASSUME NEW y \in Nodes, y # x PROVE Cell(y)' = Cell(y)
    BY <1>0, <2>1 DEF Cell
  <2>2. node'[x] = [node[x] EXCEPT !.vals = vals]
    BY <1>0 DEF Nodes
  <2>3. node[x] = [obj |-> node[x].obj, vals |-> node[x].vals,
                   backward |-> node[x].backward, level |-> node[x].level]
    BY NodeFields DEF Nodes
  <2>4. node'[x].obj = node[x].obj /\ node'[x].vals = vals
    BY <2>2, <2>3
  <2> QED BY <2>1, <2>4 DEF Cell
<1>5. /\ AsList \in Seq(Cells) /\ Len(AsList) = length /\ DOMAIN AsList = 1..length
      /\ \A y \in Nodes : pos[y] \in 1..length /\ AsList[pos[y]] = Cell(y)
      /\ \A j \in 1..length : \E y \in Nodes : pos[y] = j
  BY <1>1 DEF Reads
<1>6. /\ AsList' \in Seq(Cells) /\ Len(AsList') = length /\ DOMAIN AsList' = 1..length
      /\ \A y \in Nodes : AsList'[pos[y]] = Cell(y)'
  BY <1>2, <1>3 DEF Reads
<1>7. PICK a, b : a = AsList /\ b = AsList'
  OBVIOUS
<1>8. ASSUME NEW j \in 1..length
      PROVE  b[j] = IF j = pos[x] THEN [a[j] EXCEPT !.vals = vals] ELSE a[j]
  <2>1. PICK y \in Nodes : pos[y] = j
    BY <1>5
  <2>2. pos[x] = pos[y] => x = y
    BY DEF Laid, Placed
  <2>3. a[j] = Cell(y) /\ b[j] = Cell(y)'
    BY <1>5, <1>6, <1>7, <2>1
  <2> QED BY <1>4, <2>1, <2>2, <2>3
<1>9. b = [j \in 1..length |-> b[j]] /\ a = [j \in 1..length |-> a[j]] /\ DOMAIN a = 1..length
  BY <1>5, <1>6, <1>7
<1>10. b = [a EXCEPT ![pos[x]].vals = vals]
  BY <1>5, <1>8, <1>9
<1>11. AsList' = [AsList EXCEPT ![pos[x]].vals = vals]
  BY <1>7, <1>10
<1>12. pos[x] \in DOMAIN AsList /\ AsList[pos[x]] = Cell(x)
  BY <1>5
<1> QED BY <1>11, <1>12 DEF Cell

(* A new node is inserted into the list.                                   *)
LEMMA GrownRead ==
    ASSUME TypeOK, NEW pos, Laid(pos), NEW q, TypeOK', Laid(q)', NEW k \in Tuple, NEW v \in Val,
           NEW x, NEW next, pos[next] \in 1..(length + 1), Grown(pos, q, k, v, x, next)
    PROVE  AsList' = InsertAt(AsList, pos[next], [obj |-> k, vals |-> <<v>>])
<1>0. PICK p, e : p = pos[next] /\ e = [obj |-> k, vals |-> <<v>>]
  OBVIOUS
<1>1. /\ length \in Nat /\ AsList \in Seq(Cells) /\ Len(AsList) = length
      /\ \A y \in Nodes : pos[y] \in 1..length /\ AsList[pos[y]] = Cell(y)
  BY AsListReads DEF Reads, TypeOK
<1>2. /\ length' = length + 1 /\ Nodes' = Nodes \cup {x} /\ q[x] = p /\ Cell(x)' = e
      /\ \A y \in Nodes : q[y] = IF pos[y] < p THEN pos[y] ELSE pos[y] + 1
      /\ \A y \in Nodes : Cell(y)' = Cell(y)
  BY <1>0 DEF Grown, Cell
<1>3. Reads(q, AsList)'
  BY AsListReadsNext
<1>4. /\ AsList' \in Seq(Cells) /\ Len(AsList') = length + 1
      /\ \A y \in Nodes \cup {x} : AsList'[q[y]] = Cell(y)'
      /\ \A j \in 1..(length + 1) : \E y \in Nodes \cup {x} : q[y] = j
  BY <1>2, <1>3 DEF Reads
<1>5. e \in Cells
  BY <1>0 DEF Cells
<1>6. PICK a, b, c : a = AsList /\ b = AsList' /\ c = InsertAt(AsList, p, e)
  OBVIOUS
<1>7. /\ c \in Seq(Cells) /\ Len(c) = length + 1
      /\ \A j \in 1..(length + 1) : c[j] = IF j < p THEN a[j] ELSE IF j = p THEN e ELSE a[j - 1]
  <2>1. p \in 1..(Len(a) + 1) /\ a \in Seq(Cells)
    BY <1>0, <1>1, <1>6
  <2>2. /\ c \in Seq(Cells) /\ DOMAIN c = 1..(length + 1)
        /\ \A j \in 1..(length + 1) : c[j] = IF j < p THEN a[j] ELSE IF j = p THEN e ELSE a[j - 1]
    <3>a. InsertAt(a, p, e) \in Seq(Cells)
      BY <1>5, <2>1, InsertAtShifts
    <3>1. /\ DOMAIN InsertAt(a, p, e) = 1..(Len(a) + 1)
          /\ \A i \in 1..(Len(a) + 1) :
                InsertAt(a, p, e)[i] = IF i < p THEN a[i] ELSE IF i = p THEN e ELSE a[i - 1]
      BY <1>5, <2>1, InsertAtShifts
    <3> QED BY <1>1, <1>6, <2>1, <3>a, <3>1
  <2> QED BY <1>1, <2>2
<1>8. ASSUME NEW j \in 1..(length + 1) PROVE b[j] = c[j]
  <2>1. PICK y \in Nodes \cup {x} : q[y] = j
    BY <1>4
  <2>2. b[j] = Cell(y)'
    BY <1>4, <1>6, <2>1
  <2>3. p \in 1..(length + 1)
    BY <1>0
  <2>4. CASE y = x
    BY <1>2, <1>7, <2>1, <2>2, <2>3, <2>4
  <2>5. CASE y \in Nodes
    <3>1. /\ Cell(y)' = a[pos[y]] /\ pos[y] \in 1..length
          /\ j = IF pos[y] < p THEN pos[y] ELSE pos[y] + 1
      BY <1>1, <1>2, <1>6, <2>1, <2>5
    <3>2. CASE pos[y] < p
      BY <1>7, <2>2, <2>3, <3>1, <3>2
    <3>3. CASE ~(pos[y] < p)
      <4>1. j = pos[y] + 1 /\ j > p /\ j - 1 = pos[y]
        BY <2>3, <3>1, <3>3
      <4> QED BY <1>7, <2>2, <2>3, <3>1, <4>1
    <3> QED BY <3>2, <3>3
  <2> QED BY <2>4, <2>5
<1>9. b \in Seq(Cells) /\ Len(b) = length + 1 /\ length + 1 \in Nat
  BY <1>1, <1>4, <1>6
<1> QED BY <1>0, <1>6, <1>7, <1>8, <1>9, SameList

(* A node that is unlinked is removed from the list.                       *)
LEMMA ShrunkRead ==
    ASSUME TypeOK, NEW pos, Laid(pos), NEW q, TypeOK', Laid(q)', NEW x \in Nodes,
           Shrunk(pos, q, x)
    PROVE  pos[x] \in DOMAIN AsList /\ AsList' = RemoveAt(AsList, pos[x])
<1> DEFINE p == pos[x]
<1>1. /\ length \in Nat /\ AsList \in Seq(Cells) /\ Len(AsList) = length
      /\ \A y \in Nodes : pos[y] \in 1..length /\ AsList[pos[y]] = Cell(y)
  BY AsListReads DEF Reads, TypeOK
<1>2. /\ length' = length - 1 /\ Nodes' = Nodes \ {x}
      /\ \A y \in Nodes \ {x} : q[y] = IF pos[y] < p THEN pos[y] ELSE pos[y] - 1
      /\ \A y \in Nodes \ {x} : Cell(y)' = Cell(y)
  BY DEF Shrunk, Cell
<1>3. Reads(q, AsList)'
  BY AsListReadsNext
<1>4. /\ AsList' \in Seq(Cells) /\ Len(AsList') = length - 1
      /\ \A y \in Nodes \ {x} : AsList'[q[y]] = Cell(y)'
      /\ \A j \in 1..(length - 1) : \E y \in Nodes \ {x} : q[y] = j
  BY <1>2, <1>3 DEF Reads
<1>5. \A y \in Nodes \ {x} : pos[y] # p
  BY DEF Laid, Placed
<1>6. PICK a, b, c : a = AsList /\ b = AsList' /\ c = RemoveAt(AsList, p)
  OBVIOUS
<1>p. p \in 1..length
  BY <1>1
<1> HIDE DEF p
<1>7. /\ c \in Seq(Cells) /\ Len(c) = length - 1
      /\ \A j \in 1..(length - 1) : c[j] = IF j < p THEN a[j] ELSE a[j + 1]
  <2>1. p \in 1..Len(a) /\ a \in Seq(Cells) /\ c = RemoveAt(a, p)
    BY <1>1, <1>6, <1>p
  <2>2. /\ RemoveAt(a, p) \in Seq(Cells)
        /\ DOMAIN RemoveAt(a, p) = 1..(Len(a) - 1)
        /\ \A i \in 1..(Len(a) - 1) : RemoveAt(a, p)[i] = IF i < p THEN a[i] ELSE a[i + 1]
    BY <2>1, RemoveAtShifts
  <2> QED BY <1>1, <1>6, <1>p, <2>1, <2>2
<1>8. ASSUME NEW j \in 1..(length - 1) PROVE b[j] = c[j]
  <2>1. PICK y \in Nodes \ {x} : q[y] = j
    BY <1>4
  <2>2. b[j] = Cell(y)'
    BY <1>4, <1>6, <2>1
  <2>3. /\ Cell(y)' = a[pos[y]] /\ pos[y] \in 1..length /\ pos[y] # p
        /\ j = IF pos[y] < p THEN pos[y] ELSE pos[y] - 1
    BY <1>1, <1>2, <1>5, <1>6, <2>1
  <2>4. CASE pos[y] < p
    BY <1>7, <1>p, <2>2, <2>3, <2>4
  <2>5. CASE ~(pos[y] < p)
    <3>1. j = pos[y] - 1 /\ ~(j < p) /\ j + 1 = pos[y]
      BY <1>p, <2>3, <2>5
    <3> QED BY <1>7, <2>2, <2>3, <3>1
  <2> QED BY <2>4, <2>5
<1>9. b \in Seq(Cells) /\ Len(b) = length - 1 /\ length - 1 \in Nat
  BY <1>1, <1>4, <1>6, <1>p
<1>10. b = c
  BY <1>7, <1>8, <1>9, SameList
<1> QED BY <1>1, <1>6, <1>10, <1>p DEF p
-----------------------------------------------------------------------------
PromiseStep == [Promise!Next]_<<AsList, ret>>

(* What skiplistDelete does once its search has stopped.                   *)
LEMMA DeleteCases ==
    ASSUME TypeOK, Towers, NEW pos, Laid(pos), NEW k \in Tuple, NEW v, Delete(k, v),
           NEW x, x = FindAtLeast(k, AtKey)
    PROVE  \/ ~Found(x, k) /\ ret' = Nil /\ UNCHANGED <<node, tail, length, level>>
           \/ /\ Found(x, k) /\ v # Nil /\ RemoveValue(node[x].vals, v) # <<>>
              /\ node' = [node EXCEPT ![x].vals = RemoveValue(node[x].vals, v)]
              /\ ret' = k /\ UNCHANGED <<tail, length, level>>
           \/ /\ Found(x, k) /\ (v = Nil \/ RemoveValue(node[x].vals, v) = <<>>)
              /\ Unlink(x, Path(k, AtKey)) /\ ret' = k
<1>1. x = Forward(Path(k, AtKey)[1].at, 1)
  BY SearchFinds
<1> QED BY <1>1, Zenon DEF Delete, AtKey

(* A call that changes no node leaves the list as it is.                   *)
LEMMA SameRead ==
    ASSUME TypeOK, NEW pos, Laid(pos), UNCHANGED <<node, tail, length, level>>
    PROVE  AsList' = AsList
<1>1. Chain(1)' = Chain(1)
  BY DEF Chain, OnLevel, Forward
<1> QED BY <1>1 DEF AsList

(* A node that is deleted leaves the list, with its key returned.          *)
LEMMA UnlinkRead ==
    ASSUME TypeOK, Towers, NEW pos, Laid(pos), NEW k \in Tuple, NEW x, x = FindAtLeast(k, AtKey),
           Found(x, k), Unlink(x, Path(k, AtKey)), ret' = k
    PROVE  /\ pos[x] \in DOMAIN AsList /\ AsList[pos[x]].obj = k
           /\ AsList' = RemoveAt(AsList, pos[x])
<1>1. x \in Nodes
  BY SearchFinds DEF Found
<1>2. ret' \in Tuple \cup {Nil}
  OBVIOUS
<1>3. TypeOK' /\ \E q : Laid(q)' /\ Shrunk(pos, q, x)
  BY <1>1, <1>2, UnlinkKeepsLayout
<1>4. PICK q : Laid(q)' /\ Shrunk(pos, q, x)
  BY <1>3
<1>5. pos[x] \in DOMAIN AsList /\ AsList' = RemoveAt(AsList, pos[x])
  BY <1>1, <1>3, <1>4, ShrunkRead
<1>6. AsList[pos[x]] = Cell(x)
  BY <1>1, AsListReads DEF Reads
<1> QED BY <1>5, <1>6 DEF Cell, Found

LEMMA DeleteKeepsPromise ==
    ASSUME SInv, NEW k \in Tuple, NEW v \in Val, Delete(k, v)
    PROVE  Promise!DeleteValue(k, v)
<1>1. PICK pos : TypeOK /\ Towers /\ Laid(pos)
  BY DEF SInv
<1>2. PICK x : x = FindAtLeast(k, AtKey)
  OBVIOUS
<1>3. PICK p : p = pos[x]
  OBVIOUS
<1>4. /\ p \in Landings(Promise!Keys, k)
      /\ Found(x, k) => x \in Nodes
      /\ Hit(Promise!Keys, p, k) <=> Found(x, k)
  BY <1>1, <1>2, <1>3, SearchLands
<1>5. /\ AsList' = ListDelete(AsList, Promise!Keys, p, k, v)
      /\ ret' = IF Hit(Promise!Keys, p, k) THEN k ELSE Nil
  <2>1. CASE ~Found(x, k) /\ ret' = Nil /\ UNCHANGED <<node, tail, length, level>>
    BY <1>1, <1>4, <2>1, SameRead DEF ListDelete
  <2>2. CASE /\ Found(x, k) /\ v # Nil /\ RemoveValue(node[x].vals, v) # <<>>
             /\ node' = [node EXCEPT ![x].vals = RemoveValue(node[x].vals, v)]
             /\ ret' = k /\ UNCHANGED <<tail, length, level>>
    <3>1. x \in Nodes /\ node[x].vals \in Seq(Val)
      BY <1>1, <1>4, <2>2, NodeFields DEF Nodes
    <3>2. PICK w : w = RemoveValue(node[x].vals, v)
      OBVIOUS
    <3>a. w \in Seq(Val) /\ w # <<>>
      BY <2>2, <3>1, <3>2, RemoveValueType
    <3>b. Revalued(x, w)
      BY <2>2, <3>2 DEF Revalued
    <3>3. /\ p \in DOMAIN AsList /\ AsList[p].vals = node[x].vals
          /\ AsList' = [AsList EXCEPT ![p].vals = w]
      <4>1. /\ pos[x] \in DOMAIN AsList /\ AsList[pos[x]].vals = node[x].vals
            /\ AsList' = [AsList EXCEPT ![pos[x]].vals = w]
        BY <1>1, <3>1, <3>a, <3>b, ValuesRead
      <4> QED BY <1>3, <4>1
    <3>4. AsList' = [AsList EXCEPT ![p].vals = RemoveValue(@, v)] /\ RemoveValue(AsList[p].vals, v) # <<>>
      BY <2>2, <3>2, <3>3
    <3> QED BY <1>4, <2>2, <3>3, <3>4 DEF ListDelete
  <2>3. CASE /\ Found(x, k) /\ (v = Nil \/ RemoveValue(node[x].vals, v) = <<>>)
             /\ Unlink(x, Path(k, AtKey)) /\ ret' = k
    <3>1. AsList' = RemoveAt(AsList, p) /\ x \in Nodes
      BY <1>1, <1>2, <1>3, <1>4, <2>3, UnlinkRead
    <3>2. AsList[p] = Cell(x)
      BY <1>1, <1>3, <3>1, AsListReads DEF Reads
    <3>3. RemoveValue(AsList[p].vals, v) = <<>>
      BY <2>3, <3>2, SkiplistAssumption DEF Cell
    <3> QED BY <1>4, <2>3, <3>1, <3>3 DEF ListDelete
  <2> QED BY <1>1, <1>2, <2>1, <2>2, <2>3, DeleteCases
<1> QED BY <1>4, <1>5, PromiseReads DEF Promise!DeleteValue

(* skiplistDelete of a whole node, at the place of a node with the key.    *)
LEMMA DeleteNodeKeepsPromise ==
    ASSUME SInv, NEW k \in Tuple, Delete(k, Nil), NEW pos, Laid(pos)
    PROVE  /\ Promise!DeleteKey(k)
           /\ \A y \in Nodes : node[y].obj = k => pos[y] \in DOMAIN AsList /\ Promise!RemoveNode(pos[y])
<1>1. TypeOK /\ Towers
  BY DEF SInv
<1>2. PICK x : x = FindAtLeast(k, AtKey)
  OBVIOUS
<1>3. /\ Found(x, k) => x \in Nodes
      /\ k \in ToSet(Promise!Keys) => Found(x, k)
  BY <1>1, <1>2, SearchLands
<1>4. \A y \in Nodes : node[y].obj = k => y = x
  BY <1>1, <1>2, SearchFinds
<1>5. CASE ~Found(x, k) /\ ret' = Nil /\ UNCHANGED <<node, tail, length, level>>
  <2>1. AsList' = AsList /\ k \notin ToSet(Promise!Keys)
    BY <1>1, <1>3, <1>5, SameRead
  <2>2. k \notin Promise!ToSet(Promise!Keys)
    BY <2>1 DEF Promise!ToSet, ToSet
  <2>3. Promise!DeleteKey(k)
    BY <1>5, <2>1, <2>2 DEF Promise!DeleteKey
  <2>4. \A y \in Nodes : node[y].obj # k
    <3> SUFFICES ASSUME NEW y \in Nodes, node[y].obj = k PROVE FALSE
      OBVIOUS
    <3>1. y = x /\ y # Nil
      BY <1>1, <1>4, NodeFields DEF Nodes
    <3> QED BY <1>5, <3>1 DEF Found
  <2> QED BY <2>3, <2>4
<1>6. CASE Found(x, k) /\ Unlink(x, Path(k, AtKey)) /\ ret' = k
  <2>1. /\ pos[x] \in DOMAIN AsList /\ AsList[pos[x]].obj = k
        /\ AsList' = RemoveAt(AsList, pos[x])
    BY <1>1, <1>2, <1>6, UnlinkRead
  <2>2. Promise!RemoveNode(pos[x])
    BY <1>6, <2>1, PromiseReads DEF Promise!RemoveNode
  <2>3. Promise!DeleteKey(k)
    BY <2>1, <2>2 DEF Promise!DeleteKey
  <2> QED BY <1>4, <2>1, <2>2, <2>3
<1> QED BY <1>1, <1>2, <1>5, <1>6, DeleteCases

LEMMA InsertKeepsPromise ==
    ASSUME SInv, NEW k \in Tuple, NEW v \in Val, Insert(k, v)
    PROVE  Promise!Insert(k, v)
<1>1. PICK pos : TypeOK /\ Towers /\ Laid(pos)
  BY DEF SInv
<1>2. PICK x : x = FindAtLeast(k, AtKey)
  OBVIOUS
<1>3. PICK p : p = pos[x]
  OBVIOUS
<1>4. /\ p \in Landings(Promise!Keys, k) /\ p \in 1..(length + 1)
      /\ Found(x, k) => x \in Nodes
      /\ Hit(Promise!Keys, p, k) <=> Found(x, k)
  BY <1>1, <1>2, <1>3, SearchLands
<1>5. /\ AsList' = ListInsert(AsList, Promise!Keys, p, k, k, v)
      /\ \/ ~Hit(Promise!Keys, p, k) /\ ret' = k
         \/ Hit(Promise!Keys, p, k) /\ v \in ToSet(AsList[p].vals) /\ ret' = Nil
         \/ Hit(Promise!Keys, p, k) /\ v \notin ToSet(AsList[p].vals) /\ ret' \in {k, Nil}
  <2>1. CASE InsertAppend(k, v)
    <3>1. /\ Found(x, k) /\ node' = [node EXCEPT ![x].vals = AppendValue(@, v)]
          /\ (ret' \in IF v \in ToSet(node[x].vals) THEN {Nil} ELSE {k, Nil})
          /\ UNCHANGED <<tail, length, level>>
      BY <1>2, <2>1, Zenon DEF InsertAppend, AtKey
    <3>2. x \in Nodes /\ node[x].vals \in Seq(Val) /\ node[x].vals # <<>>
      BY <1>1, <1>4, <3>1, NodeFields DEF Nodes
    <3>a. PICK w : w = AppendValue(node[x].vals, v)
      OBVIOUS
    <3>3. w \in Seq(Val) /\ w # <<>>
      <4>1. Append(node[x].vals, v) \in Seq(Val) /\ Append(node[x].vals, v) # <<>>
        BY <3>2
      <4> QED BY <3>2, <3>a, <4>1 DEF AppendValue
    <3>4. Revalued(x, w)
      BY <3>1, <3>a DEF Revalued
    <3>5. /\ p \in DOMAIN AsList /\ AsList[p].vals = node[x].vals
          /\ AsList' = [AsList EXCEPT ![p].vals = w]
      <4>1. /\ pos[x] \in DOMAIN AsList /\ AsList[pos[x]].vals = node[x].vals
            /\ AsList' = [AsList EXCEPT ![pos[x]].vals = w]
        BY <1>1, <3>2, <3>3, <3>4, ValuesRead
      <4> QED BY <1>3, <4>1
    <3>6. AsList' = [AsList EXCEPT ![p].vals = AppendValue(@, v)]
      BY <3>a, <3>5
    <3> QED BY <1>4, <3>1, <3>5, <3>6 DEF ListInsert
  <2>2. ASSUME NEW h \in 1..MaxLevel, NEW y \in NodeId \ DOMAIN node, InsertNode(k, v, h, y)
        PROVE  /\ ~Found(x, k) /\ ret' = k
               /\ AsList' = InsertAt(AsList, p, [obj |-> k, vals |-> <<v>>])
    <3>1. /\ TypeOK' /\ ~Found(x, k)
          /\ \E q : Laid(q)' /\ Grown(pos, q, k, v, y, x)
      BY <1>1, <1>2, <2>2, InsertKeepsLayout
    <3>2. PICK q : Laid(q)' /\ Grown(pos, q, k, v, y, x)
      BY <3>1
    <3>3. AsList' = InsertAt(AsList, pos[x], [obj |-> k, vals |-> <<v>>])
      BY <1>1, <1>3, <1>4, <3>1, <3>2, GrownRead
    <3> QED BY <1>3, <3>1, <3>2, <3>3 DEF Grown
  <2> QED BY <1>4, <2>1, <2>2 DEF Insert, ListInsert
<1>6. \A l : Promise!ToSet(l) = ToSet(l)
  BY DEF Promise!ToSet, ToSet
<1> QED BY <1>4, <1>5, <1>6, PromiseReads DEF Promise!Insert

LEMMA StepKeepsPromise == SInv /\ [Next]_vars => PromiseStep
<1> SUFFICES ASSUME SInv, [Next]_vars PROVE PromiseStep
  OBVIOUS
<1>1. PICK pos : TypeOK /\ Towers /\ Laid(pos)
  BY DEF SInv
<1>2. /\ length \in Nat /\ DOMAIN AsList = 1..length /\ Len(AsList) = length
      /\ AsList \in Seq(Cells)
  BY <1>1, AsListReads DEF Reads, TypeOK
<1>3. \A y \in Nodes : node[y].obj \in Tuple /\ y # Nil /\ y # Header
  BY <1>1, NodeFields DEF Nodes
<1>4. ASSUME NEW x, PopEmpty(x), length = 0 PROVE Promise!PopEmpty
  <2>1. AsList' = AsList /\ ret' = Nil
    BY <1>1, <1>4, SameRead DEF PopEmpty
  <2> QED BY <1>2, <1>4, <2>1 DEF Promise!PopEmpty
<1>5. ASSUME NEW x \in Nodes, Delete(node[x].obj, Nil)
      PROVE  AsList # <<>> /\ Promise!RemoveNode(pos[x])
  <2>1. pos[x] \in DOMAIN AsList /\ Promise!RemoveNode(pos[x])
    BY <1>1, <1>3, <1>5, DeleteNodeKeepsPromise
  <2> QED BY <1>2, <2>1
<1>6. ASSUME NEW k \in Tuple, NEW v \in Val, Insert(k, v) \/ Delete(k, v) PROVE Promise!Next
  BY <1>6, InsertKeepsPromise, DeleteKeepsPromise DEF Promise!Next
<1>7. ASSUME NEW k \in Tuple, Delete(k, Nil) PROVE Promise!Next
  BY <1>1, <1>7, DeleteNodeKeepsPromise DEF Promise!Next
<1>8. CASE PopHead
  <2>1. PICK x : x = Forward(Header, 1)
    OBVIOUS
  <2>2. x \in Nodes \cup {Nil} /\ pos[x] = 1
    <3>1. pos[Header] = 0 /\ Placed(pos) /\ Linked(pos)
      BY <1>1 DEF Laid, Placed
    <3>2. Header \in DOMAIN node
      BY <1>1 DEF TypeOK
    <3> QED BY <1>1, <2>1, <3>1, <3>2, NextOnOne
  <2>3. CASE PopEmpty(x)
    <3>1. x = Nil /\ pos[Nil] = length + 1
      BY <1>1, <2>3 DEF PopEmpty, Laid, Placed
    <3>2. length = 0
      BY <1>2, <2>2, <3>1
    <3> QED BY <1>4, <2>3, <3>2 DEF Promise!Next, PromiseStep
  <2>4. CASE x # Nil /\ Delete(node[x].obj, Nil)
    BY <1>5, <2>2, <2>4 DEF Promise!Next, Promise!PopHead, PromiseStep
  <2> QED BY <1>8, <2>1, <2>3, <2>4 DEF PopHead
<1>9. CASE PopTail
  <2>1. IF tail = Nil THEN length = 0 ELSE tail \in Nodes /\ pos[tail] = length
    BY <1>1 DEF Laid, Backed, AtBack
  <2>2. CASE PopEmpty(tail)
    <3>1. length = 0
      BY <2>1, <2>2 DEF PopEmpty
    <3> QED BY <1>4, <2>2, <3>1 DEF Promise!Next, PromiseStep
  <2>3. CASE tail # Nil /\ Delete(node[tail].obj, Nil)
    <3>1. AsList # <<>> /\ Promise!RemoveNode(Len(AsList))
      BY <1>2, <1>5, <2>1, <2>3
    <3> QED BY <3>1 DEF Promise!Next, Promise!PopTail, PromiseStep
  <2> QED BY <1>9, <2>2, <2>3 DEF PopTail
<1>10. CASE UNCHANGED vars
  <2>1. AsList' = AsList
    BY <1>1, <1>10, SameRead DEF vars
  <2> QED BY <1>10, <2>1 DEF PromiseStep, vars
<1> QED BY <1>6, <1>7, <1>8, <1>9, <1>10 DEF Next, PromiseStep

(* The skip list implements its promise: whatever heights the towers are   *)
(* drawn with, every call of skiplistInsert, skiplistDelete and the pops   *)
(* changes the list of keys and values as OrderedList.tla says and returns *)
(* what it says.                                                           *)
THEOREM SkiplistImplementsPromise == Spec => ImplementsOrderedList
<1>1. Init => Promise!Init
  <2> SUFFICES ASSUME Init PROVE Promise!Init
    OBVIOUS
  <2>1. PICK pos : TypeOK /\ Laid(pos)
    BY InitLaid DEF SInv
  <2>2. AsList \in Seq(Cells) /\ Len(AsList) = length
    BY <2>1, AsListReads DEF Reads
  <2>3. length = 0 /\ ret = Nil
    BY DEF Init
  <2> QED BY <2>2, <2>3 DEF Promise!Init
<1>2. SInv /\ [Next]_vars => [Promise!Next]_<<AsList, ret>>
  BY StepKeepsPromise DEF PromiseStep
<1> QED BY <1>1, <1>2, InitLaid, StepKeeps, PTL DEF Spec, ImplementsOrderedList, Promise!Spec

-----------------------------------------------------------------------------
(* The places up to e hold the keys that are not beyond an upper bound. *)
Within(pos, e, max, hi) ==
    e \in 0..length /\ \A x \in Nodes : Beyond(x, max, hi) <=> pos[x] > e

LEMMA WithinExists ==
    ASSUME TypeOK, NEW pos, Laid(pos), NEW max \in Tuple \cup {Nil}, NEW hi \in BOOLEAN
    PROVE  \E e : Within(pos, e, max, hi)
<1> DEFINE S == {0} \cup {pos[x] : x \in {y \in Nodes : ~Beyond(y, max, hi)}}
<1>1. length \in Nat /\ \A x \in Nodes : pos[x] \in 1..length /\ node[x].obj \in Tuple
  BY NodeFields DEF Laid, Placed, Nodes, TypeOK
<1>2. S \in SUBSET (0..length) /\ S # {}
  BY <1>1
<1>3. PICK e \in S : \A i \in S : i <= e
  <2> HIDE DEF S
  <2> QED BY <1>1, <1>2, GreatestOf
<1>4. ASSUME NEW x \in Nodes, pos[x] > e PROVE Beyond(x, max, hi)
  <2>1. e \in 0..length
    BY <1>2, <1>3
  <2>2. pos[x] \notin S
    BY <1>1, <1>3, <1>4, <2>1
  <2> QED BY <2>2
<1>5. ASSUME NEW x \in Nodes, Beyond(x, max, hi), pos[x] <= e PROVE FALSE
  <2>1. e # 0
    BY <1>1, <1>5
  <2>2. PICK z \in Nodes : ~Beyond(z, max, hi) /\ e = pos[z]
    BY <1>3, <2>1
  <2>3. x = z \/ pos[x] < pos[z]
    BY <1>1, <1>5, <2>2 DEF Laid, Placed
  <2>4. x = z \/ Lt(node[x].obj, node[z].obj)
    BY <2>3 DEF Laid, Placed
  <2>5. max # Nil /\ (Lt(max, node[x].obj) \/ (hi /\ node[x].obj = max))
    BY <1>5 DEF Beyond
  <2>6. max \in Tuple /\ (Lt(max, node[z].obj) \/ (hi /\ node[z].obj = max))
    BY <1>1, <2>4, <2>5, LtAssumption
  <2> QED BY <2>2, <2>5, <2>6 DEF Beyond
<1>6. e \in 0..length /\ \A x \in Nodes : pos[x] <= e \/ pos[x] > e
  BY <1>1, <1>2, <1>3
<1>7. Within(pos, e, max, hi)
  BY <1>1, <1>4, <1>5, <1>6 DEF Within
<1> QED BY <1>7

(* An iterator that is clipped at the bound stands on a node within it.    *)
LEMMA Clipped ==
    ASSUME TypeOK, NEW pos, Laid(pos), NEW max, NEW hi, NEW e, Within(pos, e, max, hi),
           NEW x \in Nodes \cup {Nil}
    PROVE  /\ pos[x] \in 1..(length + 1) /\ length \in Nat /\ e \in 0..length
           /\ pos[x] > e => Clip(x, max, hi) = Nil
           /\ pos[x] <= e => Clip(x, max, hi) = x /\ x \in Nodes
<1>1. Nil \notin Nodes /\ length \in Nat /\ e \in 0..length
  BY NodeFields DEF Nodes, TypeOK, Within
<1>2. /\ pos[Nil] = length + 1
      /\ x \in Nodes => pos[x] \in 1..length /\ (Beyond(x, max, hi) <=> pos[x] > e)
  BY DEF Laid, Placed, Within
<1> QED BY <1>1, <1>2 DEF Clip

(* The values an iterator returns from the node x on.                      *)
Listed(w, pos, e, max, hi, x) ==
    /\ w[Clip(x, max, hi)] \in Seq(Val)
    /\ Lists(w[Clip(x, max, hi)], AsList, pos[x], e)

(* skiplistIterateRange lists the values of the nodes from the one its     *)
(* search finds to the last one within the bound, in order.                *)
LEMMA ScanLists ==
    ASSUME TypeOK, NEW pos, Laid(pos), NEW min, NEW lo,
           NEW max, NEW hi, NEW e, Within(pos, e, max, hi),
           FindAtLeast(min, lo) \in Nodes \cup {Nil}
    PROVE  /\ Scan(min, lo, max, hi) \in Seq(Val)
           /\ Lists(Scan(min, lo, max, hi), AsList, pos[FindAtLeast(min, lo)], e)
<1> DEFINE D == DOMAIN node \cup {Nil}
           next(x) == Clip(Forward(x, 1), max, hi)
           F(w) == [x \in D |-> IF x = Nil THEN <<>> ELSE node[x].vals \o w[next(x)]]
           W == CHOOSE w : w = F(w)
           n == length + 1
           V == Seq(Val)
           at(k) == NodeAt(pos, n - k)
           step == [k \in 1..n |-> [c \in V |-> node[at(k)].vals \o (IF next(at(k)) = Nil THEN <<>> ELSE c)]]
<1>1. Scan(min, lo, max, hi) = W[Clip(FindAtLeast(min, lo), max, hi)]
  BY Zenon DEF Scan
<1>2. /\ length \in Nat /\ n \in Nat /\ Nil \notin DOMAIN node /\ Header \in DOMAIN node
      /\ \A x \in DOMAIN node : node[x].vals \in V /\ pos[x] \in 0..length
      /\ pos[Nil] = n /\ pos[Header] = 0
  <2>1. \A x \in DOMAIN node : node[x].vals \in V
    BY DEF TypeOK, NodeRecord
  <2> QED BY <2>1, NodeFields DEF Laid, Placed, Nodes, TypeOK
<1>3. ASSUME NEW x \in DOMAIN node
      PROVE  /\ Forward(x, 1) \in Nodes \cup {Nil} /\ pos[Forward(x, 1)] = pos[x] + 1
             /\ next(x) = Nil \/ next(x) = Forward(x, 1)
  BY NextOnOne DEF Laid, Clip
<1>4. \A k \in 1..n : at(k) \in DOMAIN node /\ pos[at(k)] = n - k
  <2>1. \A k \in 1..n : n - k \in 0..length
    BY <1>2
  <2> QED BY <2>1, NodeAtIs
<1>5. \A x \in DOMAIN node : n - pos[x] \in 1..n /\ at(n - pos[x]) = x
  <2>1. SUFFICES ASSUME NEW x \in DOMAIN node PROVE n - pos[x] \in 1..n /\ at(n - pos[x]) = x
    OBVIOUS
  <2>2. n - pos[x] \in 1..n /\ n - (n - pos[x]) = pos[x] /\ pos[x] \in 0..length
    BY <1>2
  <2>3. x = NodeAt(pos, pos[x])
    BY <2>2, NodeAtIs
  <2> QED BY <2>2, <2>3
<1> HIDE DEF next, at
<1>6. step \in [1..n -> [V -> V]] /\ <<>> \in V
  <2>1. \A k \in 1..n : \A c \in V :
          node[at(k)].vals \o (IF next(at(k)) = Nil THEN <<>> ELSE c) \in V
    BY <1>2, <1>4
  <2> HIDE DEF V
  <2>2. step \in [1..n -> [V -> V]]
    BY <2>1
  <2> QED BY <2>2 DEF V
<1>7. PICK f \in [0..n -> V] : Iterates(f, n, <<>>, step)
  <2> HIDE DEF V, step, n
  <2> QED BY <1>2, <1>6, Recursion
<1> DEFINE g == [x \in D |-> f[n - pos[x]]]
<1>8. ASSUME NEW x \in D
      PROVE  g[x] = IF x = Nil THEN <<>> ELSE node[x].vals \o g[next(x)]
  <2>1. f[0] = <<>> /\ \A k \in 1..n : f[k] = step[k][f[k - 1]]
    BY <1>7 DEF Iterates
  <2>2. g[Nil] = <<>>
    BY <1>2, <2>1
  <2>3. CASE x # Nil
    <3>1. PICK k \in 1..n : k = n - pos[x] /\ at(k) = x /\ x \in DOMAIN node
      BY <1>5, <2>3
    <3>2. k - 1 \in 0..n /\ f[k - 1] \in V
      <4>1. k - 1 \in 0..n
        BY <1>2, <3>1
      <4> HIDE DEF V, n
      <4> QED BY <4>1
    <3>3. f[k] = node[x].vals \o (IF next(x) = Nil THEN <<>> ELSE f[k - 1])
      <4>1. f[k] = step[k][f[k - 1]]
        BY <2>1
      <4> HIDE DEF V
      <4> QED BY <3>1, <3>2, <4>1
    <3>4. g[x] = f[k]
      BY <3>1
    <3>5. g[next(x)] = IF next(x) = Nil THEN <<>> ELSE f[k - 1]
      <4>1. CASE next(x) = Nil
        BY <2>2, <4>1
      <4>2. CASE next(x) # Nil
        <5>1. next(x) = Forward(x, 1) /\ next(x) \in D /\ pos[next(x)] = pos[x] + 1
          BY <1>3, <3>1, <4>2 DEF Nodes
        <5>2. n - pos[next(x)] = k - 1
          BY <1>2, <3>1, <5>1, SMTT(30)
        <5> QED BY <4>2, <5>1, <5>2
      <4> QED BY <4>1, <4>2
    <3> HIDE DEF g
    <3> QED BY <2>3, <3>3, <3>4, <3>5
  <2> HIDE DEF g
  <2> QED BY <2>2, <2>3
<1>9. g = F(g)
  <2>1. g = [x \in D |-> g[x]]
    OBVIOUS
  <2>2. F(g) = [x \in D |-> F(g)[x]]
    <3> HIDE DEF g, D
    <3> QED OBVIOUS
  <2>3. \A x \in D : F(g)[x] = IF x = Nil THEN <<>> ELSE node[x].vals \o g[next(x)]
    <3> HIDE DEF g, D
    <3> QED OBVIOUS
  <2> HIDE DEF g, F, D
  <2> QED BY <1>8, <2>1, <2>2, <2>3
<1>10. W = F(W)
  <2> HIDE DEF F, g
  <2> QED BY <1>9
<1>11. /\ W[Nil] = <<>>
       /\ \A x \in Nodes : W[x] = node[x].vals \o W[next(x)]
  <2>1. \A x \in D : W[x] = IF x = Nil THEN <<>> ELSE node[x].vals \o W[next(x)]
    <3> HIDE DEF W
    <3> QED BY <1>10
  <2>2. Nil \in D /\ \A x \in Nodes : x \in D /\ x # Nil
    BY <1>2 DEF Nodes
  <2> QED BY <2>1, <2>2
<1> HIDE DEF W, F, g, step
<1> DEFINE T == {k \in 0..length : \A x \in Nodes \cup {Nil} :
                                     pos[x] = n - k => Listed(W, pos, e, max, hi, x)}
<1>12. ASSUME NEW x \in Nodes \cup {Nil}, pos[x] > e PROVE Listed(W, pos, e, max, hi, x)
  <2>1. Clip(x, max, hi) = Nil /\ pos[x] \in Nat /\ e \in Nat /\ e < pos[x]
    BY <1>12, Clipped
  <2> QED BY <1>6, <1>11, <2>1, ListsNone DEF Listed
<1>13. 0 \in T
  <2>1. \A x \in Nodes \cup {Nil} : pos[x] = n - 0 => pos[x] > e
    BY <1>2 DEF Within
  <2> QED BY <1>2, <1>12, <2>1
<1>14. ASSUME NEW k \in 0..length, k # length, k \in T PROVE k + 1 \in T
  <2>1. SUFFICES ASSUME NEW x \in Nodes \cup {Nil}, pos[x] = n - (k + 1), pos[x] <= e
                 PROVE  Listed(W, pos, e, max, hi, x)
    <3>1. k + 1 \in 0..length
      BY <1>2, <1>14
    <3>2. \A x \in Nodes \cup {Nil} : pos[x] <= e \/ pos[x] > e
      BY Clipped
    <3> QED BY <1>12, <2>1, <3>1, <3>2
  <2>2. x \in Nodes /\ x \in DOMAIN node /\ Clip(x, max, hi) = x
    BY <2>1, Clipped DEF Nodes
  <2>3. PICK y \in Nodes \cup {Nil} : y = Forward(x, 1) /\ pos[y] = pos[x] + 1
    BY <1>3, <2>2
  <2>4. pos[y] = n - k
    BY <1>2, <2>1, <2>3
  <2>5. Listed(W, pos, e, max, hi, y)
    BY <1>14, <2>4
  <2>6. PICK s, j, v : s = W[Clip(y, max, hi)] /\ j = pos[x] /\ v = node[x].vals
    OBVIOUS
  <2>7. s \in Seq(Val) /\ Lists(s, AsList, j + 1, e)
    BY <2>3, <2>5, <2>6 DEF Listed
  <2>8. W[x] = v \o s
    BY <1>11, <2>2, <2>3, <2>6 DEF next
  <2>9. PICK l : l = AsList
    OBVIOUS
  <2>10. l[j].vals = v /\ v \in Seq(Val)
    <3>1. AsList[pos[x]] = Cell(x)
      BY <2>2, AsListReads DEF Reads
    <3> QED BY <1>2, <2>2, <2>6, <2>9, <3>1 DEF Cell
  <2>11. j \in Nat /\ e \in Nat /\ j <= e
    BY <2>1, <2>6, Clipped
  <2>12. l[j].vals \o s \in Seq(Val) /\ Lists(l[j].vals \o s, l, j, e)
    <3>1. l[j].vals \in Seq(Val) /\ Lists(s, l, j + 1, e)
      BY <2>7, <2>9, <2>10
    <3> QED BY <2>7, <2>11, <3>1, ListsMore
  <2> QED BY <2>2, <2>6, <2>8, <2>9, <2>10, <2>12 DEF Listed
<1>15. \A k \in 0..length : k \in T
  <2>1. \A k \in 0..length : k # length /\ k \in T => k + 1 \in T
    BY <1>14
  <2> HIDE DEF T
  <2> QED BY <1>2, <1>13, <2>1, Upwards
<1>16. PICK x : x = FindAtLeast(min, lo)
  OBVIOUS
<1>17. n - pos[x] \in 0..length /\ pos[x] = n - (n - pos[x]) /\ x \in Nodes \cup {Nil}
  BY <1>16, Clipped
<1>18. Listed(W, pos, e, max, hi, x)
  BY <1>15, <1>17
<1> QED BY <1>1, <1>16, <1>18 DEF Listed

LEMMA LaidScans ==
    ASSUME TypeOK, Towers, NEW pos, Laid(pos), NEW min \in Tuple, NEW max \in Tuple \cup {Nil},
           NEW lo \in BOOLEAN, NEW hi \in BOOLEAN
    PROVE  LET inRange(x) ==
                   /\ Lt(min, node[x].obj) \/ (node[x].obj = min /\ ~lo)
                   /\ max # Nil => Lt(node[x].obj, max) \/ (node[x].obj = max /\ ~hi)
               c == Chain(1)
           IN  Scan(min, lo, max, hi) =
                   FlattenSeq([j \in DOMAIN c |-> IF inRange(c[j]) THEN node[c[j]].vals ELSE <<>>])
<1> DEFINE inRange(x) ==
               /\ Lt(min, node[x].obj) \/ (node[x].obj = min /\ ~lo)
               /\ max # Nil => Lt(node[x].obj, max) \/ (node[x].obj = max /\ ~hi)
           c == Chain(1)
           seqs == [j \in DOMAIN c |-> IF inRange(c[j]) THEN node[c[j]].vals ELSE <<>>]
<1>1. PICK e : Within(pos, e, max, hi)
  BY WithinExists
<1>2. PICK s : Descent(s, min, lo, pos)
  BY DescentExists DEF Laid
<1>3. /\ s[1] \in DOMAIN node /\ Path(min, lo)[1].at = s[1] /\ pos[s[1]] \in Nat
      /\ \A z \in Nodes : Past(node[z].obj, min, lo) <=> pos[z] <= pos[s[1]]
  <2>1. 1 \in 1..level /\ 1 \in 1..MaxLevel
    BY SkiplistAssumption DEF TypeOK
  <2>2. Path(min, lo)[1] = [at |-> s[1], rank |-> pos[s[1]]] /\ s[1] \in DOMAIN node /\ pos[s[1]] \in Nat
    BY <1>2, <2>1, DescentIs DEF Laid
  <2> QED BY <1>2, <2>2, Landing DEF Laid
<1>4. PICK x : x = FindAtLeast(min, lo)
  OBVIOUS
<1>5. x \in Nodes \cup {Nil} /\ pos[x] = pos[s[1]] + 1
  <2>1. x = Forward(s[1], 1)
    BY <1>3, <1>4, Zenon DEF FindAtLeast
  <2> QED BY <1>3, <2>1, NextOnOne DEF Laid
<1>6. PICK p, n : p = pos[x] /\ n = length
  OBVIOUS
<1>7. n \in Nat /\ p \in 1..(n + 1) /\ e \in 0..n
  BY <1>1, <1>5, <1>6, Clipped
<1>8. ASSUME NEW z \in Nodes PROVE inRange(z) <=> pos[z] \in p..e
  <2>1. pos[z] \in 1..n /\ node[z].obj \in Tuple
    BY <1>6, NodeFields DEF Laid, Placed, Nodes
  <2>2. Past(node[z].obj, min, lo) <=> pos[z] < p
    BY <1>3, <1>5, <1>6, <2>1
  <2>3. Beyond(z, max, hi) <=> pos[z] > e
    BY <1>1 DEF Within
  <2>4. (Lt(min, node[z].obj) \/ (node[z].obj = min /\ ~lo)) <=> ~Past(node[z].obj, min, lo)
    BY <2>1, LtAssumption DEF Past
  <2>5. (max # Nil => Lt(node[z].obj, max) \/ (node[z].obj = max /\ ~hi)) <=> ~Beyond(z, max, hi)
    BY <2>1, LtAssumption DEF Beyond
  <2> QED BY <1>7, <2>1, <2>2, <2>3, <2>4, <2>5
<1> HIDE DEF inRange
<1>9. /\ DOMAIN c = 1..n /\ \A j \in 1..n : c[j] \in Nodes /\ pos[c[j]] = j
  BY <1>6, ChainPlaces
<1>10. PICK l, G : l = AsList /\ G = p..e
  OBVIOUS
<1>11. \A j \in 1..n : l[j].vals = node[c[j]].vals /\ l[j].vals \in Seq(Val)
  <2>1. ASSUME NEW z \in Nodes
        PROVE  AsList[pos[z]].vals = node[z].vals /\ node[z].vals \in Seq(Val)
    <3>1. AsList[pos[z]] = Cell(z)
      BY AsListReads DEF Reads
    <3>2. node[z].vals \in Seq(Val)
      BY NodeFields DEF Nodes
    <3> QED BY <3>1, <3>2 DEF Cell
  <2> HIDE DEF c
  <2> QED BY <1>9, <1>10, <2>1
<1>12. \A j \in 1..n : inRange(c[j]) <=> j \in G
  <2> HIDE DEF c
  <2> QED BY <1>8, <1>9, <1>10
<1>13. seqs = [j \in 1..n |-> IF j \in G THEN l[j].vals ELSE <<>>]
  <2> HIDE DEF c
  <2> QED BY <1>9, <1>11, <1>12
<1>14. PICK q, t : q = seqs /\ t = Scan(min, lo, max, hi)
  OBVIOUS
<1>15. PICK row, col : Runs(FlattenSeq(q), l, G, row, col) /\ InOrder(FlattenSeq(q), row, col)
  <2>1. q = [j \in 1..n |-> IF j \in G THEN l[j].vals ELSE <<>>]
    BY <1>13, <1>14
  <2>2. G \in SUBSET (1..n) /\ \A j \in 1..n : l[j].vals \in Seq(Val)
    BY <1>7, <1>10, <1>11
  <2> HIDE DEF seqs
  <2> QED BY <1>7, <2>1, <2>2, FlatRuns
<1>16. FlattenSeq(q) \in Seq(Val)
  <2>1. q = [j \in 1..n |-> IF j \in G THEN l[j].vals ELSE <<>>]
    BY <1>13, <1>14
  <2>2. G \in SUBSET (1..n) /\ \A j \in 1..n : l[j].vals \in Seq(Val)
    BY <1>7, <1>10, <1>11
  <2> HIDE DEF seqs
  <2> QED BY <1>7, <2>1, <2>2, FlatRuns
<1>17. t \in Seq(Val) /\ Lists(t, l, p, e)
  BY <1>1, <1>4, <1>5, <1>6, <1>10, <1>14, ScanLists
<1>18. PICK row2, col2 : Runs(t, l, G, row2, col2) /\ InOrder(t, row2, col2)
  BY <1>10, <1>17 DEF Lists
<1>19. t = FlattenSeq(q)
  BY <1>15, <1>16, <1>17, <1>18, OrderedAlike
<1> HIDE DEF seqs
<1>20. Scan(min, lo, max, hi) = FlattenSeq(seqs)
  BY <1>14, <1>19
<1> QED BY <1>20 DEF seqs, inRange

(* A range scan returns every value stored under a key of the range, once, *)
(* in key and then insertion order, and nothing else, wherever its bounds  *)
(* lie and whatever towers its search goes through (skiplistIterateRange,  *)
(* skiplistIterator_Next).                                                 *)
THEOREM ScansStayExact == Spec => []ScanExact
<1>1. SInv => ScanExact
  <2> SUFFICES ASSUME TypeOK, Towers, NEW pos, Laid(pos) PROVE ScanExact
    BY DEF SInv
  <2> QED BY LaidScans DEF ScanExact
<1> QED BY <1>1, InitLaid, StepKeeps, PTL DEF Spec

=============================================================================
