------------------------------- MODULE Listings -----------------------------
(***************************************************************************)
(* Facts the proofs about lists share.  Induction over the first numbers,  *)
(* the existence of a function defined step by step, what the sequences of *)
(* a sequence are when laid end to end, and that two sequences which run   *)
(* through the same values in the same order are one.                      *)
(***************************************************************************)
EXTENDS Integers, FiniteSets, SequencesExt, SequenceTheorems, FiniteSetTheorems,
        WellFoundedInduction, TLAPS

-----------------------------------------------------------------------------
(* Induction over the first numbers, with sets in the place of predicates. *)
LEMMA LeastOf ==
    ASSUME NEW S \in SUBSET Nat, S # {}
    PROVE  \E m \in S : \A i \in S : m <= i
<1> DEFINE less == {p \in Nat \X Nat : p[1] < p[2]}
<1>1. IsWellFoundedOn(less, Nat)
  BY NatLessThanWellFounded DEF OpToRel
<1>2. PICK m \in S : \A i \in S : <<i, m>> \notin less
  <2> HIDE DEF less
  <2> QED BY <1>1, WFMin
<1>3. ASSUME NEW i \in S PROVE m <= i
  <2>1. <<i, m>> \notin less /\ i \in Nat /\ m \in Nat
    BY <1>2
  <2> QED BY <2>1
<1> QED BY <1>3

LEMMA Upwards ==
    ASSUME NEW n \in Nat, NEW S, 0 \in S,
           \A k \in 0..n : k # n /\ k \in S => k + 1 \in S
    PROVE  \A k \in 0..n : k \in S
<1> SUFFICES ASSUME NEW j \in 0..n, j \notin S PROVE FALSE
  OBVIOUS
<1> DEFINE Out == {k \in 0..n : k \notin S}
<1>1. PICK m \in Out : \A i \in Out : m <= i
  <2>1. Out \in SUBSET Nat /\ Out # {}
    OBVIOUS
  <2> HIDE DEF Out
  <2> QED BY <2>1, LeastOf
<1>2. m # 0 /\ m - 1 \in 0..n /\ m - 1 \notin Out /\ m - 1 # n
  BY <1>1
<1> QED BY <1>2

LEMMA Downwards ==
    ASSUME NEW n \in Nat, NEW S,
           \A k \in 1..n : (\A m \in (k + 1)..n : m \in S) => k \in S
    PROVE  \A k \in 1..n : k \in S
<1> SUFFICES ASSUME NEW j \in 1..n, j \notin S PROVE FALSE
  OBVIOUS
<1> DEFINE Out == {k \in 0..n : n - k \in 1..n /\ n - k \notin S}
<1>1. n - j \in Out
  OBVIOUS
<1>2. PICK m \in Out : \A i \in Out : m <= i
  <2>1. Out \in SUBSET Nat
    OBVIOUS
  <2> HIDE DEF Out
  <2> QED BY <1>1, <2>1, LeastOf
<1>3. ASSUME NEW k \in (n - m + 1)..n PROVE k \in S
  <2>1. n - k \in 0..n /\ n - (n - k) = k /\ ~(m <= n - k)
    BY <1>2
  <2> QED BY <2>1, <1>2
<1> QED BY <1>2, <1>3

(* A function defined step by step from 0 on exists. *)
Iterates(f, n, base, step) ==
    f[0] = base /\ \A k \in 1..n : f[k] = step[k][f[k - 1]]

LEMMA Recursion ==
    ASSUME NEW n \in Nat, NEW V, NEW base \in V, NEW step \in [1..n -> [V -> V]]
    PROVE  \E f \in [0..n -> V] : Iterates(f, n, base, step)
<1> DEFINE Upto(k, f) == /\ f \in [0..k -> V] /\ f[0] = base
                         /\ \A i \in 1..k : f[i] = step[i][f[i - 1]]
           S == {k \in 0..n : \E f : Upto(k, f)}
<1>1. 0 \in S
  <2>1. Upto(0, [k \in 0..0 |-> base])
    OBVIOUS
  <2> HIDE DEF Upto
  <2> QED BY <2>1
<1>2. ASSUME NEW k \in 0..n, k # n, k \in S PROVE k + 1 \in S
  <2>1. PICK f : Upto(k, f)
    BY <1>2
  <2>2. f[k] \in V /\ step[k + 1][f[k]] \in V
    BY <2>1, <1>2
  <2> DEFINE g == [i \in 0..(k + 1) |-> IF i = k + 1 THEN step[k + 1][f[k]] ELSE f[i]]
  <2>3. g \in [0..(k + 1) -> V] /\ g[0] = base
    BY <2>1, <2>2
  <2>4. ASSUME NEW i \in 1..(k + 1) PROVE g[i] = step[i][g[i - 1]]
    BY <2>1, SMTT(30)
  <2>5. Upto(k + 1, g)
    BY <2>3, <2>4
  <2> HIDE DEF Upto, g
  <2> QED BY <2>5, <1>2
<1>3. n \in S
  <2>1. \A k \in 0..n : k # n /\ k \in S => k + 1 \in S
    BY <1>2
  <2>2. n \in 0..n
    OBVIOUS
  <2>3. \A k \in 0..n : k \in S
    <3> HIDE DEF S
    <3> QED BY <1>1, <2>1, Upwards, Zenon
  <2> QED BY <2>2, <2>3
<1>4. PICK f : Upto(n, f)
  BY <1>3
<1> QED BY <1>4 DEF Iterates

(* Numbers up to a bound have a greatest one.                              *)
LEMMA GreatestOf ==
    ASSUME NEW n \in Nat, NEW S \in SUBSET (0..n), S # {}
    PROVE  \E m \in S : \A i \in S : i <= m
<1> DEFINE less == {p \in Nat \X Nat : p[1] < p[2]}
           T == {n - i : i \in S}
<1>1. IsWellFoundedOn(less, Nat)
  BY NatLessThanWellFounded DEF OpToRel
<1>2. T \subseteq Nat /\ T # {}
  <2>1. \A i \in S : n - i \in Nat
    OBVIOUS
  <2>2. \E i \in S : TRUE
    OBVIOUS
  <2> QED BY <2>1, <2>2
<1>3. PICK t \in T : \A u \in T : <<u, t>> \notin less
  <2> HIDE DEF less, T
  <2> QED BY <1>1, <1>2, WFMin
<1>4. PICK m \in S : t = n - m
  OBVIOUS
<1>5. ASSUME NEW i \in S PROVE i <= m
  <2>1. n - i \in T /\ <<n - i, n - m>> \notin less
    BY <1>3, <1>4
  <2>2. n - i \in Nat /\ n - m \in Nat /\ ~(n - i < n - m)
    BY <2>1
  <2> QED BY <2>2
<1> QED BY <1>5

-----------------------------------------------------------------------------
LEMMA AsSequence ==
    ASSUME NEW X, NEW m \in Nat, NEW f \in [1..m -> X]
    PROVE  f \in Seq(X) /\ Len(f) = m /\ DOMAIN f = 1..m
OBVIOUS

LEMMA SameFunction ==
    ASSUME NEW X, NEW Y, NEW f \in [X -> Y], NEW g \in [X -> Y], \A x \in X : f[x] = g[x]
    PROVE  f = g
OBVIOUS

-----------------------------------------------------------------------------
(* A sequence of sequences laid end to end: every element comes from one   *)
(* place, row by row.                                                      *)
Flat(c, seqs, m, row, col) ==
    /\ \A x \in DOMAIN c : /\ row[x] \in 1..m /\ col[x] \in DOMAIN seqs[row[x]]
                           /\ c[x] = seqs[row[x]][col[x]]
    /\ \A x, y \in DOMAIN c :
         x < y => row[x] < row[y] \/ (row[x] = row[y] /\ col[x] < col[y])
    /\ \A i \in 1..m : \A j \in DOMAIN seqs[i] :
         \E x \in DOMAIN c : row[x] = i /\ col[x] = j

IsFlat(c, seqs, m) == \E row, col : Flat(c, seqs, m, row, col)

LEMMA FlatMore ==
    ASSUME NEW S, NEW seqs \in Seq(Seq(S)), NEW m \in Nat, m + 1 \in 1..Len(seqs),
           NEW c \in Seq(S), IsFlat(c, seqs, m)
    PROVE  c \o seqs[m + 1] \in Seq(S) /\ IsFlat(c \o seqs[m + 1], seqs, m + 1)
<1>1. PICK row, col : Flat(c, seqs, m, row, col)
  BY DEF IsFlat
<1>2. PICK s \in Seq(S) : s = seqs[m + 1]
  OBVIOUS
<1> DEFINE L == Len(c)
           d == c \o s
           row2 == [x \in DOMAIN d |-> IF x <= L THEN row[x] ELSE m + 1]
           col2 == [x \in DOMAIN d |-> IF x <= L THEN col[x] ELSE x - L]
<1>3. /\ d \in Seq(S) /\ L \in Nat /\ Len(s) \in Nat
      /\ DOMAIN d = 1..(L + Len(s)) /\ DOMAIN c = 1..L /\ DOMAIN s = 1..Len(s)
      /\ \A x \in 1..L : d[x] = c[x]
      /\ \A x \in DOMAIN d : x > L => x - L \in DOMAIN s /\ d[x] = s[x - L]
  OBVIOUS
<1> HIDE DEF L, d
<1>4. \A x \in DOMAIN d : /\ x <= L => x \in DOMAIN c /\ row2[x] = row[x] /\ col2[x] = col[x]
                          /\ x > L => row2[x] = m + 1 /\ col2[x] = x - L
  BY <1>3
<1> HIDE DEF row2, col2
<1>5. ASSUME NEW x \in DOMAIN d
      PROVE  /\ row2[x] \in 1..(m + 1) /\ col2[x] \in DOMAIN seqs[row2[x]]
             /\ d[x] = seqs[row2[x]][col2[x]]
  <2>1. CASE x <= L
    <3>1. /\ row[x] \in 1..m /\ col[x] \in DOMAIN seqs[row[x]]
          /\ c[x] = seqs[row[x]][col[x]]
      BY <1>1, <1>4, <2>1 DEF Flat
    <3> QED BY <1>3, <1>4, <2>1, <3>1, SMTT(30)
  <2>2. CASE x > L
    BY <1>2, <1>3, <1>4, <2>2, SMTT(30)
  <2> QED BY <2>1, <2>2, <1>3
<1>6. ASSUME NEW x \in DOMAIN d, NEW y \in DOMAIN d, x < y
      PROVE  row2[x] < row2[y] \/ (row2[x] = row2[y] /\ col2[x] < col2[y])
  <2>1. CASE y <= L
    <3>1. x <= L
      BY <1>3, <1>6, <2>1
    <3>2. row[x] < row[y] \/ (row[x] = row[y] /\ col[x] < col[y])
      BY <1>1, <1>4, <1>6, <2>1, <3>1 DEF Flat
    <3> QED BY <1>4, <2>1, <3>1, <3>2
  <2>2. CASE y > L /\ x <= L
    <3>1. row2[x] \in 1..m /\ row2[y] = m + 1
      BY <1>1, <1>4, <2>2 DEF Flat
    <3>2. row2[x] < row2[y]
      BY <3>1
    <3> QED BY <3>2
  <2>3. CASE y > L /\ x > L
    BY <1>3, <1>4, <1>6, <2>3
  <2> QED BY <2>1, <2>2, <2>3, <1>3
<1>7. ASSUME NEW i \in 1..(m + 1), NEW j \in DOMAIN seqs[i]
      PROVE  \E x \in DOMAIN d : row2[x] = i /\ col2[x] = j
  <2>1. CASE i = m + 1
    <3>1. j \in 1..Len(s) /\ L + j \in DOMAIN d /\ L + j > L /\ (L + j) - L = j
      BY <1>2, <1>3, <2>1
    <3> QED BY <1>4, <2>1, <3>1
  <2>2. CASE i # m + 1
    <3>1. PICK x \in DOMAIN c : row[x] = i /\ col[x] = j
      BY <1>1, <2>2 DEF Flat
    <3>2. x \in DOMAIN d /\ x <= L
      BY <1>3
    <3> QED BY <1>4, <3>1, <3>2
  <2> QED BY <2>1, <2>2
<1>8. Flat(d, seqs, m + 1, row2, col2)
  BY <1>5, <1>6, <1>7 DEF Flat
<1>9. IsFlat(d, seqs, m + 1)
  BY <1>8 DEF IsFlat
<1> QED BY <1>2, <1>3, <1>9 DEF d

LEMMA FlatNone ==
    ASSUME NEW seqs
    PROVE  IsFlat(<<>>, seqs, 0)
<1>1. Flat(<<>>, seqs, 0, <<>>, <<>>)
  BY DEF Flat
<1> QED BY <1>1 DEF IsFlat

(* Laying seqs end to end is joining one after the other. *)
Joins(f, seqs) == f[0] = <<>> /\ \A k \in 1..Len(seqs) : f[k] = f[k - 1] \o seqs[k]

LEMMA FlattenJoins ==
    ASSUME NEW S, NEW seqs \in Seq(Seq(S))
    PROVE  \E f \in [0..Len(seqs) -> Seq(S)] : Joins(f, seqs) /\ FlattenSeq(seqs) = f[Len(seqs)]
<1> DEFINE n == Len(seqs)
           F(f) == [i \in 1..n |-> IF i = 1 THEN seqs[i] ELSE f[i - 1] \o seqs[i]]
           G == CHOOSE f : f = F(f)
           V == Seq(S)
           step == [k \in 1..n |-> [c \in V |-> c \o seqs[k]]]
<1>1. n \in Nat /\ <<>> \in V /\ \A k \in 1..n : seqs[k] \in V
  OBVIOUS
<1>2. step \in [1..n -> [V -> V]]
  BY <1>1
<1>3. PICK f \in [0..n -> V] : Iterates(f, n, <<>>, step)
  <2> HIDE DEF V, step, n
  <2> QED BY <1>1, <1>2, Recursion
<1>4. \A k \in 1..n : f[k] = f[k - 1] \o seqs[k]
  <2>1. SUFFICES ASSUME NEW k \in 1..n PROVE f[k] = f[k - 1] \o seqs[k]
    OBVIOUS
  <2>2. f[k - 1] \in V
    <3>1. k - 1 \in 0..n
      BY <1>1
    <3> HIDE DEF V
    <3> QED BY <3>1
  <2>3. f[k] = step[k][f[k - 1]]
    BY <1>3 DEF Iterates
  <2> QED BY <2>2, <2>3
<1>5. Joins(f, seqs)
  BY <1>3, <1>4 DEF Joins, Iterates
<1>6. CASE n = 0
  <2>1. FlattenSeq(seqs) = seqs /\ seqs = <<>>
    BY <1>6 DEF FlattenSeq
  <2>2. FlattenSeq(seqs) = f[n]
    BY <1>5, <1>6, <2>1 DEF Joins
  <2> QED BY <1>5, <2>2
<1>7. CASE n # 0
  <2>1. f[1] = seqs[1]
    <3>1. 1 \in 1..n /\ f[0] = <<>> /\ 1 - 1 = 0
      BY <1>1, <1>5, <1>7 DEF Joins
    <3>2. f[1] = <<>> \o seqs[1] /\ seqs[1] \in Seq(S)
      BY <1>1, <1>4, <3>1
    <3> QED BY <3>2
  <2> DEFINE g == [i \in 1..n |-> f[i]]
  <2>2. g = F(g)
    <3>1. ASSUME NEW i \in 1..n PROVE g[i] = F(g)[i]
      <4>1. CASE i = 1
        BY <2>1, <4>1
      <4>2. CASE i # 1
        <5>1. i - 1 \in 1..n
          BY <1>1, <4>2
        <5> QED BY <1>4, <4>2, <5>1
      <4> QED BY <4>1, <4>2
    <3> QED BY <3>1
  <2>3. G = F(G)
    <3> HIDE DEF F, g
    <3> QED BY <2>2
  <2>4. FlattenSeq(seqs) = G[n]
    BY <1>7, Zenon DEF FlattenSeq
  <2> DEFINE T == {k \in 0..n : k = 0 \/ G[k] = f[k]}
  <2>5. ASSUME NEW k \in 0..n, k # n, k \in T PROVE k + 1 \in T
    <3>1. k + 1 \in 1..n /\ k \in Nat /\ k + 1 \in 0..n
      BY <1>1, <2>5
    <3>2. G[k + 1] = IF k + 1 = 1 THEN seqs[k + 1] ELSE G[(k + 1) - 1] \o seqs[k + 1]
      <4> HIDE DEF G
      <4> QED BY <2>3, <3>1
    <3> HIDE DEF G
    <3>3. CASE k = 0
      BY <2>1, <3>1, <3>2, <3>3
    <3>4. CASE k # 0
      <4>1. k + 1 # 1 /\ (k + 1) - 1 = k /\ G[k] = f[k]
        BY <2>5, <3>1, <3>4
      <4>2. G[k + 1] = f[k] \o seqs[k + 1]
        <5> HIDE DEF T, F
        <5> QED BY <3>2, <4>1
      <4>3. f[k + 1] = f[k] \o seqs[k + 1]
        <5> HIDE DEF T, F
        <5> QED BY <1>4, <3>1, <4>1
      <4> HIDE DEF F
      <4> QED BY <3>1, <4>2, <4>3
    <3> QED BY <3>3, <3>4
  <2>6. \A k \in 0..n : k \in T
    <3>1. 0 \in T /\ \A k \in 0..n : k # n /\ k \in T => k + 1 \in T
      BY <1>1, <2>5
    <3> HIDE DEF T, n
    <3> QED BY <1>1, <3>1, Upwards
  <2>7. n \in 0..n
    BY <1>1
  <2> HIDE DEF G, n
  <2>8. FlattenSeq(seqs) = f[n]
    BY <1>7, <2>4, <2>6, <2>7
  <2> QED BY <1>5, <2>8 DEF n
<1> QED BY <1>6, <1>7

LEMMA Flattened ==
    ASSUME NEW S, NEW seqs \in Seq(Seq(S))
    PROVE  FlattenSeq(seqs) \in Seq(S) /\ IsFlat(FlattenSeq(seqs), seqs, Len(seqs))
<1>1. PICK n \in Nat : n = Len(seqs)
  OBVIOUS
<1>2. PICK f \in [0..n -> Seq(S)] : Joins(f, seqs) /\ FlattenSeq(seqs) = f[n]
  BY <1>1, FlattenJoins
<1> DEFINE T == {k \in 0..n : f[k] \in Seq(S) /\ IsFlat(f[k], seqs, k)}
<1>3. 0 \in T
  <2>1. f[0] = <<>> /\ <<>> \in Seq(S) /\ IsFlat(<<>>, seqs, 0)
    BY <1>2, FlatNone DEF Joins
  <2> QED BY <2>1
<1>4. ASSUME NEW k \in 0..n, k # n, k \in T PROVE k + 1 \in T
  <2>1. k \in Nat /\ k + 1 \in 1..n /\ k + 1 \in 0..n /\ (k + 1) - 1 = k
    BY <1>4
  <2>2. f[k + 1] = f[k] \o seqs[k + 1]
    BY <1>1, <1>2, <2>1 DEF Joins
  <2>3. f[k] \in Seq(S) /\ IsFlat(f[k], seqs, k)
    BY <1>4
  <2>4. f[k] \o seqs[k + 1] \in Seq(S) /\ IsFlat(f[k] \o seqs[k + 1], seqs, k + 1)
    BY <1>1, <2>1, <2>3, FlatMore
  <2> QED BY <2>1, <2>2, <2>4
<1>5. \A k \in 0..n : k \in T
  <2>1. \A k \in 0..n : k # n /\ k \in T => k + 1 \in T
    BY <1>4
  <2> HIDE DEF T
  <2> QED BY <1>3, <2>1, Upwards
<1>6. n \in 0..n
  OBVIOUS
<1> QED BY <1>1, <1>2, <1>5, <1>6

(* When all rows have w elements, element j of row i is at (i - 1) * w + j. *)
Even(c, seqs, w, m) ==
    /\ Len(c) = m * w
    /\ \A i \in 1..m : \A j \in 1..w : c[(i - 1) * w + j] = seqs[i][j]

LEMMA EvenMore ==
    ASSUME NEW S, NEW seqs, NEW w \in Nat, NEW m \in Nat, NEW c \in Seq(S), NEW s \in Seq(S),
           Even(c, seqs, w, m), s = seqs[m + 1], Len(s) = w
    PROVE  c \o s \in Seq(S) /\ Even(c \o s, seqs, w, m + 1)
<1> DEFINE d == c \o s
<1>1. PICK p \in Nat : p = m * w
  OBVIOUS
<1>2. (m + 1) * w = p + w
  BY <1>1
<1>3. /\ d \in Seq(S) /\ Len(d) = p + w /\ Len(c) = p
      /\ \A x \in 1..p : d[x] = c[x]
      /\ \A j \in 1..w : d[p + j] = s[j]
  <2>1. Len(c) = p
    BY <1>1 DEF Even
  <2>2. PICK q \in Nat : q = Len(s) /\ q = w
    OBVIOUS
  <2>3. d \in Seq(S) /\ Len(d) = p + q /\ \A x \in 1..p : d[x] = c[x]
    BY <2>1, <2>2
  <2>4. ASSUME NEW j \in 1..q PROVE d[p + j] = s[j]
    <3>1. p + j \in 1..(Len(c) + Len(s)) /\ p + j > Len(c) /\ (p + j) - Len(c) = j
      BY <2>1, <2>2
    <3> QED BY <3>1
  <2> QED BY <2>1, <2>2, <2>3, <2>4
<1>4. ASSUME NEW i \in 1..(m + 1), NEW j \in 1..w PROVE d[(i - 1) * w + j] = seqs[i][j]
  <2>1. CASE i = m + 1
    <3>1. (i - 1) * w = p
      BY <1>1, <2>1
    <3> QED BY <1>3, <2>1, <3>1
  <2>2. CASE i # m + 1
    <3>1. i \in 1..m /\ i - 1 \in Nat
      BY <2>2
    <3>2. PICK x \in Nat : x = (i - 1) * w
      BY <3>1
    <3>3. x + w = i * w /\ i * w <= m * w
      BY <3>1, <3>2
    <3>4. x + j \in 1..p
      BY <1>1, <3>2, <3>3
    <3>5. c[x + j] = seqs[i][j]
      BY <3>1, <3>2 DEF Even
    <3> QED BY <1>3, <3>2, <3>4, <3>5
  <2> QED BY <2>1, <2>2
<1> HIDE DEF d
<1>5. Even(d, seqs, w, m + 1)
  BY <1>2, <1>3, <1>4 DEF Even
<1> QED BY <1>3, <1>5 DEF d

LEMMA FlattenEven ==
    ASSUME NEW S, NEW seqs \in Seq(Seq(S)), NEW w \in Nat, \A i \in 1..Len(seqs) : Len(seqs[i]) = w
    PROVE  FlattenSeq(seqs) \in Seq(S) /\ Even(FlattenSeq(seqs), seqs, w, Len(seqs))
<1>1. PICK n \in Nat : n = Len(seqs)
  OBVIOUS
<1>2. PICK f \in [0..n -> Seq(S)] : Joins(f, seqs) /\ FlattenSeq(seqs) = f[n]
  BY <1>1, FlattenJoins
<1> DEFINE T == {k \in 0..n : f[k] \in Seq(S) /\ Even(f[k], seqs, w, k)}
<1>3. 0 \in T
  <2>1. f[0] = <<>> /\ <<>> \in Seq(S) /\ Len(<<>>) = 0 * w
    BY <1>2 DEF Joins
  <2>2. Even(<<>>, seqs, w, 0)
    BY <2>1 DEF Even
  <2> QED BY <2>1, <2>2
<1>4. ASSUME NEW k \in 0..n, k # n, k \in T PROVE k + 1 \in T
  <2>1. k \in Nat /\ k + 1 \in 1..n /\ k + 1 \in 0..n /\ (k + 1) - 1 = k
    BY <1>4
  <2>2. PICK s \in Seq(S) : s = seqs[k + 1] /\ Len(s) = w
    BY <1>1, <2>1
  <2>3. f[k + 1] = f[k] \o s
    BY <1>1, <1>2, <2>1, <2>2 DEF Joins
  <2>4. PICK c \in Seq(S) : c = f[k] /\ Even(c, seqs, w, k)
    BY <1>4
  <2>5. c \o s \in Seq(S) /\ Even(c \o s, seqs, w, k + 1)
    BY <2>1, <2>2, <2>4, EvenMore
  <2> QED BY <2>1, <2>3, <2>4, <2>5
<1>5. \A k \in 0..n : k \in T
  <2>1. \A k \in 0..n : k # n /\ k \in T => k + 1 \in T
    BY <1>4
  <2> HIDE DEF T
  <2> QED BY <1>3, <2>1, Upwards
<1>6. n \in 0..n
  OBVIOUS
<1> QED BY <1>1, <1>2, <1>5, <1>6

-----------------------------------------------------------------------------
(* A sequence that runs once through the values of the nodes in G, and one *)
(* that does so in the order of the list.                                  *)
Runs(s, l, G, row, col) ==
    /\ \A x \in DOMAIN s : /\ row[x] \in G /\ col[x] \in DOMAIN l[row[x]].vals
                           /\ row[x] \in Nat /\ col[x] \in Nat
                           /\ s[x] = l[row[x]].vals[col[x]]
    /\ \A x, y \in DOMAIN s : row[x] = row[y] /\ col[x] = col[y] => x = y
    /\ \A i \in G : \A j \in DOMAIN l[i].vals : \E x \in DOMAIN s : row[x] = i /\ col[x] = j

InOrder(s, row, col) ==
    \A x, y \in DOMAIN s :
        x < y => row[x] < row[y] \/ (row[x] = row[y] /\ col[x] < col[y])

(* f pairs the places of two such sequences. *)
Pairs(s, t, f) ==
    /\ \A x \in DOMAIN s : f[x] \in DOMAIN t /\ t[f[x]] = s[x]
    /\ \A x, y \in DOMAIN s : f[x] = f[y] => x = y
    /\ \A y \in DOMAIN t : \E x \in DOMAIN s : f[x] = y

Paired(s, t, row, col, row2, col2) ==
    \E f \in [DOMAIN s -> DOMAIN t] :
        Pairs(s, t, f) /\ \A x \in DOMAIN s : row2[f[x]] = row[x] /\ col2[f[x]] = col[x]

LEMMA RunsPair ==
    ASSUME NEW s, NEW t, NEW l, NEW G, NEW row, NEW col, NEW row2, NEW col2,
           Runs(s, l, G, row, col), Runs(t, l, G, row2, col2)
    PROVE  Paired(s, t, row, col, row2, col2)
<1>1. \A x \in DOMAIN s : \E y \in DOMAIN t : row2[y] = row[x] /\ col2[y] = col[x]
  BY DEF Runs
<1> DEFINE f == [x \in DOMAIN s |-> CHOOSE y \in DOMAIN t : row2[y] = row[x] /\ col2[y] = col[x]]
<1>2. \A x \in DOMAIN s : f[x] \in DOMAIN t /\ row2[f[x]] = row[x] /\ col2[f[x]] = col[x]
  BY <1>1
<1>3. f \in [DOMAIN s -> DOMAIN t]
  BY <1>2
<1> HIDE DEF f
<1>4. \A x \in DOMAIN s : t[f[x]] = s[x]
  BY <1>2 DEF Runs
<1>5. \A x, y \in DOMAIN s : f[x] = f[y] => x = y
  <2>1. \A x, y \in DOMAIN s : f[x] = f[y] => row[x] = row[y] /\ col[x] = col[y]
    BY <1>2
  <2> QED BY <2>1 DEF Runs
<1>6. ASSUME NEW y \in DOMAIN t PROVE \E x \in DOMAIN s : f[x] = y
  <2>1. row2[y] \in G /\ col2[y] \in DOMAIN l[row2[y]].vals
    BY DEF Runs
  <2>2. PICK x \in DOMAIN s : row[x] = row2[y] /\ col[x] = col2[y]
    BY <2>1 DEF Runs
  <2>3. row2[f[x]] = row2[y] /\ col2[f[x]] = col2[y] /\ f[x] \in DOMAIN t
    BY <1>2, <2>2
  <2>4. f[x] = y
    BY <2>3 DEF Runs
  <2> QED BY <2>4
<1>7. Pairs(s, t, f)
  BY <1>2, <1>4, <1>5, <1>6 DEF Pairs
<1> QED BY <1>2, <1>3, <1>7 DEF Paired

LEMMA PairsAlike ==
    ASSUME NEW S, NEW s \in Seq(S), NEW t \in Seq(S), NEW f \in [DOMAIN s -> DOMAIN t],
           Pairs(s, t, f)
    PROVE  ToSet(s) = ToSet(t) /\ Len(s) = Len(t)
<1>1. ToSet(s) = ToSet(t)
  <2>1. \A v : (\E x \in DOMAIN s : s[x] = v) <=> (\E y \in DOMAIN t : t[y] = v)
    BY DEF Pairs
  <2> QED BY <2>1 DEF ToSet
<1>2. PICK m \in Nat, n \in Nat : m = Len(s) /\ n = Len(t)
  OBVIOUS
<1>3. DOMAIN s = 1..m /\ DOMAIN t = 1..n
  BY <1>2
<1>4. f \in Bijection(1..m, 1..n)
  BY <1>3 DEF Pairs, Bijection, Injection, Surjection, IsInjective
<1>5. ExistsBijection(1..m, 1..n)
  BY <1>4 DEF ExistsBijection
<1>6. /\ IsFiniteSet(1..m) /\ Cardinality(1..m) = m
      /\ IsFiniteSet(1..n) /\ Cardinality(1..n) = n
  <2>1. ASSUME NEW k \in Nat PROVE IsFiniteSet(1..k) /\ Cardinality(1..k) = k
    <3>1. 1 \in Int /\ k \in Int
      OBVIOUS
    <3>2. IsFiniteSet(1..k) /\ Cardinality(1..k) = IF 1 > k THEN 0 ELSE k - 1 + 1
      BY <3>1, FS_Interval
    <3> QED BY <3>2
  <2> QED BY <2>1
<1>7. Cardinality(1..m) = Cardinality(1..n)
  BY <1>5, <1>6, FS_Bijection
<1> QED BY <1>1, <1>2, <1>6, <1>7

LEMMA OrderedAlike ==
    ASSUME NEW S, NEW s \in Seq(S), NEW t \in Seq(S), NEW l, NEW G,
           NEW row, NEW col, NEW row2, NEW col2,
           Runs(s, l, G, row, col), Runs(t, l, G, row2, col2),
           InOrder(s, row, col), InOrder(t, row2, col2)
    PROVE  s = t
<1>1. PICK f \in [DOMAIN s -> DOMAIN t] :
          /\ Pairs(s, t, f)
          /\ \A x \in DOMAIN s : row2[f[x]] = row[x] /\ col2[f[x]] = col[x]
  <2>1. Paired(s, t, row, col, row2, col2)
    BY RunsPair
  <2> QED BY <2>1 DEF Paired
<1>2. PICK n \in Nat : /\ n = Len(s) /\ n = Len(t) /\ DOMAIN s = 1..n /\ DOMAIN t = 1..n
  <2>1. Len(s) = Len(t)
    BY <1>1, PairsAlike
  <2> QED BY <2>1
<1>3. ASSUME NEW x \in 1..n, NEW y \in 1..n, x < y PROVE f[x] < f[y]
  <2>1. row[x] < row[y] \/ (row[x] = row[y] /\ col[x] < col[y])
    BY <1>2, <1>3 DEF InOrder
  <2>2. /\ f[x] \in 1..n /\ f[y] \in 1..n /\ row2[f[x]] = row[x] /\ col2[f[x]] = col[x]
        /\ row2[f[y]] = row[y] /\ col2[f[y]] = col[y]
    BY <1>1, <1>2
  <2>3. row[x] \in Nat /\ row[y] \in Nat /\ col[x] \in Nat /\ col[y] \in Nat
    BY <1>2 DEF Runs
  <2>4. f[x] # f[y]
    BY <2>1, <2>2, <2>3, SMTT(30)
  <2>5. f[y] < f[x] => row2[f[y]] < row2[f[x]] \/ (row2[f[y]] = row2[f[x]] /\ col2[f[y]] < col2[f[x]])
    BY <1>2, <2>2 DEF InOrder
  <2>6. ~(f[y] < f[x])
    BY <2>1, <2>2, <2>3, <2>5, SMTT(30)
  <2> QED BY <2>2, <2>4, <2>6
<1>4. \A x \in 1..n : f[x] \in 1..n /\ t[f[x]] = s[x]
  BY <1>1, <1>2 DEF Pairs
<1>5. /\ \A x, y \in 1..n : f[x] = f[y] => x = y
      /\ \A y \in 1..n : \E x \in 1..n : f[x] = y
  BY <1>1, <1>2 DEF Pairs
<1> DEFINE M == {x \in 1..n : f[x] # x}
<1>6. M = {}
  <2>1. SUFFICES ASSUME M # {} PROVE FALSE
    OBVIOUS
  <2>2. M \in SUBSET Nat
    OBVIOUS
  <2>3. PICK x \in M : \A i \in M : x <= i
    <3> HIDE DEF M
    <3> QED BY <2>1, <2>2, LeastOf
  <2>4. x \in 1..n /\ f[x] # x /\ \A i \in 1..n : i < x => f[i] = i
    BY <2>3
  <2>5. PICK y \in 1..n : f[y] = x
    BY <1>5, <2>4
  <2>6. y > x
    BY <2>4, <2>5
  <2>7. f[x] < x
    BY <1>3, <2>4, <2>5, <2>6
  <2>8. f[x] \in 1..n /\ f[f[x]] = f[x]
    BY <1>4, <2>4, <2>7
  <2> QED BY <1>5, <2>4, <2>8
<1>7. \A x \in 1..n : f[x] = x
  BY <1>6
<1>8. \A x \in 1..n : s[x] = t[x]
  BY <1>4, <1>7
<1> QED BY <1>2, <1>8

(* The values of the nodes in G, laid end to end, run through them in order. *)
LEMMA FlatRuns ==
    ASSUME NEW S, NEW n \in Nat, NEW l, \A i \in 1..n : l[i].vals \in Seq(S),
           NEW G \in SUBSET (1..n), NEW seqs,
           seqs = [i \in 1..n |-> IF i \in G THEN l[i].vals ELSE <<>>]
    PROVE  /\ FlattenSeq(seqs) \in Seq(S)
           /\ \E row, col : /\ Runs(FlattenSeq(seqs), l, G, row, col)
                            /\ InOrder(FlattenSeq(seqs), row, col)
<1>1. \A i \in 1..n : seqs[i] = IF i \in G THEN l[i].vals ELSE <<>>
  OBVIOUS
<1>2. \A i \in 1..n : seqs[i] \in Seq(S)
  BY <1>1
<1>3. seqs \in [1..n -> Seq(S)]
  BY <1>2
<1>4. seqs \in Seq(Seq(S)) /\ Len(seqs) = n
  BY <1>3, AsSequence
<1>5. PICK a : a = FlattenSeq(seqs) /\ a \in Seq(S) /\ IsFlat(a, seqs, n)
  BY <1>4, Flattened
<1>6. PICK row, col : Flat(a, seqs, n, row, col)
  BY <1>5 DEF IsFlat
<1>7. \A i \in 1..n : \A j \in DOMAIN seqs[i] :
          i \in G /\ j \in DOMAIN l[i].vals /\ j \in Nat /\ seqs[i][j] = l[i].vals[j]
  <2>1. \A i \in 1..n : DOMAIN l[i].vals = 1..Len(l[i].vals) /\ Len(l[i].vals) \in Nat
    OBVIOUS
  <2>2. DOMAIN << >> = {}
    OBVIOUS
  <2> QED BY <1>1, <2>1, <2>2
<1>8. \A x \in DOMAIN a : /\ row[x] \in 1..n /\ col[x] \in DOMAIN seqs[row[x]]
                          /\ a[x] = seqs[row[x]][col[x]]
  BY <1>6 DEF Flat
<1>9. \A x \in DOMAIN a : /\ row[x] \in G /\ col[x] \in DOMAIN l[row[x]].vals
                          /\ row[x] \in Nat /\ col[x] \in Nat
                          /\ a[x] = l[row[x]].vals[col[x]]
  BY <1>7, <1>8
<1>10. InOrder(a, row, col)
  BY <1>6 DEF Flat, InOrder
<1>11. \A x, y \in DOMAIN a : row[x] = row[y] /\ col[x] = col[y] => x = y
  <2>1. SUFFICES ASSUME NEW x \in DOMAIN a, NEW y \in DOMAIN a, row[x] = row[y], col[x] = col[y],
                        x # y
                 PROVE  FALSE
    OBVIOUS
  <2>2. row[x] \in Nat /\ col[x] \in Nat /\ row[y] \in Nat /\ col[y] \in Nat
    BY <1>9
  <2>3. x < y \/ y < x
    BY <1>5, <2>1
  <2> QED BY <1>10, <2>1, <2>2, <2>3 DEF InOrder
<1>12. \A i \in G : \A j \in DOMAIN l[i].vals : \E x \in DOMAIN a : row[x] = i /\ col[x] = j
  <2>1. SUFFICES ASSUME NEW i \in G, NEW j \in DOMAIN l[i].vals
                 PROVE  \E x \in DOMAIN a : row[x] = i /\ col[x] = j
    OBVIOUS
  <2>2. i \in 1..n /\ j \in DOMAIN seqs[i]
    BY <1>1
  <2> QED BY <1>6, <2>2 DEF Flat
<1>13. Runs(a, l, G, row, col)
  BY <1>9, <1>11, <1>12 DEF Runs
<1> QED BY <1>5, <1>10, <1>13

(* A sequence that runs in order through the values of the nodes j to e. *)
Lists(s, l, j, e) ==
    \E row, col : Runs(s, l, j..e, row, col) /\ InOrder(s, row, col)

LEMMA ListsNone ==
    ASSUME NEW l, NEW j \in Nat, NEW e \in Nat, e < j
    PROVE  Lists(<<>>, l, j, e)
<1>1. j..e = {} /\ DOMAIN << >> = {}
  OBVIOUS
<1>2. Runs(<<>>, l, j..e, <<>>, <<>>) /\ InOrder(<<>>, <<>>, <<>>)
  BY <1>1 DEF Runs, InOrder
<1> QED BY <1>2 DEF Lists

LEMMA ListsMore ==
    ASSUME NEW S, NEW l, NEW j \in Nat, NEW e \in Nat, j <= e, l[j].vals \in Seq(S),
           NEW s \in Seq(S), Lists(s, l, j + 1, e)
    PROVE  l[j].vals \o s \in Seq(S) /\ Lists(l[j].vals \o s, l, j, e)
<1>1. PICK row, col : Runs(s, l, (j + 1)..e, row, col) /\ InOrder(s, row, col)
  BY DEF Lists
<1>2. PICK v \in Seq(S) : v = l[j].vals
  OBVIOUS
<1> DEFINE L == Len(v)
           d == v \o s
           row2 == [x \in DOMAIN d |-> IF x <= L THEN j ELSE row[x - L]]
           col2 == [x \in DOMAIN d |-> IF x <= L THEN x ELSE col[x - L]]
<1>3. /\ d \in Seq(S) /\ L \in Nat /\ Len(s) \in Nat
      /\ DOMAIN d = 1..(L + Len(s)) /\ DOMAIN v = 1..L /\ DOMAIN s = 1..Len(s)
      /\ \A x \in 1..L : d[x] = v[x]
      /\ \A x \in DOMAIN d : x > L => x - L \in DOMAIN s /\ d[x] = s[x - L]
  OBVIOUS
<1> HIDE DEF L, d
<1>4. \A x \in DOMAIN d :
          /\ x <= L => x \in DOMAIN v /\ row2[x] = j /\ col2[x] = x
          /\ x > L => x - L \in DOMAIN s /\ row2[x] = row[x - L] /\ col2[x] = col[x - L]
  BY <1>3
<1>5. \A y \in DOMAIN s : L + y \in DOMAIN d /\ L + y > L /\ (L + y) - L = y
  BY <1>3
<1> HIDE DEF row2, col2
<1>6. \A y \in DOMAIN s : /\ row[y] \in (j + 1)..e /\ col[y] \in DOMAIN l[row[y]].vals
                          /\ row[y] \in Nat /\ col[y] \in Nat
                          /\ s[y] = l[row[y]].vals[col[y]]
  BY <1>1 DEF Runs
<1>7. ASSUME NEW x \in DOMAIN d
      PROVE  /\ row2[x] \in j..e /\ col2[x] \in DOMAIN l[row2[x]].vals
             /\ row2[x] \in Nat /\ col2[x] \in Nat
             /\ d[x] = l[row2[x]].vals[col2[x]]
  <2>1. CASE x <= L
    <3>1. x \in 1..L /\ row2[x] = j /\ col2[x] = x /\ d[x] = v[x] /\ j \in j..e
      BY <1>3, <1>4, <2>1
    <3> QED BY <1>2, <1>3, <3>1
  <2>2. CASE x > L
    <3>1. PICK y \in DOMAIN s : y = x - L /\ row2[x] = row[y] /\ col2[x] = col[y] /\ d[x] = s[y]
      BY <1>3, <1>4, <2>2
    <3>2. \A m \in (j + 1)..e : m \in j..e
      OBVIOUS
    <3> QED BY <1>6, <3>1, <3>2
  <2> QED BY <2>1, <2>2, <1>3
<1>8. ASSUME NEW x \in DOMAIN d, NEW y \in DOMAIN d, x < y
      PROVE  row2[x] < row2[y] \/ (row2[x] = row2[y] /\ col2[x] < col2[y])
  <2>1. CASE y <= L
    <3>1. x <= L
      BY <1>3, <1>8, <2>1
    <3> QED BY <1>4, <1>8, <2>1, <3>1
  <2>2. CASE y > L /\ x <= L
    <3>1. row2[x] = j /\ row2[y] \in (j + 1)..e
      BY <1>4, <1>6, <2>2
    <3>2. row2[x] < row2[y]
      BY <3>1
    <3> QED BY <3>2
  <2>3. CASE y > L /\ x > L
    <3>1. x - L \in DOMAIN s /\ y - L \in DOMAIN s /\ x - L < y - L
      BY <1>3, <1>4, <1>8, <2>3
    <3>2. row[x - L] < row[y - L] \/ (row[x - L] = row[y - L] /\ col[x - L] < col[y - L])
      BY <1>1, <3>1 DEF InOrder
    <3> QED BY <1>4, <2>3, <3>2
  <2> QED BY <2>1, <2>2, <2>3, <1>3
<1>9. ASSUME NEW x \in DOMAIN d, NEW y \in DOMAIN d, row2[x] = row2[y], col2[x] = col2[y]
      PROVE  x = y
  <2>1. /\ row2[x] \in Nat /\ col2[x] \in Nat /\ row2[y] \in Nat /\ col2[y] \in Nat
    BY <1>7
  <2>2. ~(x < y) /\ ~(y < x)
    BY <1>8, <1>9, <2>1
  <2> QED BY <1>3, <2>2
<1>10. ASSUME NEW i \in j..e, NEW m \in DOMAIN l[i].vals
       PROVE  \E x \in DOMAIN d : row2[x] = i /\ col2[x] = m
  <2>1. CASE i = j
    <3>1. m \in 1..L
      BY <1>2, <1>3, <2>1
    <3>2. m \in DOMAIN d /\ m <= L
      BY <1>3, <3>1
    <3> QED BY <1>4, <2>1, <3>2
  <2>2. CASE i # j
    <3>1. i \in (j + 1)..e
      BY <2>2
    <3>2. PICK y \in DOMAIN s : row[y] = i /\ col[y] = m
      BY <1>1, <3>1 DEF Runs
    <3>3. L + y \in DOMAIN d /\ row2[L + y] = i /\ col2[L + y] = m
      BY <1>4, <1>5, <3>2
    <3> QED BY <3>3
  <2> QED BY <2>1, <2>2
<1>11. Runs(d, l, j..e, row2, col2) /\ InOrder(d, row2, col2)
  BY <1>7, <1>8, <1>9, <1>10 DEF Runs, InOrder
<1>12. Lists(d, l, j, e)
  BY <1>11 DEF Lists
<1> QED BY <1>2, <1>3, <1>12 DEF d

-----------------------------------------------------------------------------
(* Inserting and removing at a place shifts what is behind it.             *)
LEMMA InsertAtShifts ==
    ASSUME NEW S, NEW s \in Seq(S), NEW e \in S, NEW p \in 1..(Len(s) + 1)
    PROVE  /\ InsertAt(s, p, e) \in Seq(S)
           /\ DOMAIN InsertAt(s, p, e) = 1..(Len(s) + 1)
           /\ \A i \in 1..(Len(s) + 1) :
                InsertAt(s, p, e)[i] = IF i < p THEN s[i] ELSE IF i = p THEN e ELSE s[i - 1]
<1> DEFINE n == Len(s)
           before == SubSeq(s, 1, p - 1)
           after == SubSeq(s, p, n)
           new == InsertAt(s, p, e)
<1>1. /\ new \in Seq(S) /\ before \in Seq(S) /\ after \in Seq(S) /\ <<e>> \in Seq(S)
      /\ Len(new) = Len(before) + 1 + Len(after)
      /\ Len(before) = p - 1 /\ Len(after) = n - p + 1
  BY DEF InsertAt
<1>2. Len(new) = n + 1 /\ DOMAIN new = 1..(n + 1)
  <2> HIDE DEF before, after, new
  <2> QED BY <1>1
<1>3. ASSUME NEW i \in 1..(n + 1)
      PROVE  new[i] = IF i < p THEN s[i] ELSE IF i = p THEN e ELSE s[i - 1]
  <2> i \in 1..(Len(before) + 1 + Len(after))
    BY <1>1, <1>2, Zenon
  <2>1. new = (before \o <<e>>) \o after
    BY DEF InsertAt
  <2>2. /\ \A k \in 1..(p - 1) : before[k] = s[k]
        /\ \A k \in 1..(n - p + 1) : after[k] = s[p + k - 1]
    OBVIOUS
  <2> HIDE DEF before, after, new
  <2>3. CASE i < p
    BY <1>1, <2>1, <2>2, <2>3
  <2>4. CASE i = p
    BY <1>1, <2>1, <2>4, SMTT(30)
  <2>5. CASE i > p
    <3>1. i - p \in 1..(n - p + 1) /\ Len(before \o <<e>>) = p
      BY <1>1, <2>5
    <3>2. new[i] = after[i - p]
      <4> DEFINE upTo == before \o <<e>>
      <4>1. upTo \in Seq(S) /\ Len(upTo) = p /\ new = upTo \o after
        BY <1>1, <2>1, <3>1, ConcatProperties
      <4> HIDE DEF upTo
      <4>2. i \in 1..(Len(upTo) + Len(after)) /\ ~(i <= Len(upTo))
        BY <1>1, <2>5, <3>1, <4>1
      <4>3. (upTo \o after)[i] = after[i - Len(upTo)]
        BY <1>1, <4>1, <4>2, ConcatProperties
      <4> QED BY <4>1, <4>3
    <3>3. after[i - p] = s[p + (i - p) - 1] /\ p + (i - p) - 1 = i - 1
      BY <2>2, <3>1
    <3> QED BY <2>5, <3>2, <3>3
  <2> QED BY <2>3, <2>4, <2>5
<1> QED BY <1>1, <1>2, <1>3

(* RemoveAt moves the nodes after p one place back. *)
LEMMA RemoveAtShifts ==
    ASSUME NEW S, NEW s \in Seq(S), NEW p \in 1..Len(s)
    PROVE  /\ RemoveAt(s, p) \in Seq(S)
           /\ DOMAIN RemoveAt(s, p) = 1..(Len(s) - 1)
           /\ \A i \in 1..(Len(s) - 1) :
                RemoveAt(s, p)[i] = IF i < p THEN s[i] ELSE s[i + 1]
<1> DEFINE n == Len(s)
           before == SubSeq(s, 1, p - 1)
           after == SubSeq(s, p + 1, n)
           new == RemoveAt(s, p)
<1>1. /\ new \in Seq(S) /\ Len(new) = Len(before) + Len(after)
      /\ Len(before) = p - 1 /\ Len(after) = n - p
  BY DEF RemoveAt
<1>2. Len(new) = n - 1 /\ DOMAIN new = 1..(n - 1)
  <2> HIDE DEF before, after, new
  <2> QED BY <1>1
<1>3. ASSUME NEW i \in 1..(n - 1), i < p PROVE new[i] = s[i]
  <2> i \in 1..(Len(before) + Len(after))
    BY <1>1, <1>2, Zenon
  <2> QED BY <1>1, <1>3, ConcatProperties, SubSeqProperties DEF RemoveAt
<1>4. ASSUME NEW i \in 1..(n - 1), i >= p PROVE new[i] = s[i + 1]
  <2> i \in 1..(Len(before) + Len(after))
    BY <1>1, <1>2, Zenon
  <2> QED BY <1>1, <1>4, ConcatProperties, SubSeqProperties DEF RemoveAt
<1> HIDE DEF new
<1>5. \A i \in 1..(n - 1) : new[i] = IF i < p THEN s[i] ELSE s[i + 1]
  BY <1>3, <1>4
<1> QED BY <1>1, <1>2, <1>5 DEF new

=============================================================================
