------------------------- MODULE CompoundIndexProofs ------------------------
(***************************************************************************)
(* For every set of ids and tuples, every comparator that is a strict      *)
(* total order and every sequence of change sets: the reverse index and    *)
(* the skip list of a compound index agree until a key chunk is freed that *)
(* a node points at, and on a UNIQUE index that never happens.             *)
(***************************************************************************)
EXTENDS CompoundIndex, Listings

-----------------------------------------------------------------------------
(* What the operators of NodeList.tla return, for lists of any length.     *)

(* skiplistNodeAppendValue of a value that is not there adds it, and only  *)
(* it, and keeps the values of the node distinct.                          *)
LEMMA AppendValueAdds ==
    ASSUME NEW S, NEW vals \in Seq(S), NEW v \in S, IsInjective(vals),
           v \notin ToSet(vals)
    PROVE  /\ AppendValue(vals, v) \in Seq(S)
           /\ IsInjective(AppendValue(vals, v))
           /\ ToSet(AppendValue(vals, v)) = ToSet(vals) \cup {v}
BY DEF AppendValue, IsInjective, ToSet

(* skiplistDelete leaves a list of values. *)
LEMMA RemoveValueType ==
    ASSUME NEW S, NEW vals \in Seq(S), NEW v
    PROVE  RemoveValue(vals, v) \in Seq(S)
BY DEF RemoveValue, ToSet

(* The swap of skiplistDelete removes the value, and only it, from a node  *)
(* whose values are distinct, and keeps them distinct.                     *)
LEMMA RemoveValueRemoves ==
    ASSUME NEW S, NEW vals \in Seq(S), NEW v, IsInjective(vals), v \in ToSet(vals)
    PROVE  /\ RemoveValue(vals, v) \in Seq(S)
           /\ Len(RemoveValue(vals, v)) = Len(vals) - 1
           /\ IsInjective(RemoveValue(vals, v))
           /\ ToSet(RemoveValue(vals, v)) = ToSet(vals) \ {v}
<1> DEFINE n == Len(vals)
           at == CHOOSE j \in DOMAIN vals : vals[j] = v
           s == [vals EXCEPT ![at] = vals[n]]
           r == SubSeq(s, 1, n - 1)
<1>1. at \in 1..n /\ vals[at] = v /\ n \in Nat /\ n >= 1
  BY DEF ToSet
<1>a. /\ s \in Seq(S) /\ Len(s) = n
      /\ \A j \in 1..n : s[j] = IF j = at THEN vals[n] ELSE vals[j]
  BY <1>1, ExceptSeq
<1>b. \A j \in 1..(n - 1) : s[j] \in S
  BY <1>1, <1>a
<1>2. /\ r \in Seq(S) /\ Len(r) = n - 1 /\ DOMAIN r = 1..(n - 1) /\ DOMAIN vals = 1..n
      /\ \A j \in 1..(n - 1) : r[j] = IF j = at THEN vals[n] ELSE vals[j]
  <2> HIDE DEF s, at
  <2>1. /\ r \in Seq(S) /\ Len(r) = n - 1 /\ \A j \in 1..(n - 1) : r[j] = s[j]
    BY <1>1, <1>a
  <2> HIDE DEF r
  <2> QED BY <1>1, <1>a, <2>1
<1> HIDE DEF r, s, at
<1>3. IsInjective(r)
  BY <1>1, <1>2 DEF IsInjective
<1>4. ToSet(r) = ToSet(vals) \ {v}
  <2>1. \A x \in ToSet(r) : x \in ToSet(vals) /\ x # v
    BY <1>1, <1>2 DEF IsInjective, ToSet
  <2>2. ASSUME NEW x \in ToSet(vals), x # v PROVE x \in ToSet(r)
    <3>1. PICK j \in 1..n : vals[j] = x
      BY <1>2 DEF ToSet
    <3>2. CASE j = n
      <4>1. at # n /\ at \in 1..(n - 1)
        BY <1>1, <2>2, <3>1, <3>2
      <4>2. at \in DOMAIN r /\ r[at] = x
        BY <1>2, <3>1, <3>2, <4>1
      <4> QED BY <4>2 DEF ToSet
    <3>3. CASE j < n
      <4>1. j \in 1..(n - 1) /\ j # at
        BY <1>1, <2>2, <3>1, <3>3
      <4>2. j \in DOMAIN r /\ r[j] = x
        BY <1>2, <3>1, <4>1
      <4> QED BY <4>2 DEF ToSet
    <3> QED BY <3>1, <3>2, <3>3
  <2> QED BY <2>1, <2>2
<1> QED BY <1>2, <1>3, <1>4 DEF RemoveValue, r, s, at

Ascending(keys) == \A i, j \in DOMAIN keys : i < j => Lt(keys[i], keys[j])

(* On ascending keys the search loop stops between the smaller and the     *)
(* larger keys; a key that is there is hit, and at its place.              *)
LEMMA LandingSplits ==
    ASSUME NEW keys \in Seq(Tuple), Ascending(keys), NEW k \in Tuple,
           NEW p \in Landings(keys, k)
    PROVE  /\ p \in 1..(Len(keys) + 1)
           /\ \A j \in 1..Len(keys) :
                /\ j < p => Lt(keys[j], k)
                /\ j > p => Lt(k, keys[j])
                /\ j = p /\ ~Hit(keys, p, k) => Lt(k, keys[j])
                /\ keys[j] = k => j = p /\ Hit(keys, p, k)
<1>1. p \in 1..(Len(keys) + 1)
  BY DEF Landings
<1> SUFFICES ASSUME NEW j \in 1..Len(keys)
             PROVE  /\ j < p => Lt(keys[j], k)
                    /\ j > p => Lt(k, keys[j])
                    /\ j = p /\ ~Hit(keys, p, k) => Lt(k, keys[j])
                    /\ keys[j] = k => j = p /\ Hit(keys, p, k)
  BY <1>1
<1>2. keys[j] \in Tuple
  OBVIOUS
<1>3. j < p => Lt(keys[j], k)
  <2> SUFFICES ASSUME j < p PROVE Lt(keys[j], k)
    OBVIOUS
  <2>1. p - 1 \in 1..Len(keys) /\ Lt(keys[p - 1], k) /\ keys[p - 1] \in Tuple
    BY <1>1 DEF Landings
  <2>2. j = p - 1 \/ Lt(keys[j], keys[p - 1])
    BY <1>1, <2>1 DEF Ascending
  <2> QED BY <1>2, <2>1, <2>2, LtAssumption
<1>4. p <= Len(keys) => keys[p] \in Tuple /\ (keys[p] = k \/ Lt(k, keys[p]))
  BY <1>1, LtAssumption DEF Landings
<1>5. j > p => Lt(k, keys[j])
  <2> SUFFICES ASSUME j > p PROVE Lt(k, keys[j])
    OBVIOUS
  <2>1. p \in 1..Len(keys) /\ Lt(keys[p], keys[j])
    BY <1>1 DEF Ascending
  <2> QED BY <1>2, <1>4, <2>1, LtAssumption
<1>6. j = p /\ ~Hit(keys, p, k) => Lt(k, keys[j])
  BY <1>4 DEF Hit
<1>7. keys[j] = k => j = p /\ Hit(keys, p, k)
  BY <1>1, <1>3, <1>5, LtAssumption DEF Hit
<1> QED BY <1>3, <1>5, <1>6, <1>7

-----------------------------------------------------------------------------
(* One value in every node, as on a UNIQUE index. *)
Single(l) == \A i \in DOMAIN l : Len(l[i].vals) = 1

(* Each id of r has a key chunk of its own. *)
Keyed(m, r) == IsInjective(r) /\ \A id \in DOMAIN r : m[r[id]] \in Tuple

Memory == [Addr -> Tuple \cup {NoKey}]

(* The keys a search sees, as a sequence. *)
LEMMA DerefSeq ==
    ASSUME NEW l \in Seq(Node), NEW m, NEW T, \A i \in DOMAIN l : m[l[i].obj] \in T
    PROVE  /\ Deref(l, m) \in Seq(T)
           /\ Len(Deref(l, m)) = Len(l)
           /\ DOMAIN l = 1..Len(l) /\ Len(l) \in Nat
           /\ \A i \in 1..Len(l) : Deref(l, m)[i] = m[l[i].obj]
BY DEF Deref, Node

(* The parts of a node. *)
LEMMA NodeFields ==
    ASSUME NEW l \in Seq(Node), NEW i \in DOMAIN l
    PROVE  l[i] \in Node /\ l[i].obj \in Addr /\ l[i].vals \in Seq(Id)
<1>1. l[i] \in Node
  OBVIOUS
<1> QED BY <1>1 DEF Node

(* Whatever the keys, an insert or a delete leaves a list of nodes. *)
LEMMA ListTyped ==
    ASSUME NEW l \in Seq(Node), NEW m \in Memory, NEW k, NEW a \in Addr, NEW id \in Id,
           NEW p \in Landings(Deref(l, m), k)
    PROVE  /\ ListInsert(l, Deref(l, m), p, k, a, id) \in Seq(Node)
           /\ ListDelete(l, Deref(l, m), p, k, id) \in Seq(Node)
<1> DEFINE keys == Deref(l, m)
<1>1. Len(keys) = Len(l) /\ DOMAIN l = 1..Len(l) /\ Len(l) \in Nat
  <2>1. \A i \in DOMAIN l : m[l[i].obj] \in Tuple \cup {NoKey}
    BY NodeFields DEF Memory
  <2> QED BY <2>1, DerefSeq
<1>2. p \in 1..(Len(l) + 1)
  BY <1>1 DEF Landings
<1> HIDE DEF keys
<1>3. [obj |-> a, vals |-> <<id>>] \in Node
  BY DEF Node
<1>4. CASE Hit(keys, p, k)
  <2>1. p \in 1..Len(l) /\ l[p] \in Node /\ l[p].vals \in Seq(Id)
    BY <1>1, <1>2, <1>4, NodeFields DEF Hit
  <2>2. AppendValue(l[p].vals, id) \in Seq(Id) /\ RemoveValue(l[p].vals, id) \in Seq(Id)
    BY <2>1, RemoveValueType DEF AppendValue
  <2>3. ASSUME NEW v \in Seq(Id) PROVE [l EXCEPT ![p].vals = v] \in Seq(Node)
    <3>1. [l[p] EXCEPT !.vals = v] \in Node
      BY <2>1 DEF Node
    <3>2. [l EXCEPT ![p].vals = v] = [l EXCEPT ![p] = [l[p] EXCEPT !.vals = v]]
      BY <2>1
    <3> QED BY <2>1, <3>1, <3>2, ExceptSeq
  <2>4. RemoveAt(l, p) \in Seq(Node)
    BY <2>1, RemoveAtShifts
  <2> QED BY <1>4, <2>2, <2>3, <2>4 DEF ListInsert, ListDelete, keys
<1>5. CASE ~Hit(keys, p, k)
  BY <1>2, <1>3, <1>5, InsertAtShifts DEF ListInsert, ListDelete, keys
<1> QED BY <1>4, <1>5
-----------------------------------------------------------------------------
(* In a consistent index every node points at a tuple, in ascending order. *)
LEMMA ConsistentKeys ==
    ASSUME NEW l \in Seq(Node), NEW m, NEW r, Keyed(m, r), Consistent(l, m, r)
    PROVE  /\ DOMAIN l = 1..Len(l) /\ Len(l) \in Nat
           /\ Deref(l, m) \in Seq(Tuple) /\ Len(Deref(l, m)) = Len(l)
           /\ \A i \in 1..Len(l) : Deref(l, m)[i] = m[l[i].obj] /\ m[l[i].obj] \in Tuple
           /\ Ascending(Deref(l, m))
<1>1. \A i \in DOMAIN l : m[l[i].obj] \in Tuple
  BY DEF Consistent, NodesOwned, Keyed
<1>2. /\ DOMAIN l = 1..Len(l) /\ Len(l) \in Nat
      /\ Deref(l, m) \in Seq(Tuple) /\ Len(Deref(l, m)) = Len(l)
      /\ \A i \in 1..Len(l) : Deref(l, m)[i] = m[l[i].obj]
  BY <1>1, DerefSeq
<1>3. Ascending(Deref(l, m))
  BY <1>2 DEF Ascending, Consistent, Sorted, Deref
<1> QED BY <1>1, <1>2, <1>3

(* The search for an id's key stops at the one node that holds the id.     *)
LEMMA IdFound ==
    ASSUME NEW l \in Seq(Node), NEW m, NEW r, Keyed(m, r), Consistent(l, m, r),
           NEW id \in DOMAIN r, NEW p \in Landings(Deref(l, m), m[r[id]])
    PROVE  /\ p \in DOMAIN l /\ Hit(Deref(l, m), p, m[r[id]])
           /\ \A i \in DOMAIN l : id \in ToSet(l[i].vals) <=> i = p
<1> DEFINE keys == Deref(l, m)
           k == m[r[id]]
<1>1. /\ DOMAIN l = 1..Len(l) /\ keys \in Seq(Tuple) /\ Len(keys) = Len(l)
      /\ \A i \in 1..Len(l) : keys[i] = m[l[i].obj]
      /\ Ascending(keys)
  BY ConsistentKeys
<1>2. k \in Tuple
  BY DEF Keyed
<1>3. PICK q \in DOMAIN l : id \in ToSet(l[q].vals)
  BY DEF Consistent, Agreement
<1>4. \A i \in DOMAIN l : id \in ToSet(l[i].vals) => keys[i] = k
  BY <1>1 DEF Consistent, Agreement
<1> HIDE DEF keys, k
<1>5. \A i \in 1..Len(keys) : keys[i] = k => i = p /\ Hit(keys, p, k)
  BY <1>1, <1>2, LandingSplits DEF keys, k
<1> QED BY <1>1, <1>3, <1>4, <1>5 DEF keys, k

(* l2 is what is left of l when id has been taken out of it. *)
Departed(l, l2, m, r, id) ==
    /\ Sorted(l2, m)
    /\ Agreement(l2, m, Forget(r, id))
    /\ ~PointsAt(l2, r[id]) => NodesOwned(l2, Forget(r, id))
    /\ Single(l) => Single(l2) /\ ~PointsAt(l2, r[id])
    /\ \A i \in DOMAIN l2 : \E j \in DOMAIN l : l2[i].obj = l[j].obj

(* skiplistDelete(oldkey, id) takes the id out of a consistent index.  The *)
(* nodes left are all owned by an id they hold, unless one still points at *)
(* the id's key, which never happens when every node holds one id.         *)
LEMMA DeleteStep ==
    ASSUME NEW l \in Seq(Node), NEW m, NEW r, Keyed(m, r), Consistent(l, m, r),
           NEW id \in DOMAIN r, NEW p \in Landings(Deref(l, m), m[r[id]])
    PROVE  Departed(l, ListDelete(l, Deref(l, m), p, m[r[id]], id), m, r, id)
<1> DEFINE l2 == ListDelete(l, Deref(l, m), p, m[r[id]], id)
           r2 == Forget(r, id)
           n == Len(l)
           rest == RemoveValue(l[p].vals, id)
<1>1. /\ DOMAIN l = 1..n /\ n \in Nat /\ p \in 1..n
      /\ \A i \in 1..n : id \in ToSet(l[i].vals) <=> i = p
  <2>1. DOMAIN l = 1..n /\ n \in Nat
    OBVIOUS
  <2>2. p \in DOMAIN l /\ \A i \in DOMAIN l : id \in ToSet(l[i].vals) <=> i = p
    BY IdFound
  <2> QED BY <2>1, <2>2
<1>2. /\ DOMAIN r2 = DOMAIN r \ {id} /\ \A x \in DOMAIN r2 : r2[x] = r[x]
  BY DEF Forget, Restrict
<1>3. l[p].vals \in Seq(Id) /\ IsInjective(l[p].vals)
  BY <1>1, NodeFields DEF Consistent, NodesOwned
<1>4. /\ rest \in Seq(Id) /\ Len(rest) = Len(l[p].vals) - 1 /\ IsInjective(rest)
      /\ ToSet(rest) = ToSet(l[p].vals) \ {id}
  BY <1>1, <1>3, RemoveValueRemoves
<1>5. l2 = IF rest = <<>> THEN RemoveAt(l, p) ELSE [l EXCEPT ![p].vals = rest]
  BY IdFound DEF ListDelete
<1>6. \A i \in 1..n : \E x \in ToSet(l[i].vals) : x \in DOMAIN r /\ r[x] = l[i].obj
  BY <1>1 DEF Consistent, NodesOwned
<1> HIDE DEF l2, r2, n, rest
<1>7. CASE rest = <<>>
  <2> DEFINE o(i) == IF i < p THEN i ELSE i + 1
  <2>1. /\ DOMAIN l2 = 1..(n - 1)
        /\ \A i \in 1..(n - 1) : o(i) \in 1..n /\ o(i) # p /\ l2[i] = l[o(i)]
        /\ \A i, j \in 1..(n - 1) : i < j => o(i) < o(j)
    BY <1>1, <1>5, <1>7, RemoveAtShifts DEF n
  <2>2. \A j \in 1..n : j # p => \E i \in 1..(n - 1) : o(i) = j
    <3> SUFFICES ASSUME NEW j \in 1..n, j # p PROVE \E i \in 1..(n - 1) : o(i) = j
      OBVIOUS
    <3>1. CASE j < p
      <4>1. j \in 1..(n - 1) /\ o(j) = j
        BY <1>1, <3>1
      <4> QED BY <4>1
    <3>2. CASE j > p
      <4>1. j - 1 \in 1..(n - 1) /\ o(j - 1) = j
        BY <1>1, <3>2
      <4> QED BY <4>1
    <3> QED BY <1>1, <3>1, <3>2
  <2>3. ToSet(l[p].vals) \subseteq {id}
    <3>1. ToSet(rest) = {}
      BY <1>7 DEF ToSet
    <3> QED BY <1>4, <3>1
  <2> HIDE DEF o
  <2>4. Sorted(l2, m)
    BY <1>1, <2>1 DEF Consistent, Sorted
  <2>5. NodesOwned(l2, r2)
    <3> SUFFICES ASSUME NEW i \in 1..(n - 1)
                 PROVE  /\ IsInjective(l2[i].vals)
                        /\ \E x \in ToSet(l2[i].vals) : x \in DOMAIN r2 /\ r2[x] = l2[i].obj
      BY <2>1 DEF NodesOwned
    <3>1. o(i) \in 1..n /\ o(i) # p /\ l2[i] = l[o(i)]
      BY <2>1
    <3>2. IsInjective(l[o(i)].vals)
      BY <1>1, <3>1 DEF Consistent, NodesOwned
    <3>3. PICK x \in ToSet(l[o(i)].vals) : x \in DOMAIN r /\ r[x] = l[o(i)].obj
      BY <1>6, <3>1
    <3>4. x # id
      BY <1>1, <3>1
    <3> QED BY <1>2, <3>1, <3>2, <3>3, <3>4
  <2>6. Agreement(l2, m, r2)
    <3>1. ASSUME NEW x \in DOMAIN r2 PROVE \E i \in DOMAIN l2 : x \in ToSet(l2[i].vals)
      <4>1. PICK j \in 1..n : x \in ToSet(l[j].vals)
        BY <1>1, <1>2 DEF Consistent, Agreement
      <4>2. j # p
        BY <1>2, <2>3, <4>1
      <4> QED BY <2>1, <2>2, <4>1, <4>2
    <3>2. \A i \in DOMAIN l2 : \A x \in ToSet(l2[i].vals) :
             x \in DOMAIN r2 /\ m[r2[x]] = m[l2[i].obj]
      BY <1>1, <1>2, <2>1 DEF Consistent, Agreement
    <3> QED BY <3>1, <3>2 DEF Agreement
  <2>7. ~PointsAt(l2, r[id])
    BY <1>1, <1>6, <2>1 DEF PointsAt, Keyed, IsInjective
  <2>8. Single(l) => Single(l2)
    BY <1>1, <2>1 DEF Single
  <2>9. \A i \in DOMAIN l2 : \E j \in DOMAIN l : l2[i].obj = l[j].obj
    BY <1>1, <2>1
  <2> QED BY <2>4, <2>5, <2>6, <2>7, <2>8, <2>9 DEF l2, r2, Departed
<1>8. CASE rest # <<>>
  <2>1. /\ DOMAIN l2 = 1..n
        /\ \A i \in 1..n : l2[i].obj = l[i].obj
        /\ \A i \in 1..n : i # p => l2[i] = l[i]
        /\ l2[p].vals = rest
    <3>1. /\ DOMAIN l2 = 1..n /\ l2[p] = [l[p] EXCEPT !.vals = rest]
          /\ \A i \in 1..n : i # p => l2[i] = l[i]
      BY <1>1, <1>5, <1>8
    <3>2. l[p] \in Node
      BY <1>1, NodeFields
    <3> QED BY <1>1, <3>1, <3>2 DEF Node
  <2>2. Sorted(l2, m)
    BY <1>1, <2>1 DEF Consistent, Sorted
  <2>3. Agreement(l2, m, r2)
    <3>1. \A i \in 1..n : ToSet(l2[i].vals) = ToSet(l[i].vals) \ {id}
      BY <1>1, <1>4, <2>1
    <3>2. ASSUME NEW x \in DOMAIN r2 PROVE \E i \in DOMAIN l2 : x \in ToSet(l2[i].vals)
      BY <1>1, <1>2, <2>1, <3>1 DEF Consistent, Agreement
    <3>3. ASSUME NEW i \in 1..n, NEW x \in ToSet(l2[i].vals)
          PROVE  x \in DOMAIN r2 /\ m[r2[x]] = m[l2[i].obj]
      <4>1. x \in ToSet(l[i].vals) /\ x # id
        BY <3>1
      <4>2. x \in DOMAIN r /\ m[r[x]] = m[l[i].obj]
        BY <1>1, <4>1 DEF Consistent, Agreement
      <4> QED BY <1>2, <2>1, <4>1, <4>2
    <3> QED BY <2>1, <3>2, <3>3 DEF Agreement
  <2>4. ~PointsAt(l2, r[id]) => NodesOwned(l2, r2)
    <3> SUFFICES ASSUME ~PointsAt(l2, r[id]), NEW i \in 1..n
                 PROVE  /\ IsInjective(l2[i].vals)
                        /\ \E x \in ToSet(l2[i].vals) : x \in DOMAIN r2 /\ r2[x] = l2[i].obj
      BY <2>1 DEF NodesOwned
    <3>1. IsInjective(l2[i].vals)
      BY <1>1, <1>4, <2>1 DEF Consistent, NodesOwned
    <3>2. PICK x \in ToSet(l[i].vals) : x \in DOMAIN r /\ r[x] = l[i].obj
      BY <1>6
    <3>3. x # id
      BY <2>1, <3>2 DEF PointsAt
    <3>4. x \in ToSet(l2[i].vals)
      BY <1>4, <2>1, <3>2, <3>3
    <3> QED BY <1>2, <2>1, <3>1, <3>2, <3>3, <3>4
  <2>5. ~Single(l)
    <3>1. Len(rest) # 0
      BY <1>4, <1>8, EmptySeq
    <3> QED BY <1>1, <1>4, <3>1 DEF Single
  <2>6. \A i \in DOMAIN l2 : \E j \in DOMAIN l : l2[i].obj = l[j].obj
    BY <1>1, <2>1
  <2> QED BY <2>2, <2>3, <2>4, <2>5, <2>6 DEF l2, r2, Departed
<1> QED BY <1>7, <1>8

(* Memory that no node and no id uses does not matter. *)
LEMMA Frame ==
    ASSUME NEW l, NEW m, NEW r, Keyed(m, r), Consistent(l, m, r), NEW m2,
           \A i \in DOMAIN l : m2[l[i].obj] = m[l[i].obj],
           \A x \in DOMAIN r : m2[r[x]] = m[r[x]]
    PROVE  Keyed(m2, r) /\ Consistent(l, m2, r)
<1>1. Sorted(l, m2)
  BY DEF Consistent, Sorted
<1>2. Agreement(l, m2, r)
  BY DEF Consistent, Agreement
<1> QED BY <1>1, <1>2 DEF Consistent, Keyed

(* skiplistInsert of a key chunk nobody uses, for an id the index does not *)
(* hold, keeps the index consistent; a node gets a second id only if the   *)
(* tuple was there.                                                        *)
LEMMA InsertStep ==
    ASSUME NEW l \in Seq(Node), NEW m, NEW r, Keyed(m, r), Consistent(l, m, r),
           NEW id \in Id, id \notin DOMAIN r,
           NEW a \in Addr, a \notin Range(r),
           NEW t \in Tuple, m[a] = t,
           NEW p \in Landings(Deref(l, m), t)
    PROVE  /\ Keyed(m, Bind(r, id, a))
           /\ Consistent(ListInsert(l, Deref(l, m), p, t, a, id), m, Bind(r, id, a))
           /\ Single(l) /\ ~Hit(Deref(l, m), p, t) => Single(ListInsert(l, Deref(l, m), p, t, a, id))
<1> DEFINE n == Len(l)
           keys == Deref(l, m)
           new == [obj |-> a, vals |-> <<id>>]
           l2 == ListInsert(l, Deref(l, m), p, t, a, id)
           r2 == Bind(r, id, a)
<1>0. DOMAIN r2 = DOMAIN r \cup {id} /\ r2[id] = a /\ \A x \in DOMAIN r : r2[x] = r[x]
  BY DEF Bind
<1> HIDE DEF r2
<1>1. /\ DOMAIN l = 1..n /\ n \in Nat /\ p \in 1..(n + 1)
      /\ keys \in Seq(Tuple) /\ Len(keys) = n
      /\ \A i \in 1..n : keys[i] = m[l[i].obj] /\ m[l[i].obj] \in Tuple
      /\ Ascending(keys)
  BY ConsistentKeys, LandingSplits
<1>2. \A j \in 1..n : /\ j < p => Lt(m[l[j].obj], t)
                      /\ j > p => Lt(t, m[l[j].obj])
                      /\ j = p /\ ~Hit(keys, p, t) => Lt(t, m[l[j].obj])
  <2> HIDE DEF keys, n
  <2>1. \A j \in 1..Len(keys) : /\ j < p => Lt(keys[j], t)
                                /\ j > p => Lt(t, keys[j])
                                /\ j = p /\ ~Hit(keys, p, t) => Lt(t, keys[j])
    BY <1>1, LandingSplits DEF keys
  <2> QED BY <1>1, <2>1
<1>3. Keyed(m, r2)
  BY <1>0 DEF Keyed, IsInjective, Range
<1>4. \A i \in 1..n : id \notin ToSet(l[i].vals)
  BY <1>1 DEF Consistent, Agreement
<1>5. \A i \in 1..n : \E x \in ToSet(l[i].vals) : x \in DOMAIN r /\ r[x] = l[i].obj
  BY <1>1 DEF Consistent, NodesOwned
<1>6. l2 = IF Hit(keys, p, t) THEN [l EXCEPT ![p].vals = AppendValue(l[p].vals, id)]
                              ELSE InsertAt(l, p, new)
  BY DEF ListInsert
<1>7. \A x \in DOMAIN r : \E i \in 1..n : x \in ToSet(l[i].vals)
  BY <1>1 DEF Consistent, Agreement
<1>8. \A i \in 1..n : \A x \in ToSet(l[i].vals) : x \in DOMAIN r /\ m[r[x]] = m[l[i].obj]
  BY <1>1 DEF Consistent, Agreement
<1> HIDE DEF n, keys, new, l2
<1>9. CASE Hit(keys, p, t)
  <2>1. p \in 1..n /\ m[l[p].obj] = t
    BY <1>1, <1>9 DEF Hit
  <2>2. /\ IsInjective(AppendValue(l[p].vals, id))
        /\ ToSet(AppendValue(l[p].vals, id)) = ToSet(l[p].vals) \cup {id}
    <3>1. l[p].vals \in Seq(Id) /\ IsInjective(l[p].vals)
      BY <1>1, <2>1, NodeFields DEF Consistent, NodesOwned
    <3> QED BY <1>4, <2>1, <3>1, AppendValueAdds
  <2>3. /\ DOMAIN l2 = 1..n
        /\ \A i \in 1..n : l2[i].obj = l[i].obj
        /\ \A i \in 1..n : i # p => l2[i] = l[i]
        /\ l2[p].vals = AppendValue(l[p].vals, id)
    <3>1. /\ DOMAIN l2 = 1..n /\ l2[p] = [l[p] EXCEPT !.vals = AppendValue(l[p].vals, id)]
          /\ \A i \in 1..n : i # p => l2[i] = l[i]
      BY <1>1, <1>6, <1>9, <2>1
    <3>2. l[p] \in Node
      BY <1>1, <2>1, NodeFields
    <3> QED BY <2>1, <3>1, <3>2 DEF Node
  <2>4. \A i \in 1..n : ToSet(l2[i].vals) = ToSet(l[i].vals) \cup (IF i = p THEN {id} ELSE {})
    BY <2>2, <2>3
  <2>5. Sorted(l2, m)
    BY <1>1, <2>3 DEF Consistent, Sorted
  <2>6. NodesOwned(l2, r2)
    <3>1. \A i \in 1..n : IsInjective(l2[i].vals)
      BY <1>1, <2>2, <2>3 DEF Consistent, NodesOwned
    <3>2. ASSUME NEW i \in 1..n
          PROVE  \E x \in ToSet(l2[i].vals) : x \in DOMAIN r2 /\ r2[x] = l2[i].obj
      <4>1. PICK x \in ToSet(l[i].vals) : x \in DOMAIN r /\ r[x] = l[i].obj
        BY <1>5
      <4> QED BY <1>0, <2>3, <2>4, <4>1
    <3> QED BY <2>3, <3>1, <3>2 DEF NodesOwned
  <2>7. Agreement(l2, m, r2)
    <3>1. ASSUME NEW x \in DOMAIN r2 PROVE \E i \in 1..n : x \in ToSet(l2[i].vals)
      <4>1. CASE x = id
        BY <2>1, <2>4, <4>1
      <4>2. CASE x \in DOMAIN r
        BY <1>0, <1>7, <2>4, <4>2
      <4> QED BY <1>0, <4>1, <4>2
    <3>2. ASSUME NEW i \in 1..n, NEW x \in ToSet(l2[i].vals)
          PROVE  x \in DOMAIN r2 /\ m[r2[x]] = m[l2[i].obj]
      <4>1. CASE x \in ToSet(l[i].vals)
        BY <1>0, <1>8, <2>3, <4>1
      <4>2. CASE x \notin ToSet(l[i].vals)
        <5>1. x = id /\ i = p
          BY <2>4, <4>2
        <5> QED BY <1>0, <2>1, <2>3, <5>1
      <4> QED BY <1>0, <4>1, <4>2
    <3> QED BY <2>3, <3>1, <3>2 DEF Agreement
  <2> QED BY <1>3, <1>9, <2>5, <2>6, <2>7 DEF Consistent, keys, l2, r2
<1>10. CASE ~Hit(keys, p, t)
  <2> DEFINE o(i) == IF i < p THEN i ELSE i - 1
  <2>1. /\ DOMAIN l2 = 1..(n + 1) /\ l2[p] = new
        /\ \A i \in 1..(n + 1) : i # p => o(i) \in 1..n /\ l2[i] = l[o(i)]
    <3>1. new \in Node
      BY DEF new, Node
    <3>2. /\ DOMAIN l2 = 1..(n + 1)
          /\ \A i \in 1..(n + 1) :
               l2[i] = IF i < p THEN l[i] ELSE IF i = p THEN new ELSE l[i - 1]
      <4>1. l2 = InsertAt(l, p, new)
        BY <1>6, <1>10
      <4>2. p \in 1..(Len(l) + 1)
        BY <1>1 DEF n
      <4>3. /\ DOMAIN InsertAt(l, p, new) = 1..(Len(l) + 1)
            /\ \A i \in 1..(Len(l) + 1) :
                 InsertAt(l, p, new)[i] = IF i < p THEN l[i] ELSE IF i = p THEN new ELSE l[i - 1]
        BY <3>1, <4>2, InsertAtShifts
      <4> QED BY <4>1, <4>3 DEF n
    <3> QED BY <1>1, <3>2
  <2>2. \A j \in 1..n : \E i \in 1..(n + 1) : i # p /\ o(i) = j
    <3> SUFFICES ASSUME NEW j \in 1..n PROVE \E i \in 1..(n + 1) : i # p /\ o(i) = j
      OBVIOUS
    <3>1. CASE j < p
      <4>1. j \in 1..(n + 1) /\ j # p /\ o(j) = j
        BY <1>1, <3>1
      <4> QED BY <4>1
    <3>2. CASE j >= p
      <4>1. j + 1 \in 1..(n + 1) /\ j + 1 # p /\ o(j + 1) = j
        BY <1>1, <3>2
      <4> QED BY <4>1
    <3> QED BY <1>1, <3>1, <3>2
  <2>3. \A i, j \in 1..(n + 1) : i < j => /\ i # p /\ j # p => o(i) < o(j)
                                          /\ j = p => o(i) < p
                                          /\ i = p => o(j) >= p
    BY <1>1
  <2>4. ToSet(new.vals) = {id} /\ new.obj = a /\ IsInjective(new.vals) /\ Len(new.vals) = 1
    BY DEF new, ToSet, IsInjective
  <2> HIDE DEF o
  <2>5. Sorted(l2, m)
    <3> SUFFICES ASSUME NEW i \in 1..(n + 1), NEW j \in 1..(n + 1), i < j
                 PROVE  Lt(m[l2[i].obj], m[l2[j].obj])
      BY <2>1 DEF Sorted
    <3>1. CASE i # p /\ j # p
      BY <1>1, <2>1, <2>3, <3>1 DEF Consistent, Sorted
    <3>2. CASE j = p
      <4>1. o(i) \in 1..n /\ o(i) < p /\ l2[i] = l[o(i)] /\ m[l2[j].obj] = t
        BY <2>1, <2>3, <2>4, <3>2
      <4> QED BY <1>2, <4>1
    <3>3. CASE i = p
      <4>1. o(j) \in 1..n /\ o(j) >= p /\ l2[j] = l[o(j)] /\ m[l2[i].obj] = t
        BY <2>1, <2>3, <2>4, <3>3
      <4> QED BY <1>1, <1>2, <1>10, <4>1
    <3> QED BY <3>1, <3>2, <3>3
  <2>6. NodesOwned(l2, r2)
    <3> SUFFICES ASSUME NEW i \in 1..(n + 1)
                 PROVE  /\ IsInjective(l2[i].vals)
                        /\ \E x \in ToSet(l2[i].vals) : x \in DOMAIN r2 /\ r2[x] = l2[i].obj
      BY <2>1 DEF NodesOwned
    <3>1. CASE i = p
      BY <1>0, <2>1, <2>4, <3>1
    <3>2. CASE i # p
      <4>1. o(i) \in 1..n /\ l2[i] = l[o(i)]
        BY <2>1, <3>2
      <4>2. IsInjective(l[o(i)].vals)
        BY <1>1, <4>1 DEF Consistent, NodesOwned
      <4>3. PICK x \in ToSet(l[o(i)].vals) : x \in DOMAIN r /\ r[x] = l[o(i)].obj
        BY <1>5, <4>1
      <4> QED BY <1>0, <4>1, <4>2, <4>3
    <3> QED BY <3>1, <3>2
  <2>7. Agreement(l2, m, r2)
    <3>1. ASSUME NEW x \in DOMAIN r2 PROVE \E i \in 1..(n + 1) : x \in ToSet(l2[i].vals)
      <4>1. CASE x = id
        BY <1>1, <2>1, <2>4, <4>1
      <4>2. CASE x \in DOMAIN r
        <5>1. PICK j \in 1..n : x \in ToSet(l[j].vals)
          BY <1>7, <4>2
        <5>2. PICK i \in 1..(n + 1) : i # p /\ o(i) = j
          BY <2>2
        <5> QED BY <2>1, <5>1, <5>2
      <4> QED BY <1>0, <4>1, <4>2
    <3>2. ASSUME NEW i \in 1..(n + 1), NEW x \in ToSet(l2[i].vals)
          PROVE  x \in DOMAIN r2 /\ m[r2[x]] = m[l2[i].obj]
      <4>1. CASE i = p
        BY <1>0, <2>1, <2>4, <3>2, <4>1
      <4>2. CASE i # p
        BY <1>0, <1>8, <2>1, <3>2, <4>2
      <4> QED BY <1>0, <4>1, <4>2
    <3> QED BY <2>1, <3>1, <3>2 DEF Agreement
  <2>8. Single(l) => Single(l2)
    <3> SUFFICES ASSUME Single(l), NEW i \in 1..(n + 1) PROVE Len(l2[i].vals) = 1
      BY <2>1 DEF Single
    <3>1. CASE i = p
      BY <2>1, <2>4, <3>1
    <3>2. CASE i # p
      BY <1>1, <2>1, <3>2 DEF Single
    <3> QED BY <3>1, <3>2
  <2> QED BY <1>3, <2>5, <2>6, <2>7, <2>8 DEF Consistent, l2, r2
<1> QED BY <1>9, <1>10
-----------------------------------------------------------------------------
(* The inductive invariant: the invariants the runs check, together.       *)
IInv ==
    /\ TypeOK
    /\ KeysOwned
    /\ ConsistentUntilTainted
    /\ UniqueHoldsOnePerTuple
    /\ UniqueDropReleases

(* An id owns the chunk its key is in. *)
LEMMA KeysOwnedKeyed == KeysOwned => Keyed(mem, ri)
BY DEF KeysOwned, Keyed

(* One id per node makes one id per tuple. *)
LEMMA SingleIsUnique ==
    ASSUME NEW l \in Seq(Node), NEW m, NEW r, Keyed(m, r), Consistent(l, m, r), Single(l),
           NEW x \in DOMAIN r, NEW y \in DOMAIN r, m[r[x]] = m[r[y]]
    PROVE  x = y
<1>1. /\ DOMAIN l = 1..Len(l) /\ Len(l) \in Nat
      /\ \A i \in 1..Len(l) : m[l[i].obj] \in Tuple
  BY ConsistentKeys
<1>2. PICK i \in 1..Len(l) : x \in ToSet(l[i].vals) /\ m[l[i].obj] = m[r[x]]
  BY <1>1 DEF Consistent, Agreement
<1>3. PICK j \in 1..Len(l) : y \in ToSet(l[j].vals) /\ m[l[j].obj] = m[r[y]]
  BY <1>1 DEF Consistent, Agreement
<1>4. i = j
  <2>1. ~(i < j) /\ ~(j < i)
    BY <1>1, <1>2, <1>3, LtAssumption DEF Consistent, Sorted
  <2> QED BY <1>1, <2>1
<1>5. l[i].vals \in Seq(Id) /\ Len(l[i].vals) = 1
  BY <1>1, NodeFields DEF Single
<1> QED BY <1>2, <1>3, <1>4, <1>5 DEF ToSet

(* An index as SI_NewCompoundIndex makes it. *)
LEMMA InitIInv == Init => IInv
<1> SUFFICES ASSUME Init PROVE IInv
  OBVIOUS
<1> USE DEF Init
<1>1. DOMAIN ri = {} /\ DOMAIN list = {}
  OBVIOUS
<1>2. TypeOK
  <2>1. ri \in PartialFn(Id, Addr)
    <3>1. ri \in [{} -> Addr] /\ {} \in SUBSET Id
      BY <1>1
    <3> QED BY <3>1 DEF PartialFn
  <2>2. mem \in [Addr -> Tuple \cup {NoKey}]
    BY DEF NoKeys
  <2>3. list \in Seq(Node) /\ cs \in Seq(Change)
    BY EmptySeq
  <2>4. dropped \in [leaked : SUBSET Addr, twice : SUBSET Addr]
    BY DEF CleanDrop
  <2>5. length \in Int /\ live \in SUBSET Addr
    OBVIOUS
  <2>6. tainted \in BOOLEAN /\ rc \in {OK, ERROR, DUPLICATE_KEY}
    BY Zenon
  <2> QED BY <2>1, <2>2, <2>3, <2>4, <2>5, <2>6 DEF TypeOK
<1>3. KeysOwned
  BY <1>1 DEF KeysOwned, Range, IsInjective
<1>4. Consistent(list, mem, ri)
  BY <1>1 DEF Consistent, Sorted, NodesOwned, Agreement
<1>5. UniqueHoldsOnePerTuple /\ UniqueDropReleases
  BY <1>1 DEF UniqueHoldsOnePerTuple, UniqueDropReleases
<1> QED BY <1>2, <1>3, <1>4, <1>5 DEF IInv, ConsistentUntilTainted

-----------------------------------------------------------------------------
(* A search that stops without a hit shows that the key is not there.      *)
LEMMA NotThere ==
    ASSUME NEW l \in Seq(Node), NEW m, NEW r, Keyed(m, r), Consistent(l, m, r),
           NEW t \in Tuple, NEW p \in Landings(Deref(l, m), t), ~Hit(Deref(l, m), p, t)
    PROVE  \A i \in DOMAIN l : m[l[i].obj] # t
<1> DEFINE keys == Deref(l, m)
<1>1. /\ DOMAIN l = 1..Len(l) /\ keys \in Seq(Tuple) /\ Len(keys) = Len(l)
      /\ \A i \in 1..Len(l) : keys[i] = m[l[i].obj]
      /\ Ascending(keys)
  BY ConsistentKeys
<1> HIDE DEF keys
<1>2. \A i \in 1..Len(keys) : keys[i] = t => i = p /\ Hit(keys, p, t)
  BY <1>1, LandingSplits DEF keys
<1> QED BY <1>1, <1>2 DEF keys

(* What TypeOK says of the reverse index. *)
LEMMA PartialFnFields ==
    ASSUME NEW r \in PartialFn(Id, Addr)
    PROVE  DOMAIN r \subseteq Id /\ \A x \in DOMAIN r : r[x] \in Addr
BY DEF PartialFn

(* A function from some ids to addresses. *)
LEMMA PartialFnIntro ==
    ASSUME NEW D \in SUBSET Id, NEW r \in [D -> Addr]
    PROVE  r \in PartialFn(Id, Addr)
BY DEF PartialFn

(* The nodes of a consistent index point at allocated chunks. *)
LEMMA NodesLive ==
    ASSUME NEW l, NEW m, NEW r, Consistent(l, m, r), NEW i \in DOMAIN l
    PROVE  \E x \in DOMAIN r : r[x] = l[i].obj
BY DEF Consistent, NodesOwned

(* Starting a command, and the paths of applyAdd and applyDel that leave   *)
(* the index alone.                                                        *)
LEMMA SameIndex ==
    ASSUME IInv, UNCHANGED <<index, tainted>>,
           cs' \in Seq(Change), rc' \in {OK, ERROR, DUPLICATE_KEY},
           dropped' \in {dropped, CleanDrop}
    PROVE  IInv'
<1> USE DEF IInv, index
<1>1. dropped' \in [leaked : SUBSET Addr, twice : SUBSET Addr]
  BY DEF TypeOK, CleanDrop
<1>2. TypeOK'
  BY <1>1 DEF TypeOK
<1>3. KeysOwned' /\ ConsistentUntilTainted' /\ UniqueHoldsOnePerTuple'
  BY DEF KeysOwned, ConsistentUntilTainted, UniqueHoldsOnePerTuple
<1>4. UniqueDropReleases'
  BY DEF UniqueDropReleases
<1> QED BY <1>2, <1>3, <1>4

(* What is left of a change set after one change. *)
LEMMA TailTyped == TypeOK /\ cs # <<>> => Tail(cs) \in Seq(Change)
BY DEF TypeOK

(* An add of an id the index does not hold. *)
LEMMA AddNewStep ==
    ASSUME IInv, NEW id \in Id, NEW t \in Tuple, AddNew(id, t)
    PROVE  IInv'
<1> USE DEF IInv
<1>1. PICK a \in Addr \ live :
        /\ mem' = [mem EXCEPT ![a] = t]
        /\ live' = live \cup {a}
        /\ ri' = Bind(ri, id, a)
        /\ InsertKey(list, mem', a, t, id)
  BY DEF AddNew
<1>2. PICK p \in Landings(Deref(list, mem'), t) : list' = ListInsert(list, Deref(list, mem'), p, t, a, id)
  BY <1>1 DEF InsertKey
<1>3. /\ list \in Seq(Node) /\ mem \in Memory /\ mem' \in Memory
      /\ DOMAIN ri \subseteq Id /\ \A x \in DOMAIN ri : ri[x] \in Addr
  BY <1>1, PartialFnFields DEF TypeOK, Memory
<1>4. /\ id \notin DOMAIN ri
      /\ ri' = [x \in DOMAIN ri \cup {id} |-> IF x = id THEN a ELSE ri[x]]
  BY <1>1 DEF AddNew, Bind
<1>5. /\ DOMAIN ri' = DOMAIN ri \cup {id} /\ ri'[id] = a
      /\ \A x \in DOMAIN ri : ri'[x] = ri[x] /\ ri[x] \in live /\ ri[x] # a
  BY <1>4 DEF KeysOwned, Range
<1>6. mem'[a] = t /\ \A b \in Addr : b # a => mem'[b] = mem[b]
  BY <1>1, <1>3 DEF Memory
<1>7. TypeOK'
  <2>1. list' \in Seq(Node)
    BY <1>2, <1>3, ListTyped
  <2>2. ri' \in PartialFn(Id, Addr)
    <3>1. ri' \in [DOMAIN ri \cup {id} -> Addr]
      BY <1>3, <1>4
    <3> QED BY <1>3, <3>1, PartialFnIntro
  <2>3. cs' \in Seq(Change)
    BY TailTyped DEF AddNew, Adding, GoOn
  <2>4. live' \in SUBSET Addr /\ length' \in Int /\ UNCHANGED <<rc, tainted, dropped>>
    BY <1>1 DEF AddNew, GoOn, TypeOK
  <2> QED BY <1>3, <2>1, <2>2, <2>3, <2>4 DEF TypeOK, Memory
<1>8. KeysOwned'
  <2>1. Range(ri') = live'
    BY <1>1, <1>5 DEF KeysOwned, Range
  <2>2. IsInjective(ri')
    BY <1>5 DEF KeysOwned, IsInjective
  <2>3. \A x \in DOMAIN ri' : mem'[ri'[x]] \in Tuple
    BY <1>3, <1>5, <1>6 DEF KeysOwned
  <2> QED BY <2>1, <2>2, <2>3 DEF KeysOwned
<1>9. tainted' = tainted
  BY DEF AddNew
<1>10. ASSUME ~tainted
       PROVE  /\ Consistent(list', mem', ri')
              /\ Unique => Single(list')
  <2>1. Keyed(mem, ri) /\ Consistent(list, mem, ri)
    BY <1>10, KeysOwnedKeyed DEF ConsistentUntilTainted
  <2>2. \A i \in DOMAIN list : list[i].obj \in Addr /\ mem'[list[i].obj] = mem[list[i].obj]
    BY <1>3, <1>5, <1>6, <2>1, NodesLive
  <2>3. \A x \in DOMAIN ri : mem'[ri[x]] = mem[ri[x]]
    BY <1>3, <1>5, <1>6
  <2>4. Keyed(mem', ri) /\ Consistent(list, mem', ri)
    BY <2>1, <2>2, <2>3, Frame
  <2>5. a \in Addr /\ a \notin Range(ri) /\ id \notin DOMAIN ri /\ mem'[a] = t
    BY <1>4, <1>5, <1>6 DEF Range
  <2>6. /\ Consistent(list', mem', ri')
        /\ Single(list) /\ ~Hit(Deref(list, mem'), p, t) => Single(list')
    BY <1>1, <1>2, <1>3, <2>4, <2>5, InsertStep
  <2>7. ASSUME Unique PROVE Single(list) /\ ~Hit(Deref(list, mem'), p, t)
    <3>1. PICK q \in Landings(Deref(list, mem), t) : ~Hit(Deref(list, mem), q, t)
      BY <2>7 DEF AddNew, Admitted
    <3>2. \A i \in DOMAIN list : mem[list[i].obj] # t
      BY <1>3, <2>1, <3>1, NotThere
    <3>3. ~Hit(Deref(list, mem'), p, t)
      <4>1. /\ DOMAIN list = 1..Len(list) /\ Len(Deref(list, mem')) = Len(list)
            /\ \A i \in 1..Len(list) : Deref(list, mem')[i] = mem'[list[i].obj]
        BY <1>3, <2>4, ConsistentKeys
      <4>2. p \in 1..(Len(list) + 1) /\ Len(list) \in Nat
        BY <1>3, <4>1 DEF Landings
      <4> QED BY <2>2, <3>2, <4>1, <4>2 DEF Hit
    <3> QED BY <2>7, <3>3 DEF UniqueHoldsOnePerTuple, Single
  <2> QED BY <2>6, <2>7
<1>11. ConsistentUntilTainted'
  BY <1>9, <1>10 DEF ConsistentUntilTainted
<1>12. UniqueHoldsOnePerTuple'
  <2> SUFFICES ASSUME Unique PROVE UniqueHoldsOnePerTuple'
    BY DEF UniqueHoldsOnePerTuple
  <2>1. ~tainted /\ ~tainted'
    BY <1>9 DEF UniqueHoldsOnePerTuple
  <2>2. list' \in Seq(Node) /\ Keyed(mem', ri')
    BY <1>7, <1>8 DEF TypeOK, KeysOwned, Keyed
  <2> QED BY <1>10, <2>1, <2>2, SingleIsUnique DEF UniqueHoldsOnePerTuple, Single
<1>13. UniqueDropReleases'
  BY DEF UniqueDropReleases, AddNew, GoOn
<1> QED BY <1>7, <1>8, <1>11, <1>12, <1>13
(* What is left once the old key of an id has been deleted and freed: the  *)
(* part AddMove and DelRecord share.  m2 is the memory after the free.     *)
LEMMA Departure ==
    ASSUME IInv, NEW id \in DOMAIN ri, NEW l \in Unlinked(id)
    PROVE  /\ l \in Seq(Node)
           /\ Unique => Single(l) /\ ~PointsAt(l, ri[id])
           /\ ~tainted /\ ~PointsAt(l, ri[id]) =>
                /\ Keyed(mem, Forget(ri, id)) /\ Consistent(l, mem, Forget(ri, id))
                /\ \A i \in DOMAIN l : \E j \in DOMAIN list : l[i].obj = list[j].obj
                /\ \A i \in DOMAIN l : l[i].obj # ri[id]
<1> USE DEF IInv
<1>1. PICK p \in Landings(Deref(list, mem), mem[ri[id]]) :
        l = ListDelete(list, Deref(list, mem), p, mem[ri[id]], id)
  BY DEF Unlinked
<1>2. list \in Seq(Node) /\ mem \in Memory /\ id \in Id /\ ri[id] \in Addr
  BY PartialFnFields DEF TypeOK, Memory
<1>3. l \in Seq(Node)
  BY <1>1, <1>2, ListTyped
<1>4. ASSUME ~tainted
      PROVE  Departed(list, l, mem, ri, id)
  <2>1. Keyed(mem, ri) /\ Consistent(list, mem, ri)
    BY <1>4, KeysOwnedKeyed DEF ConsistentUntilTainted
  <2> QED BY <1>1, <1>2, <2>1, DeleteStep
<1>5. Keyed(mem, Forget(ri, id))
  BY DEF KeysOwned, Keyed, IsInjective, Forget, Restrict
<1>6. Unique => ~tainted /\ Single(list)
  BY DEF UniqueHoldsOnePerTuple, Single
<1> QED BY <1>3, <1>4, <1>5, <1>6 DEF Consistent, PointsAt, Departed
(* An add of an id the index holds. *)
LEMMA AddMoveStep ==
    ASSUME IInv, NEW id \in Id, NEW t \in Tuple, AddMove(id, t)
    PROVE  IInv'
<1> USE DEF IInv
<1> DEFINE old == ri[id]
           rest == Forget(ri, id)
<1>0. PICK l \in Unlinked(id) : \E a \in Addr, junk \in FreedContent(l, old) :
        /\ a \notin (IF Unique THEN live ELSE live \ {old})
        /\ mem' = [mem EXCEPT ![old] = junk, ![a] = t]
        /\ live' = (live \ {old}) \cup {a}
        /\ ri' = Bind(ri, id, a)
        /\ tainted' = (tainted \/ PointsAt(l, old))
        /\ InsertKey(l, mem', a, t, id)
  BY DEF AddMove
<1>1. PICK a \in Addr, junk \in FreedContent(l, old) :
        /\ a \notin (IF Unique THEN live ELSE live \ {old})
        /\ mem' = [mem EXCEPT ![old] = junk, ![a] = t]
        /\ live' = (live \ {old}) \cup {a}
        /\ ri' = Bind(ri, id, a)
        /\ tainted' = (tainted \/ PointsAt(l, old))
        /\ InsertKey(l, mem', a, t, id)
  BY <1>0
<1>2. PICK p \in Landings(Deref(l, mem'), t) : list' = ListInsert(l, Deref(l, mem'), p, t, a, id)
  BY <1>1 DEF InsertKey
<1>3. /\ list \in Seq(Node) /\ l \in Seq(Node) /\ mem \in Memory /\ id \in DOMAIN ri
      /\ DOMAIN ri \subseteq Id /\ \A x \in DOMAIN ri : ri[x] \in Addr
  BY <1>1, PartialFnFields, Departure DEF AddMove, TypeOK, Memory
<1>4. /\ mem' \in Memory /\ mem'[a] = t
      /\ \A b \in Addr : b # a /\ b # old => mem'[b] = mem[b]
  BY <1>1, <1>3 DEF Memory, FreedContent
<1>5. /\ DOMAIN ri' = DOMAIN ri /\ ri'[id] = a
      /\ \A x \in DOMAIN ri : x # id => /\ ri'[x] = ri[x] /\ ri[x] \in live
                                        /\ ri[x] # a /\ ri[x] # old
  <2>1. \A x \in DOMAIN ri : x # id => ri[x] \in live /\ ri[x] # old
    BY <1>3 DEF KeysOwned, Range, IsInjective
  <2> QED BY <1>1, <1>3, <2>1 DEF Bind
<1>6. /\ DOMAIN rest = DOMAIN ri \ {id} /\ \A x \in DOMAIN rest : rest[x] = ri[x]
      /\ Bind(rest, id, a) = ri'
  BY <1>1, <1>3 DEF Bind, Forget, Restrict
<1> HIDE DEF rest, old
<1>7. TypeOK'
  <2>1. list' \in Seq(Node)
    BY <1>2, <1>3, <1>4, ListTyped
  <2>2. ri' \in PartialFn(Id, Addr)
    <3>1. ri' \in [DOMAIN ri -> Addr]
      BY <1>1, <1>3 DEF Bind
    <3> QED BY <1>3, <3>1, PartialFnIntro
  <2>3. cs' \in Seq(Change)
    BY TailTyped DEF AddMove, Adding, GoOn
  <2>4. live' \in SUBSET Addr
    BY <1>1 DEF TypeOK
  <2>5. length' \in Int /\ UNCHANGED <<rc, dropped>>
    BY DEF AddMove, GoOn, TypeOK
  <2>6. tainted' \in BOOLEAN
    BY <1>1, Zenon
  <2> QED BY <1>4, <2>1, <2>2, <2>3, <2>4, <2>5, <2>6 DEF TypeOK, Memory
<1>8. KeysOwned'
  <2>1. Range(ri') = live'
    <3>1. \A b \in live : b # old => \E x \in DOMAIN ri : x # id /\ ri[x] = b
      BY DEF KeysOwned, Range, old
    <3> QED BY <1>1, <1>3, <1>5, <3>1 DEF Range
  <2>2. IsInjective(ri')
    BY <1>5 DEF KeysOwned, IsInjective
  <2>3. \A x \in DOMAIN ri' : mem'[ri'[x]] \in Tuple
    BY <1>3, <1>4, <1>5 DEF KeysOwned
  <2> QED BY <2>1, <2>2, <2>3 DEF KeysOwned
<1>9. ASSUME ~tainted, ~PointsAt(l, old)
      PROVE  /\ Consistent(list', mem', ri')
             /\ Unique => Single(list')
  <2>1. /\ Keyed(mem, rest) /\ Consistent(l, mem, rest)
        /\ \A i \in DOMAIN l : \E j \in DOMAIN list : l[i].obj = list[j].obj
        /\ \A i \in DOMAIN l : l[i].obj # old
    BY <1>1, <1>3, <1>9, Departure DEF rest, old
  <2>2. \A i \in DOMAIN l : mem'[l[i].obj] = mem[l[i].obj]
    <3> SUFFICES ASSUME NEW i \in DOMAIN l PROVE mem'[l[i].obj] = mem[l[i].obj]
      OBVIOUS
    <3>1. PICK x \in DOMAIN rest : rest[x] = l[i].obj
      BY <2>1, NodesLive
    <3> QED BY <1>3, <1>4, <1>5, <1>6, <3>1
  <2>3. \A x \in DOMAIN rest : mem'[rest[x]] = mem[rest[x]]
    BY <1>3, <1>4, <1>5, <1>6
  <2>4. Keyed(mem', rest) /\ Consistent(l, mem', rest)
    BY <2>1, <2>2, <2>3, Frame
  <2>5. a \in Addr /\ a \notin Range(rest) /\ id \notin DOMAIN rest
    BY <1>5, <1>6 DEF Range
  <2>6. /\ Consistent(list', mem', ri')
        /\ Single(l) /\ ~Hit(Deref(l, mem'), p, t) => Single(list')
    BY <1>2, <1>3, <1>4, <1>6, <2>4, <2>5, InsertStep
  <2>7. ASSUME Unique PROVE Single(l) /\ ~Hit(Deref(l, mem'), p, t)
    <3>1. PICK q \in Landings(Deref(list, mem), t) : ~Hit(Deref(list, mem), q, t)
      BY <2>7 DEF AddMove, Admitted
    <3>2. Keyed(mem, ri) /\ Consistent(list, mem, ri)
      BY <1>9, KeysOwnedKeyed DEF ConsistentUntilTainted
    <3>3. \A i \in DOMAIN list : mem[list[i].obj] # t
      BY <1>3, <3>1, <3>2, NotThere
    <3>4. /\ DOMAIN l = 1..Len(l) /\ Len(Deref(l, mem')) = Len(l) /\ Len(l) \in Nat
          /\ \A i \in 1..Len(l) : Deref(l, mem')[i] = mem'[l[i].obj]
      BY <1>3, <2>4, ConsistentKeys
    <3>5. p \in 1..(Len(l) + 1)
      BY <3>4 DEF Landings
    <3>6. ~Hit(Deref(l, mem'), p, t)
      BY <2>1, <2>2, <3>3, <3>4, <3>5 DEF Hit
    <3> QED BY <1>1, <1>3, <2>7, <3>6, Departure
  <2> QED BY <2>6, <2>7
<1>10. ConsistentUntilTainted'
  BY <1>1, <1>9 DEF ConsistentUntilTainted
<1>11. UniqueHoldsOnePerTuple'
  <2> SUFFICES ASSUME Unique PROVE UniqueHoldsOnePerTuple'
    BY DEF UniqueHoldsOnePerTuple
  <2>1. ~tainted /\ ~PointsAt(l, old)
    BY <1>1, <1>3, Departure DEF UniqueHoldsOnePerTuple, old
  <2>2. ~tainted'
    BY <1>1, <2>1
  <2>3. list' \in Seq(Node) /\ Keyed(mem', ri')
    BY <1>7, <1>8 DEF TypeOK, KeysOwned, Keyed
  <2> QED BY <1>9, <2>1, <2>2, <2>3, SingleIsUnique DEF UniqueHoldsOnePerTuple, Single
<1>12. UniqueDropReleases'
  BY DEF UniqueDropReleases, AddMove, GoOn
<1> QED BY <1>7, <1>8, <1>10, <1>11, <1>12

(* A delete of an id the index holds. *)
LEMMA DelRecordStep ==
    ASSUME IInv, NEW id \in Id, DelRecord(id)
    PROVE  IInv'
<1> USE DEF IInv
<1> DEFINE old == ri[id]
           rest == Forget(ri, id)
<1>0. PICK l \in Unlinked(id) : \E junk \in FreedContent(l, old) :
        /\ list' = l
        /\ mem' = [mem EXCEPT ![old] = junk]
        /\ tainted' = (tainted \/ PointsAt(l, old))
  BY DEF DelRecord
<1>1. PICK junk \in FreedContent(l, old) :
        /\ list' = l
        /\ mem' = [mem EXCEPT ![old] = junk]
        /\ tainted' = (tainted \/ PointsAt(l, old))
  BY <1>0
<1>2. live' = live \ {old} /\ ri' = rest
  BY DEF DelRecord
<1>3. /\ l \in Seq(Node) /\ mem \in Memory /\ id \in DOMAIN ri
      /\ DOMAIN ri \subseteq Id /\ \A x \in DOMAIN ri : ri[x] \in Addr
  BY <1>1, PartialFnFields, Departure DEF DelRecord, TypeOK, Memory
<1>4. /\ mem' \in Memory
      /\ \A b \in Addr : b # old => mem'[b] = mem[b]
  BY <1>1, <1>3 DEF Memory, FreedContent
<1>5. /\ rest = [x \in DOMAIN ri \ {id} |-> ri[x]]
      /\ DOMAIN rest = DOMAIN ri \ {id} /\ \A x \in DOMAIN rest : rest[x] = ri[x]
  BY DEF Forget, Restrict
<1>6. \A x \in DOMAIN ri : x # id => ri[x] \in live /\ ri[x] # old
  BY <1>3 DEF KeysOwned, Range, IsInjective
<1> HIDE DEF rest, old
<1>7. TypeOK'
  <2>1. ri' \in PartialFn(Id, Addr)
    <3>1. ri' \in [DOMAIN ri \ {id} -> Addr] /\ DOMAIN ri \ {id} \in SUBSET Id
      BY <1>2, <1>3, <1>5
    <3> QED BY <3>1, PartialFnIntro
  <2>2. cs' \in Seq(Change)
    BY TailTyped DEF DelRecord, Deleting, GoOn
  <2>3. list' \in Seq(Node) /\ live' \in SUBSET Addr
    BY <1>1, <1>2, <1>3 DEF TypeOK
  <2>4. length' \in Int /\ UNCHANGED <<rc, dropped>>
    BY DEF DelRecord, GoOn, TypeOK
  <2>5. tainted' \in BOOLEAN
    BY <1>1, Zenon
  <2> QED BY <1>4, <2>1, <2>2, <2>3, <2>4, <2>5 DEF TypeOK, Memory
<1>8. KeysOwned'
  <2>1. Range(ri') = live'
    <3>1. \A b \in live : b # old => \E x \in DOMAIN ri : x # id /\ ri[x] = b
      BY DEF KeysOwned, Range, old
    <3> QED BY <1>2, <1>3, <1>5, <1>6, <3>1 DEF Range
  <2>2. IsInjective(ri')
    BY <1>2, <1>5 DEF KeysOwned, IsInjective
  <2>3. \A x \in DOMAIN ri' : mem'[ri'[x]] \in Tuple
    BY <1>2, <1>3, <1>4, <1>5, <1>6 DEF KeysOwned
  <2> QED BY <2>1, <2>2, <2>3 DEF KeysOwned
<1>9. ASSUME ~tainted, ~PointsAt(l, old)
      PROVE  Consistent(list', mem', ri')
  <2>1. /\ Keyed(mem, rest) /\ Consistent(l, mem, rest)
        /\ \A i \in DOMAIN l : l[i].obj # old
    BY <1>1, <1>3, <1>9, Departure DEF rest, old
  <2>2. \A i \in DOMAIN l : mem'[l[i].obj] = mem[l[i].obj]
    <3> SUFFICES ASSUME NEW i \in DOMAIN l PROVE mem'[l[i].obj] = mem[l[i].obj]
      OBVIOUS
    <3>1. PICK x \in DOMAIN rest : rest[x] = l[i].obj
      BY <2>1, NodesLive
    <3> QED BY <1>3, <1>4, <1>5, <1>6, <3>1
  <2>3. \A x \in DOMAIN rest : mem'[rest[x]] = mem[rest[x]]
    BY <1>3, <1>4, <1>5, <1>6
  <2> QED BY <1>1, <1>2, <2>1, <2>2, <2>3, Frame
<1>10. ConsistentUntilTainted'
  BY <1>1, <1>9 DEF ConsistentUntilTainted
<1>11. UniqueHoldsOnePerTuple'
  <2> SUFFICES ASSUME Unique PROVE UniqueHoldsOnePerTuple'
    BY DEF UniqueHoldsOnePerTuple
  <2>1. ~tainted /\ ~PointsAt(l, old) /\ Single(l)
    BY <1>1, <1>3, Departure DEF UniqueHoldsOnePerTuple, old
  <2>2. ~tainted' /\ Single(list')
    BY <1>1, <2>1
  <2>3. list' \in Seq(Node) /\ Keyed(mem', ri')
    BY <1>7, <1>8 DEF TypeOK, KeysOwned, Keyed
  <2> QED BY <1>9, <2>1, <2>2, <2>3, SingleIsUnique DEF UniqueHoldsOnePerTuple, Single
<1>12. UniqueDropReleases'
  BY DEF UniqueDropReleases, DelRecord, GoOn
<1> QED BY <1>7, <1>8, <1>10, <1>11, <1>12

(* compoundIndex_Free. *)
LEMMA DropStep ==
    ASSUME IInv, Drop
    PROVE  IInv'
<1> USE DEF IInv
<1> DEFINE freed == {list[i].obj : i \in DOMAIN list}
           metAgain(a) == \E i, j \in DOMAIN list :
                              /\ list[i].obj = a /\ list[j].obj = a
                              /\ i # j \/ Len(list[i].vals) > 1
<1>1. /\ list' = <<>> /\ ri' = <<>> /\ mem' = NoKeys /\ live' = {} /\ length' = 0
      /\ tainted' = FALSE /\ UNCHANGED <<cs, rc>>
      /\ dropped' = [leaked |-> live \ freed,
                     twice |-> {a \in freed : a \notin live \/ metAgain(a)}]
  BY DEF Drop
<1>2. DOMAIN ri' = {} /\ DOMAIN list' = {}
  BY <1>1
<1>3. freed \subseteq Addr
  BY NodeFields DEF TypeOK
<1> HIDE DEF freed, metAgain
<1>4. TypeOK'
  <2>1. ri' \in PartialFn(Id, Addr)
    <3>1. ri' \in [{} -> Addr]
      BY <1>1
    <3> QED BY <3>1, PartialFnIntro
  <2>2. mem' \in [Addr -> Tuple \cup {NoKey}]
    BY <1>1 DEF NoKeys
  <2>3. list' \in Seq(Node) /\ cs' \in Seq(Change)
    BY <1>1, EmptySeq DEF TypeOK
  <2>4. dropped' \in [leaked : SUBSET Addr, twice : SUBSET Addr]
    <3>1. live \ freed \in SUBSET Addr
      BY DEF TypeOK
    <3>2. {a \in freed : a \notin live \/ metAgain(a)} \in SUBSET Addr
      BY <1>3
    <3> QED BY <1>1, <3>1, <3>2
  <2>5. length' \in Int /\ live' \in SUBSET Addr /\ rc' \in {OK, ERROR, DUPLICATE_KEY}
    BY <1>1 DEF TypeOK
  <2>6. tainted' \in BOOLEAN
    BY <1>1, Zenon
  <2> QED BY <2>1, <2>2, <2>3, <2>4, <2>5, <2>6 DEF TypeOK
<1>5. KeysOwned'
  BY <1>1, <1>2 DEF KeysOwned, Range, IsInjective
<1>6. ConsistentUntilTainted'
  BY <1>2 DEF ConsistentUntilTainted, Consistent, Sorted, NodesOwned, Agreement
<1>7. UniqueHoldsOnePerTuple'
  BY <1>1, <1>2 DEF UniqueHoldsOnePerTuple
<1>8. UniqueDropReleases'
  <2> SUFFICES ASSUME Unique PROVE dropped' = CleanDrop
    BY DEF UniqueDropReleases
  <2>1. Consistent(list, mem, ri) /\ \A i \in DOMAIN list : Len(list[i].vals) = 1
    BY DEF UniqueHoldsOnePerTuple, ConsistentUntilTainted
  <2>2. list \in Seq(Node) /\ Keyed(mem, ri)
    BY KeysOwnedKeyed DEF TypeOK
  <2>3. freed \subseteq live
    BY <2>1, NodesLive DEF KeysOwned, Range, freed
  <2>4. live \subseteq freed
    <3> SUFFICES ASSUME NEW x \in DOMAIN ri PROVE ri[x] \in freed
      BY DEF KeysOwned, Range
    <3>1. PICK i \in DOMAIN list : x \in ToSet(list[i].vals)
      BY <2>1 DEF Consistent, Agreement
    <3>2. PICK y \in ToSet(list[i].vals) : y \in DOMAIN ri /\ ri[y] = list[i].obj
      BY <2>1 DEF Consistent, NodesOwned
    <3>3. x = y
      BY <2>1, <2>2, <3>1, <3>2, NodeFields DEF ToSet
    <3> QED BY <3>2, <3>3 DEF freed
  <2>5. \A i, j \in DOMAIN list : list[i].obj = list[j].obj => i = j
    <3> SUFFICES ASSUME NEW i \in DOMAIN list, NEW j \in DOMAIN list,
                        list[i].obj = list[j].obj
                 PROVE  i = j
      OBVIOUS
    <3>1. /\ DOMAIN list = 1..Len(list) /\ Len(list) \in Nat
          /\ \A k \in 1..Len(list) : mem[list[k].obj] \in Tuple
      BY <2>1, <2>2, ConsistentKeys
    <3>2. ~(i < j) /\ ~(j < i)
      BY <2>1, <3>1, LtAssumption DEF Consistent, Sorted
    <3> QED BY <3>1, <3>2
  <2>6. \A i \in DOMAIN list : ~(Len(list[i].vals) > 1)
    <3> SUFFICES ASSUME NEW i \in DOMAIN list PROVE ~(Len(list[i].vals) > 1)
      OBVIOUS
    <3>1. Len(list[i].vals) = 1
      BY <2>1
    <3>2. ~(1 > 1)
      OBVIOUS
    <3> QED BY <3>1, <3>2, Zenon
  <2>7. \A a \in freed : ~metAgain(a)
    BY <2>5, <2>6, Zenon DEF metAgain
  <2> QED BY <1>1, <2>3, <2>4, <2>7 DEF CleanDrop
<1> QED BY <1>4, <1>5, <1>6, <1>7, <1>8

(* Every step keeps the inductive invariant. *)
LEMMA NextIInv == IInv /\ [Next]_vars => IInv'
<1> SUFFICES ASSUME IInv, [Next]_vars PROVE IInv'
  OBVIOUS
<1>1. ASSUME NEW n \in 1..MaxChanges, NEW changes \in [1..n -> Change], Submit(changes)
      PROVE  IInv'
  <2>1. changes \in Seq(Change)
    BY IndexAssumption, SeqDef
  <2> QED BY <1>1, <2>1, SameIndex DEF Submit, OK
<1>2. ASSUME NEW id \in Id, AddRejected(id) PROVE IInv'
  BY <1>2, EmptySeq, SameIndex DEF AddRejected, GiveUp
<1>3. ASSUME NEW id \in Id, DelRecord(id) PROVE IInv'
  BY <1>3, DelRecordStep
<1>4. ASSUME NEW id \in Id, DelMissing(id) PROVE IInv'
  <2>1. cs' \in Seq(Change) /\ UNCHANGED <<index, tainted, rc, dropped>>
    BY <1>4, TailTyped DEF DelMissing, Deleting, GoOn, IInv
  <2> QED BY <2>1, SameIndex DEF IInv, TypeOK
<1>5. ASSUME NEW id \in Id, NEW t \in Tuple, AddUnchanged(id, t) PROVE IInv'
  <2>1. cs' \in Seq(Change) /\ UNCHANGED <<index, tainted, rc, dropped>>
    BY <1>5, TailTyped DEF AddUnchanged, Adding, GoOn, IInv
  <2> QED BY <2>1, SameIndex DEF IInv, TypeOK
<1>6. ASSUME NEW id \in Id, NEW t \in Tuple, AddDuplicate(id, t) PROVE IInv'
  BY <1>6, EmptySeq, SameIndex DEF AddDuplicate, GiveUp
<1>7. ASSUME NEW id \in Id, NEW t \in Tuple, AddNew(id, t) PROVE IInv'
  BY <1>7, AddNewStep
<1>8. ASSUME NEW id \in Id, NEW t \in Tuple, AddMove(id, t) PROVE IInv'
  BY <1>8, AddMoveStep
<1>9. ASSUME Drop PROVE IInv'
  BY <1>9, DropStep
<1>10. ASSUME UNCHANGED vars PROVE IInv'
  BY <1>10, SameIndex DEF vars, index, IInv, TypeOK
<1> QED BY <1>1, <1>2, <1>3, <1>4, <1>5, <1>6, <1>7, <1>8, <1>9, <1>10 DEF Next, Apply

(* IInv holds in every state the index reaches. *)
LEMMA Invariant == Spec => []IInv
BY InitIInv, NextIInv, PTL DEF Spec
-----------------------------------------------------------------------------
(* On a UNIQUE index every node stands for one record, and no other node   *)
(* has its id or its tuple.                                                *)
LEMMA UniqueNodes ==
    ASSUME IInv, Unique
    PROVE  /\ DOMAIN list = 1..Len(list) /\ Len(list) \in Nat
           /\ \A i \in 1..Len(list) :
                /\ Len(list[i].vals) = 1
                /\ list[i].vals[1] \in DOMAIN ri /\ list[i].vals[1] \in Id
                /\ mem[list[i].obj] \in Tuple
                /\ mem[ri[list[i].vals[1]]] = mem[list[i].obj]
                /\ ri[list[i].vals[1]] = list[i].obj
           /\ \A i, j \in 1..Len(list) :
                i # j => /\ mem[list[i].obj] # mem[list[j].obj]
                         /\ list[i].vals[1] # list[j].vals[1]
           /\ \A i, j \in 1..Len(list) : i < j => Lt(mem[list[i].obj], mem[list[j].obj])
           /\ \A x \in DOMAIN ri : \E i \in 1..Len(list) : list[i].vals[1] = x
<1>1. /\ Keyed(mem, ri) /\ Consistent(list, mem, ri) /\ list \in Seq(Node)
      /\ DOMAIN ri \subseteq Id
  BY KeysOwnedKeyed, PartialFnFields
  DEF IInv, ConsistentUntilTainted, UniqueHoldsOnePerTuple, TypeOK
<1>2. /\ DOMAIN list = 1..Len(list) /\ Len(list) \in Nat
      /\ \A i \in 1..Len(list) : mem[list[i].obj] \in Tuple
  BY <1>1, ConsistentKeys
<1>3. \A i \in 1..Len(list) : Len(list[i].vals) = 1 /\ list[i].vals \in Seq(Id)
  BY <1>1, <1>2, NodeFields DEF IInv, UniqueHoldsOnePerTuple
<1>4. \A i \in 1..Len(list) : ToSet(list[i].vals) = {list[i].vals[1]}
  BY <1>3 DEF ToSet
<1>5. \A i \in 1..Len(list) :
        list[i].vals[1] \in DOMAIN ri /\ mem[ri[list[i].vals[1]]] = mem[list[i].obj]
  BY <1>1, <1>2, <1>4 DEF Consistent, Agreement
<1>6. \A i, j \in 1..Len(list) : i # j => mem[list[i].obj] # mem[list[j].obj]
  <2> SUFFICES ASSUME NEW i \in 1..Len(list), NEW j \in 1..Len(list), i < j
               PROVE  mem[list[i].obj] # mem[list[j].obj]
    BY <1>2
  <2>1. Lt(mem[list[i].obj], mem[list[j].obj])
    BY <1>1, <1>2 DEF Consistent, Sorted
  <2> QED BY <1>2, <2>1, LtAssumption
<1>7. \A x \in DOMAIN ri : \E i \in 1..Len(list) : list[i].vals[1] = x
  BY <1>1, <1>2, <1>4 DEF Consistent, Agreement
<1>8. \A i, j \in 1..Len(list) : i # j => list[i].vals[1] # list[j].vals[1]
  BY <1>5, <1>6
<1>9. \A i \in 1..Len(list) : list[i].vals[1] \in Id
  BY <1>1, <1>5
<1>10. \A i \in 1..Len(list) : ri[list[i].vals[1]] = list[i].obj
  BY <1>1, <1>2, <1>4 DEF Consistent, NodesOwned
<1>11. \A i, j \in 1..Len(list) : i < j => Lt(mem[list[i].obj], mem[list[j].obj])
  BY <1>1, <1>2 DEF Consistent, Sorted
<1> QED BY <1>2, <1>3, <1>5, <1>6, <1>7, <1>8, <1>9, <1>10, <1>11, Zenon
-----------------------------------------------------------------------------
(* Whatever the change sets, the index keeps the types of its parts.       *)
THEOREM TypeCorrect == Spec => []TypeOK
<1>1. IInv => TypeOK
  BY DEF IInv
<1> QED BY <1>1, Invariant, PTL

(* applyAdd and applyDel leak no key chunk and free none twice, even after *)
(* they have freed one that a node still points at.                        *)
THEOREM KeysAlwaysOwned == Spec => []KeysOwned
<1>1. IInv => KeysOwned
  BY DEF IInv
<1> QED BY <1>1, Invariant, PTL

(* Reverse index and skip list agree after every change of every change    *)
(* set, until a key chunk has been freed that a node points at.            *)
THEOREM IndexConsistent == Spec => []ConsistentUntilTainted
<1>1. IInv => ConsistentUntilTainted
  BY DEF IInv
<1> QED BY <1>1, Invariant, PTL

(* A UNIQUE index never holds two ids under one tuple, and never frees a   *)
(* key a node points at.                                                   *)
THEOREM UniqueIsUnique == Spec => []UniqueHoldsOnePerTuple
<1>1. IInv => UniqueHoldsOnePerTuple
  BY DEF IInv
<1> QED BY <1>1, Invariant, PTL

(* Dropping a UNIQUE index frees each of its keys exactly once.            *)
THEOREM UniqueDropsClean == Spec => []UniqueDropReleases
<1>1. IInv => UniqueDropReleases
  BY DEF IInv
<1> QED BY <1>1, Invariant, PTL

(* idx->length counts the ids of the reverse index. *)
Counted == IsFiniteSet(DOMAIN ri) /\ length = Cardinality(DOMAIN ri)

LEMMA InitCounted == Init => Counted
<1> USE DEF Counted
<1> SUFFICES ASSUME Init PROVE Counted
  OBVIOUS
<1>1. DOMAIN ri = {} /\ length = 0
  BY DEF Init
<1> QED BY <1>1, FS_EmptySet

LEMMA NextCounted == Counted /\ [Next]_vars => Counted'
<1> USE DEF Counted
<1> SUFFICES ASSUME Counted, [Next]_vars PROVE Counted'
  OBVIOUS
<1>1. Cardinality(DOMAIN ri) \in Nat
  BY FS_CardinalityType
<1>2. ASSUME NEW id \in Id, NEW t \in Tuple, AddNew(id, t) PROVE Counted'
  <2>1. DOMAIN ri' = DOMAIN ri \cup {id} /\ id \notin DOMAIN ri /\ length' = length + 1
    BY <1>2 DEF AddNew, Bind
  <2> QED BY <1>1, <2>1, FS_AddElement
<1>3. ASSUME NEW id \in Id, NEW t \in Tuple, AddMove(id, t) PROVE Counted'
  <2>1. DOMAIN ri' = DOMAIN ri \cup {id} /\ id \in DOMAIN ri /\ length' = length
    BY <1>3 DEF AddMove, Bind
  <2>2. DOMAIN ri' = DOMAIN ri
    BY <2>1
  <2> QED BY <2>1, <2>2
<1>4. ASSUME NEW id \in Id, DelRecord(id) PROVE Counted'
  <2>1. DOMAIN ri' = DOMAIN ri \ {id} /\ id \in DOMAIN ri /\ length' = length - 1
    BY <1>4 DEF DelRecord, Forget, Restrict
  <2> QED BY <1>1, <2>1, FS_RemoveElement
<1>5. ASSUME Drop PROVE Counted'
  <2>1. DOMAIN ri' = {} /\ length' = 0
    BY <1>5 DEF Drop
  <2> QED BY <2>1, FS_EmptySet
<1>6. ASSUME UNCHANGED <<ri, length>> PROVE Counted'
  BY <1>6
<1> HIDE DEF Counted
<1> QED BY <1>2, <1>3, <1>4, <1>5, <1>6
    DEF Next, Apply, Submit, AddRejected, GiveUp, DelMissing, AddUnchanged, AddDuplicate, vars, index

LEMMA AlwaysCounted == Spec => []Counted
BY InitCounted, NextCounted, PTL DEF Spec

(* idx->length, which only ever moves by one, is the number of ids held.   *)
THEOREM LengthAlwaysCounts == Spec => []LengthCounts
<1>1. Counted => LengthCounts
  BY DEF Counted, LengthCounts
<1> QED BY <1>1, AlwaysCounted, PTL

-----------------------------------------------------------------------------
(* Every change the compound index applies is a step its promise           *)
(* (SecondaryIndex.tla) allows, up to the first free of a key chunk that a *)
(* node points at; on a UNIQUE index, which never gets there, the code     *)
(* implements the promise.                                                 *)
(* The records after an add: the id's tuple is replaced, the others stay.  *)
LEMMA AddNewRecords ==
    ASSUME IInv, NEW id \in Id, NEW t \in Tuple, AddNew(id, t)
    PROVE  Records' = [x \in DOMAIN Records \cup {id} |-> IF x = id THEN t ELSE Records[x]]
<1> USE DEF IInv
<1>1. PICK a \in Addr \ live : mem' = [mem EXCEPT ![a] = t] /\ ri' = Bind(ri, id, a)
  BY DEF AddNew
<1>2. /\ mem \in Memory
      /\ \A x \in DOMAIN ri : ri[x] \in Addr /\ ri[x] # a
  BY PartialFnFields DEF TypeOK, Memory, KeysOwned, Range
<1>3. mem'[a] = t /\ \A x \in DOMAIN ri : mem'[ri[x]] = mem[ri[x]]
  BY <1>1, <1>2 DEF Memory
<1>4. id \notin DOMAIN ri
  BY DEF AddNew
<1> QED BY <1>1, <1>3, <1>4 DEF Records, Bind

(* The same, for an id that had a record. *)
LEMMA AddMoveRecords ==
    ASSUME IInv, NEW id \in Id, NEW t \in Tuple, AddMove(id, t)
    PROVE  Records' = [x \in DOMAIN Records \cup {id} |-> IF x = id THEN t ELSE Records[x]]
<1> USE DEF IInv
<1>1. PICK l \in Unlinked(id) : \E a \in Addr, junk \in FreedContent(l, ri[id]) :
        /\ a \notin (IF Unique THEN live ELSE live \ {ri[id]})
        /\ mem' = [mem EXCEPT ![ri[id]] = junk, ![a] = t]
        /\ ri' = Bind(ri, id, a)
  BY DEF AddMove
<1>2. PICK a \in Addr, junk \in FreedContent(l, ri[id]) :
        /\ a \notin (IF Unique THEN live ELSE live \ {ri[id]})
        /\ mem' = [mem EXCEPT ![ri[id]] = junk, ![a] = t]
        /\ ri' = Bind(ri, id, a)
  BY <1>1
<1>3. /\ mem \in Memory /\ id \in DOMAIN ri
      /\ \A x \in DOMAIN ri : ri[x] \in Addr
      /\ \A x \in DOMAIN ri : x # id => ri[x] # a /\ ri[x] # ri[id]
  BY <1>2, PartialFnFields DEF AddMove, TypeOK, Memory, KeysOwned, Range, IsInjective
<1>4. mem'[a] = t /\ \A x \in DOMAIN ri : x # id => mem'[ri[x]] = mem[ri[x]]
  BY <1>2, <1>3 DEF Memory
<1> QED BY <1>2, <1>3, <1>4 DEF Records, Bind

(* The records after a delete. *)
LEMMA DelRecords ==
    ASSUME IInv, NEW id \in Id, DelRecord(id)
    PROVE  Records' = [x \in DOMAIN Records \ {id} |-> Records[x]]
<1> USE DEF IInv
<1>1. PICK junk : mem' = [mem EXCEPT ![ri[id]] = junk]
  BY DEF DelRecord
<1>2. ri' = [x \in DOMAIN ri \ {id} |-> ri[x]]
  BY DEF DelRecord, Forget, Restrict
<1>3. \A x \in DOMAIN ri : /\ ri[x] \in Addr
                           /\ x # id => ri[x] # ri[id]
  BY PartialFnFields DEF DelRecord, TypeOK, KeysOwned, IsInjective
<1>4. \A x \in DOMAIN ri : x # id => mem'[ri[x]] = mem[ri[x]]
  BY <1>1, <1>3 DEF TypeOK
<1> QED BY <1>2, <1>4 DEF Records

(* Nobody else holds a tuple a UNIQUE index lets in. *)
LEMMA AdmittedUnheld ==
    ASSUME IInv, ~tainted, Unique, NEW t \in Tuple, Admitted(t)
    PROVE  Promise!Holders(t) = {}
<1>1. Keyed(mem, ri) /\ Consistent(list, mem, ri) /\ list \in Seq(Node)
  BY KeysOwnedKeyed DEF IInv, ConsistentUntilTainted, TypeOK
<1>2. PICK q \in Landings(Deref(list, mem), t) : ~Hit(Deref(list, mem), q, t)
  BY DEF Admitted
<1>3. \A i \in DOMAIN list : mem[list[i].obj] # t
  BY <1>1, <1>2, NotThere
<1>4. \A x \in DOMAIN ri : mem[ri[x]] # t
  BY <1>1, <1>3 DEF Consistent, Agreement
<1> QED BY <1>4 DEF Promise!Holders, Records

(* The id at the front of a node a search for t hits holds t. *)
LEMMA HitHeld ==
    ASSUME IInv, ~tainted, NEW t \in Tuple,
           NEW p \in Landings(Deref(list, mem), t), Hit(Deref(list, mem), p, t)
    PROVE  list[p].vals[1] \in DOMAIN ri /\ mem[ri[list[p].vals[1]]] = t
<1>1. Keyed(mem, ri) /\ Consistent(list, mem, ri) /\ list \in Seq(Node)
  BY KeysOwnedKeyed DEF IInv, ConsistentUntilTainted, TypeOK
<1>2. /\ DOMAIN list = 1..Len(list) /\ Len(list) \in Nat /\ Len(Deref(list, mem)) = Len(list)
      /\ \A i \in 1..Len(list) : Deref(list, mem)[i] = mem[list[i].obj]
  BY <1>1, ConsistentKeys
<1>3. p \in DOMAIN list /\ mem[list[p].obj] = t
  BY <1>2 DEF Hit, Landings
<1>4. list[p].vals[1] \in ToSet(list[p].vals)
  <2>1. PICK y \in ToSet(list[p].vals) : y \in DOMAIN ri
    BY <1>1, <1>3 DEF Consistent, NodesOwned
  <2>2. list[p].vals \in Seq(Id)
    BY <1>1, <1>3, NodeFields
  <2> QED BY <2>1, <2>2 DEF ToSet
<1> QED BY <1>1, <1>3, <1>4 DEF Consistent, Agreement

(* A UNIQUE index refuses a tuple only when another id holds it. *)
LEMMA DuplicateHeld ==
    ASSUME IInv, ~tainted, NEW id \in Id, NEW t \in Tuple, AddDuplicate(id, t)
    PROVE  Promise!Holders(t) \ {id} # {}
<1>1. PICK p \in Landings(Deref(list, mem), t) : Hit(Deref(list, mem), p, t) /\ list[p].vals[1] # id
  BY DEF AddDuplicate
<1> QED BY <1>1, HitHeld DEF Promise!Holders, Records

(* It keeps quiet about an add only when the id holds the tuple already.   *)
LEMMA UnchangedHeld ==
    ASSUME IInv, NEW id \in Id, NEW t \in Tuple, AddUnchanged(id, t)
    PROVE  /\ Promise!Holders(t) = {id}
           /\ Records = [x \in DOMAIN Records \cup {id} |-> IF x = id THEN t ELSE Records[x]]
<1>1. PICK p \in Landings(Deref(list, mem), t) : Hit(Deref(list, mem), p, t) /\ list[p].vals[1] = id
  BY DEF AddUnchanged
<1>2. /\ ~tainted
      /\ \A x, y \in DOMAIN ri : mem[ri[x]] = mem[ri[y]] => x = y
  BY DEF AddUnchanged, IInv, UniqueHoldsOnePerTuple
<1>3. id \in DOMAIN ri /\ mem[ri[id]] = t
  BY <1>1, <1>2, HitHeld
<1> QED BY <1>2, <1>3 DEF Promise!Holders, Records
-----------------------------------------------------------------------------
(* The changes a command can submit. *)
LEMMA ChangeTyped ==
    ASSUME NEW id \in Id
    PROVE  DelChange(id) \in Change /\ \A t \in Tuple : AddChange(id, t) \in Change
BY DEF Change, Changes, AddChange, DelChange

(* A change set of one change. *)
LEMMA OneHead ==
    ASSUME NEW c
    PROVE  <<c>> # <<>> /\ Head(<<c>>) = c /\ Tail(<<c>>) = <<>>
OBVIOUS

(* Apply takes the change at hand off the change set, and never undoes a   *)
(* free of a key in use.                                                   *)
LEMMA ApplyConsumes ==
    ASSUME NEW id \in Id, Apply(id)
    PROVE  cs # <<>> /\ cs' \in {Tail(cs), <<>>} /\ (tainted => tainted')
<1>1. cs # <<>> /\ cs' \in {Tail(cs), <<>>}
  BY DEF Apply, AddRejected, DelRecord, DelMissing, AddUnchanged, AddDuplicate, AddNew, AddMove,
         Adding, Deleting, GoOn, GiveUp
<1>2. CASE DelRecord(id)
  BY <1>1, <1>2, Zenon DEF DelRecord
<1>3. CASE \E t \in Tuple : AddMove(id, t)
  BY <1>1, <1>3, Zenon DEF AddMove
<1>4. CASE UNCHANGED tainted
  BY <1>1, <1>4, Zenon
<1> QED
  BY <1>2, <1>3, <1>4, Zenon DEF Apply, AddRejected, DelMissing, AddUnchanged, AddDuplicate, AddNew, GiveUp

-----------------------------------------------------------------------------
(* What a step owes the promise. *)
KeepsPromise == ~tainted' => (Promise!Next \/ UNCHANGED <<Records, cs, rc>>)

(* Each action of the index is one of the promise's, or changes no record. *)
LEMMA StepKeeps == IInv /\ [Next]_vars => KeepsPromise
<1> SUFFICES ASSUME IInv, [Next]_vars, ~tainted'
             PROVE  Promise!Next \/ UNCHANGED <<Records, cs, rc>>
  BY DEF KeepsPromise
<1> USE DEF Promise!Next, Promise!NextChange, Promise!AddChange, Promise!DelChange,
            Promise!GiveUp, Promise!Done, AddChange, DelChange, GoOn, GiveUp, Adding, Deleting
<1>1. ASSUME NEW n \in 1..MaxChanges, NEW changes \in [1..n -> Change], Submit(changes)
      PROVE  Promise!Next
  <2>1. changes \in Seq(Change) /\ Change = Promise!Changes(Id, Tuple \cup {BadValues})
    BY IndexAssumption, SeqDef DEF Change, Changes, Promise!Changes
  <2>2. Promise!Begin
    BY <1>1, <2>1 DEF Submit, index, Records, Promise!Begin, OK, Promise!OK
  <2> QED BY <2>2
<1>2. ASSUME NEW id \in Id, AddRejected(id) PROVE Promise!Next
  BY <1>2 DEF AddRejected, GiveUp, index, Records, Promise!Reject, ERROR, Promise!ERROR
<1>3. ASSUME NEW id \in Id, DelRecord(id) PROVE Promise!Next
  <2>1. Promise!Drop(id)
    BY <1>3, DelRecords DEF Promise!Drop, DelRecord, GoOn
  <2> QED BY <2>1
<1>4. ASSUME NEW id \in Id, DelMissing(id) PROVE Promise!Next
  <2>1. Records' = Records /\ Records = [x \in DOMAIN Records \ {id} |-> Records[x]]
    BY <1>4 DEF DelMissing, index, Records
  <2>2. Promise!Drop(id)
    BY <1>4, <2>1 DEF Promise!Drop, DelMissing
  <2> QED BY <2>2
<1>5. ASSUME NEW id \in Id, NEW t \in Tuple, AddUnchanged(id, t) PROVE Promise!Next
  <2>1. Records' = Records
    BY <1>5 DEF AddUnchanged, index, Records
  <2>2. /\ Records = [x \in DOMAIN Records \cup {id} |-> IF x = id THEN t ELSE Records[x]]
        /\ Promise!Holders(t) = {id}
    BY <1>5, UnchangedHeld
  <2>3. Records' = [x \in DOMAIN Records \cup {id} |-> IF x = id THEN t ELSE Records[x]]
    BY <2>1, <2>2, Zenon
  <2>4. Promise!Put(id, t)
    BY <1>5, <2>2, <2>3 DEF Promise!Put, AddUnchanged
  <2> QED BY <2>4
<1>6. ASSUME NEW id \in Id, NEW t \in Tuple, AddDuplicate(id, t) PROVE Promise!Next
  <2>1. ~tainted /\ Unique
    BY <1>6 DEF AddDuplicate, GiveUp
  <2>2. Promise!Refuse(id, t)
    BY <1>6, <2>1, DuplicateHeld
    DEF AddDuplicate, GiveUp, index, Records, Promise!Refuse, DUPLICATE_KEY, Promise!DUPLICATE_KEY
  <2> QED BY <2>2
<1>7. ASSUME NEW id \in Id, NEW t \in Tuple, AddNew(id, t) PROVE Promise!Next
  <2>1. Unique => Promise!Holders(t) \subseteq {id}
    BY <1>7, AdmittedUnheld DEF AddNew
  <2>2. Promise!Put(id, t)
    BY <1>7, <2>1, AddNewRecords DEF Promise!Put, AddNew, GoOn
  <2> QED BY <2>2
<1>8. ASSUME NEW id \in Id, NEW t \in Tuple, AddMove(id, t) PROVE Promise!Next
  <2>1. ~tainted
    BY <1>8 DEF AddMove
  <2>2. Unique => Promise!Holders(t) \subseteq {id}
    BY <1>8, <2>1, AdmittedUnheld DEF AddMove
  <2>3. Promise!Put(id, t)
    BY <1>8, <2>2, AddMoveRecords DEF Promise!Put, AddMove, GoOn
  <2> QED BY <2>3
<1>9. ASSUME Drop PROVE Promise!Next
  <2>1. Records' = <<>>
    BY <1>9 DEF Drop, Records
  <2> QED BY <1>9, <2>1 DEF Drop, Promise!Clear
<1>10. ASSUME UNCHANGED vars PROVE UNCHANGED <<Records, cs, rc>>
  BY <1>10 DEF vars, Records
<1> QED BY <1>1, <1>2, <1>3, <1>4, <1>5, <1>6, <1>7, <1>8, <1>9, <1>10 DEF Next, Apply

(* On every index, whatever ids share tuples, each step before the first   *)
(* dangling key does to the records what its command asked for.            *)
THEOREM EveryStepKeepsPromise == Spec => StepsKeepPromise
<1>1. IInv /\ [Next]_vars => [~tainted' => (Promise!Next \/ UNCHANGED <<Records, cs, rc>>)]_vars
  BY StepKeeps DEF KeepsPromise
<1> QED BY <1>1, Invariant, PTL DEF Spec, StepsKeepPromise

(* applyAdd and applyDel on a UNIQUE index implement the secondary index.  *)
THEOREM UniqueImplements ==
    ASSUME Unique
    PROVE  Spec => ImplementsSecondaryIndex
<1>1. Init => Promise!Init
  BY DEF Init, Promise!Init, Records, OK, Promise!OK
<1>2. IInv /\ IInv' /\ [Next]_vars => [Promise!Next]_<<Records, cs, rc>>
  <2>1. IInv' => ~tainted'
    BY DEF IInv, UniqueHoldsOnePerTuple
  <2> QED BY <2>1, StepKeeps DEF KeepsPromise
<1> QED BY <1>1, <1>2, Invariant, PTL DEF Spec, ImplementsSecondaryIndex, Promise!Spec

=============================================================================
