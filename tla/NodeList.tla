------------------------------ MODULE NodeList ------------------------------
(***************************************************************************)
(* What the skip list (src/skiplist/skiplist.c) promises its caller, the   *)
(* compound index: an ordered list of nodes.  A node carries a key and the *)
(* values (ids) stored under it.  These operators say what one call does   *)
(* to that list.  Skiplist.tla shows that the tower and span bookkeeping   *)
(* of the C code implements them, and CompoundIndex.tla is built on them.  *)
(*                                                                         *)
(* A node holds a POINTER to its key, so the keys a search sees are passed *)
(* separately: keys[i] is what node i's pointer dereferences to.           *)
(***************************************************************************)
EXTENDS Integers, Sequences, SequencesExt

CONSTANTS
    Tuple,      \* the value tuples a key can hold, up to "compares equal"
    Lt(_, _)    \* the comparator: Lt(s, t) iff compare(s, t) < 0

ASSUME LtAssumption ==
    /\ \A s, t \in Tuple : Lt(s, t) \in BOOLEAN
    /\ \A s \in Tuple : ~Lt(s, s)
    /\ \A s, t \in Tuple : s # t => (Lt(s, t) \/ Lt(t, s))
    /\ \A s, t, u \in Tuple : Lt(s, t) /\ Lt(t, u) => Lt(s, u)

(* Where the search loop can stop for key k: the node before is smaller    *)
(* (or the header), the node there is not smaller (or the end).  On a      *)
(* sorted list there is exactly one such place; on a list whose keys have  *)
(* been overwritten, which one depends on the random towers.               *)
Landings(keys, k) ==
    {p \in 1..(Len(keys) + 1) :
        /\ p > 1 => Lt(keys[p - 1], k)
        /\ p <= Len(keys) => ~Lt(keys[p], k)}

(* The search found k itself. *)
Hit(keys, p, k) == p <= Len(keys) /\ keys[p] = k

(* skiplistNodeAppendValue: a value is stored once per node. *)
AppendValue(vals, v) == IF v \in ToSet(vals) THEN vals ELSE Append(vals, v)

(* The value loop of skiplistDelete: the last value takes the place of the *)
(* one removed; a value that is not there leaves the list alone.           *)
RemoveValue(vals, v) ==
    IF v \in ToSet(vals)
    THEN LET i == CHOOSE j \in DOMAIN vals : vals[j] = v
         IN  SubSeq([vals EXCEPT ![i] = vals[Len(vals)]], 1, Len(vals) - 1)
    ELSE vals

(* skiplistInsert, once the search has stopped at p. *)
ListInsert(list, keys, p, k, obj, v) ==
    IF Hit(keys, p, k)
    THEN [list EXCEPT ![p].vals = AppendValue(@, v)]
    ELSE InsertAt(list, p, [obj |-> obj, vals |-> <<v>>])

(* skiplistDelete of one value, once the search has stopped at p. *)
ListDelete(list, keys, p, k, v) ==
    IF ~Hit(keys, p, k) THEN list
    ELSE IF RemoveValue(list[p].vals, v) = <<>> THEN RemoveAt(list, p)
    ELSE [list EXCEPT ![p].vals = RemoveValue(@, v)]

=============================================================================
