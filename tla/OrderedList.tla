----------------------------- MODULE OrderedList ----------------------------
(***************************************************************************)
(* The abstract specification of the skip list: an ordered list of nodes,  *)
(* one per key, each with the values stored under the key.  There are no   *)
(* towers, spans or back pointers here.                                    *)
(***************************************************************************)
EXTENDS NodeList

CONSTANTS
    Val,    \* the values (ids) stored under keys
    Nil     \* NULL

VARIABLES
    list,   \* sequence of nodes, in key order
    ret     \* the key of the node the last call found, made or removed, or Nil

Keys == [i \in DOMAIN list |-> list[i].obj]

Init == list = <<>> /\ ret = Nil

(* The result of an append is unspecified: the C function falls off its end. *)
Insert(k, v) ==
    \E p \in Landings(Keys, k) :
        /\ list' = ListInsert(list, Keys, p, k, k, v)
        /\ \/ ~Hit(Keys, p, k) /\ ret' = k
           \/ Hit(Keys, p, k) /\ v \in ToSet(list[p].vals) /\ ret' = Nil
           \/ Hit(Keys, p, k) /\ v \notin ToSet(list[p].vals) /\ ret' \in {k, Nil}

DeleteValue(k, v) ==
    \E p \in Landings(Keys, k) :
        /\ list' = ListDelete(list, Keys, p, k, v)
        /\ ret' = IF Hit(Keys, p, k) THEN k ELSE Nil

RemoveNode(p) ==
    /\ list' = RemoveAt(list, p)
    /\ ret' = list[p].obj

DeleteKey(k) ==
    \/ \E p \in DOMAIN list : list[p].obj = k /\ RemoveNode(p)
    \/ k \notin ToSet(Keys) /\ list' = list /\ ret' = Nil

PopEmpty == list = <<>> /\ list' = list /\ ret' = Nil
PopHead == list # <<>> /\ RemoveNode(1)
PopTail == list # <<>> /\ RemoveNode(Len(list))

Next ==
    \/ \E k \in Tuple, v \in Val : Insert(k, v) \/ DeleteValue(k, v)
    \/ \E k \in Tuple : DeleteKey(k)
    \/ PopEmpty \/ PopHead \/ PopTail

Spec == Init /\ [][Next]_<<list, ret>>

=============================================================================
