----------------------------- MODULE MCSkiplist -----------------------------
(* Small instances of the skip list: keys are numbers; nothing tells one   *)
(* value, or one address, from another.                                    *)
EXTENDS Skiplist

CONSTANTS KeyCount

MCTuple == 1..KeyCount
MCLt(s, t) == s < t

Symmetry == Permutations(Val) \cup Permutations(NodeId)

=============================================================================
