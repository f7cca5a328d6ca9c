--------------------------- MODULE MCPersistence ----------------------------
(* Small instances of an index that is saved and loaded; tuples are        *)
(* numbers, and malloc always has one address to choose from.  Nothing     *)
(* tells one id, or one address, from another.                             *)
EXTENDS Persistence

CONSTANTS TupleCount

MCTuple == 1..TupleCount
MCLt(s, t) == s < t

Symmetry == Permutations(Id) \cup Permutations(Addr)

=============================================================================
