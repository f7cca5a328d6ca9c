-------------------------- MODULE MCCompoundIndex ---------------------------
(* Small instances of the compound index: tuples are numbers.  One address *)
(* more than there are ids, so that malloc always has a choice.            *)
EXTENDS CompoundIndex

CONSTANTS TupleCount

MCTuple == 1..TupleCount
MCLt(s, t) == s < t
MCAddr == 1..(Cardinality(Id) + 1)

=============================================================================
