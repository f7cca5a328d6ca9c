---------------------------- MODULE MCHashIndex -----------------------------
(* Small instances: tuples are numbers; clauses that select everything in  *)
(* one range, everything but the middle in two, and through a filter.      *)
EXTENDS HashIndex

CONSTANTS TupleCount

MCTuple == 1..TupleCount
MCLt(s, t) == s < t
Alike == Permutations(Id) \cup Permutations(Addr)

To(s, t) == [min |-> s, max |-> t]
MCPlans ==
    {[ranges |-> <<To(1, TupleCount)>>, filter |-> MCTuple],
     [ranges |-> <<To(TupleCount, TupleCount), To(1, 1)>>, filter |-> MCTuple],
     [ranges |-> <<To(1, TupleCount)>>, filter |-> MCTuple \ {2}]}

=============================================================================
