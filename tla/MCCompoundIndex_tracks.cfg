SPECIFICATION Spec
CONSTANTS
  TupleCount = 2
  Tuple <- MCTuple
  Lt <- MCLt
  Id = {a, b}
  Addr <- MCAddr
  Unique = FALSE
  NoKey = NoKey
  BadValues = BadValues
  MaxChanges = 1
INVARIANTS
  ReverseIndexTracks
