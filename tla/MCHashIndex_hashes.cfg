SPECIFICATION HashSpec
CONSTANTS
  TupleCount = 3
  Tuple <- MCTuple
  Lt <- MCLt
  Id = {a, b, c}
  Addr = {p, q, r, s}
  Unique = TRUE
  NoKey = NoKey
  BadValues = BadValues
  MaxChanges = 1
  NoHash = NoHash
  Unparsable = Unparsable
  NoNode = NoNode
  Plans <- MCPlans
INVARIANTS
  HashTypeOK
  CursorLive
  DeleteVisitsMatching
  WritesReachMatching
  IndexFollowsHashes
SYMMETRY Alike
