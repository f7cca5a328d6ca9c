SPECIFICATION PSpec
CONSTANTS
  TupleCount = 2
  Tuple <- MCTuple
  Lt <- MCLt
  Id = {a, b, c}
  Addr = {m1, m2, m3, m4}
  Unique = FALSE
  NoKey = NoKey
  NoDump = NoDump
  BadValues = BadValues
  MaxChanges = 2
INVARIANTS
  TypeOK
  KeysOwned
  LengthCounts
  ConsistentUntilTainted
PROPERTIES
  StepsKeepPromise
SYMMETRY Symmetry
