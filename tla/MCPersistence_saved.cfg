SPECIFICATION PSpec
CONSTANTS
  TupleCount = 3
  Tuple <- MCTuple
  Lt <- MCLt
  Id = {a, b, c}
  Addr = {m1, m2, m3, m4}
  Unique = TRUE
  NoKey = NoKey
  NoDump = NoDump
  BadValues = BadValues
  MaxChanges = 2
INVARIANTS
  PTypeOK
  UniqueReloads
  KeysOwned
  UniqueHoldsOnePerTuple
  UniqueDropReleases
PROPERTIES
  ImplementsSecondaryIndex
SYMMETRY Symmetry
