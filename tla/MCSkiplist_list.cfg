SPECIFICATION Spec
CONSTANTS
  KeyCount = 3
  Tuple <- MCTuple
  Lt <- MCLt
  NodeId = {n1, n2, n3}
  Val = {a, b}
  Nil = Nil
  Header = Header
  MaxLevel = 3
INVARIANTS
  TypeOK
  LevelsNested
  SpansExact
  BackLinksMirror
  FindExact
  ScanExact
PROPERTIES
  ImplementsOrderedList
SYMMETRY Symmetry
