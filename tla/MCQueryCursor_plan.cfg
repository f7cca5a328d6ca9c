SPECIFICATION Spec
CONSTANTS
  NumProps = 2
  MaxValue = 2
  DeepOps = {"=", ">", "<", "IN", "IS NULL"}
  Ops = {"=", ">", ">=", "<", "<=", "LIKE", "IN", "IS NULL"}
  Null = Null
  Inf = Inf
  NegInf = NegInf
  NoNode = NoNode
  PrefixEnd <- MCPrefixEnd
  Queries <- MCQueries
  Contents <- MCContents
INVARIANTS
  TypeOK
  AnswerExact
  RangesExact
  RefusedOnlyUnbound
  NodesFreedOnce
CHECK_DEADLOCK FALSE
