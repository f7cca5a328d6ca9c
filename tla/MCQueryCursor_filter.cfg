SPECIFICATION Spec
CONSTANTS
  NumProps = 2
  MaxValue = 2
  DeepOps = {}
  Ops = {"=", ">", "IN"}
  Null = Null
  Inf = Inf
  NegInf = NegInf
  NoNode = NoNode
  PrefixEnd <- MCPrefixEnd
  Queries <- MCQueries
  Contents <- MCContents
INVARIANTS
  AnswersEveryClause
CHECK_DEADLOCK FALSE
