SPECIFICATION Spec
CONSTANTS
    Int32Half = 8
    Int64Half = 32
    Id = {a, b}
    Tuples <- MCTuples
    Creates <- MCCreates
INVARIANTS
    RecordsFit
    CreateExact
    DumpRestores
    RewriteKeepsInt32
