SPECIFICATION Spec
CONSTANTS
    YYSTACKDEPTH = 8
    Texts <- MCTexts
    Specs <- MCSpecs
INVARIANTS
    AnswerExact
    MemoryAccounted
    MarkedAlike
    NormalizeExact
PROPERTY
    Answered
CHECK_DEADLOCK FALSE
