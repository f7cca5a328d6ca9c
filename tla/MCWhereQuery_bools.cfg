SPECIFICATION Spec
CONSTANTS
    YYSTACKDEPTH = 8
    Texts <- MCTexts
    Specs <- MCSpecs
INVARIANTS
    CastsComparable
CHECK_DEADLOCK FALSE
