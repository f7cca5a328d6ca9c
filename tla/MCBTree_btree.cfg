SPECIFICATION Spec
CONSTANTS
    Keys <- MCKeys
    Values <- MCValues
    x = x
    y = y
INVARIANTS
    TreeSound
    FindExact
    RangeExact
