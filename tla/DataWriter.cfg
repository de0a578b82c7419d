SPECIFICATION Spec
CONSTANTS
    k1 = k1
    k2 = k2
    Keys = {k1, k2}
    MaxCalls = 3
    MaxNesting = 2
SYMMETRY Symmetry
CHECK_DEADLOCK FALSE
INVARIANTS
    ValuesFreed
    ProgramIsTold
