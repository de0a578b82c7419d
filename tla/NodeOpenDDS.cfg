SPECIFICATION Spec
CONSTANTS
    p1 = p1
    p2 = p2
    r1 = r1
    r2 = r2
    Participants = {p1, p2}
    Readers = {r1, r2}
    MaxFailures = 1
    MaxWriters = 1
    Digits = 1
SYMMETRY Symmetry
CHECK_DEADLOCK FALSE
INVARIANTS
    EntitiesBalanced
    DanglingHandlesExplained
    TakingReaderIsKept
PROPERTIES
    DeletionsExplained
    EntitiesHaveOwners
    ListenersLiveOnce
