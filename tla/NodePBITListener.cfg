SPECIFICATION Spec
CONSTANTS
    p1 = p1
    p2 = p2
    t1 = t1
    t2 = t2
    l1 = l1
    l2 = l2
    Participants = {p1, p2}
    Threads = {t1, t2}
    Listeners = {l1, l2}
    MaxVersion = 2
SYMMETRY Symmetry
CHECK_DEADLOCK FALSE
INVARIANTS
    SettledIsCurrent
    AsyncFindsSample
    BacklogBounded
    DanglingHandlesExplained
