SPECIFICATION Spec
CONSTANTS
    Width = 2
    MaxDepth = 3
    MaxSize = 4
    MaxSamples = 2
CHECK_DEADLOCK FALSE
INVARIANTS
    ResultIsSample
    StackFollowsWalk
    NoResultAfterFailure
    StaleHandlesExplained
