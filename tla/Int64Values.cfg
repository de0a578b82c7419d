SPECIFICATION Spec
CONSTANTS
    MaxSafe = 15
    MaxInt = 255
    MaxExponent = 8
    MaxGiven = 600
    MaxRelays = 3
CHECK_DEADLOCK FALSE
INVARIANTS
    ExactWhereSafe
    NoDrift
