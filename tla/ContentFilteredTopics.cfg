SPECIFICATION Spec
CONSTANTS
    Digits = 6
    MaxLive = 2
INVARIANTS
    OneDigit
    NoEarlyReuse
