SPECIFICATION Spec
CONSTANTS
    Digits = 6
    MaxLive = 2
INVARIANT NamesAreUnique
