SPECIFICATION Spec
CONSTANTS
    Members = {a, b}
    Discriminator = discriminator
    NoName = noName
    Width = 2
    MaxLength = 2
    MaxDepth = 3
    MaxReads = 5
SYMMETRY Symmetry
CHECK_DEADLOCK FALSE
INVARIANTS
    ReadsItsOwn
    LookupsAgree
    CrashExplained
    AcceptsWhatFits
    NothingSkipped
