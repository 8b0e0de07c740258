CONSTANTS
    EntryKey = {1, 2, 3, 4, 5}
    Limits = {0, 1, 2, 4}
    LimitMax = 3
    NoKey = NoKey
    MaxCommits = 3

SPECIFICATION WalkSpec

INVARIANTS
    SeenInOrder
    WalkComplete

PROPERTY
    WalkEnds
