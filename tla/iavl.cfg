SPECIFICATION Spec
CONSTANTS
    Key = {1, 2, 3, 4, 5, 6}
    Val = {a}
    None = None
    Sizes <- MCSizes
INVARIANTS HashDeterminesNode VersionsImmutable Consistent RangeYieldsContent
CHECK_DEADLOCK FALSE
