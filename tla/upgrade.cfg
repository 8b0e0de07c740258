CONSTANTS
    Name = {n1, n2}
    FourByteNames = {n2}
    Binaries = {{}, {n1}, {n1, n2}}
    SkipHeights = {3}
    None = None
    Modules = {m1, m2}
    LastHeight = 6
SPECIFICATION UpgradeSpec
INVARIANTS PlanNotPassed
PROPERTIES AppliedOnTime
