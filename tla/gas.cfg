SPECIFICATION TxSpec
CONSTANTS
    GasMax = 31
    Key = {1, 2}
    Val = {a, b}
    None = None
    Limits = {0, 1, 7, 12, 30}
    ReadFlat = 2
    ReadPerByte = 1
    WriteFlat = 4
    WritePerByte = 3
    DeleteCost = 2
    IterNextFlat = 2
INVARIANTS OvershootsOneCharge
PROPERTIES WritesArePaid
CHECK_DEADLOCK FALSE
