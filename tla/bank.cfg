SPECIFICATION Spec
CONSTANTS
    Key = {1, 2}
    Val = {a, b}
    None = None
INVARIANTS ScanYieldsView TxScanComplete
PROPERTIES MovesPreserveReads CommitKeepsReads
