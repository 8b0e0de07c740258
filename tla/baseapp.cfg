SPECIFICATION Spec
CONSTANTS
    Store = {s1, s2}
    Key = {1}
    Val = {a}
    None = None
    Batches <- MCBatches
    Txs <- MCTxs
    AnteStore = s1
    GasCosts = {1}
    GasMax = 4
    BlockGas = 2
    MaxHeight = 2
    ParamsStore = s2
INVARIANTS ModesAgree CheckFollowsApp InfoMatchesDisk BlockGasBounded DeliverAtomic
PROPERTIES LedgerSpec
CHECK_DEADLOCK FALSE
