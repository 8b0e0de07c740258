CONSTANTS
    Accounts <- MCAccounts
    Validators <- MCValidators
    Dec = 2
    PowerReduction = 1
    MaxValidators = 1
    MaxEntries = 1
    HistoricalEntries = 2
    UnbondingTimes = {1, 2}
    Genesis <- MCGenesis
    Amounts = {1, 2}
    MinSelf = {1, 2}
    Commissions <- MCCommissions
    Rates = {1}
    Day = 2
    Ticks = 2
    MaxHeight = 3
    MaxTime = 3
    MaxMsgs = 4

SPECIFICATION Spec

INVARIANTS
    SharesAreDelegations
    PoolsAccounted
    PowerIndexExact
    UnbondingQueued
    LastSetIsBonded
    QueriesAgree

CHECK_DEADLOCK FALSE
