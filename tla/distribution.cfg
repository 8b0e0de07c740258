CONSTANTS
    Denom <- MCDenom
    Unit = 4
    InflationRateChange = 1
    InflationMax = 1
    InflationMin = 0
    GoalBonded = 2
    BlocksPerYear = 4
    StakingDenom = "uatom"
    MintDenom = "uatom"
    Accounts <- MCAccounts
    Modules <- MCModules
    Validators <- MCValidators
    Known <- MCKnown
    CommissionRate <- MCCommissionRate
    CommunityTax = 1
    BaseProposerReward = 1
    BonusProposerReward = 1
    Genesis <- MCGenesis
    Votes <- MCVotes
    Bonded = {3, 30}
    Stakes = {0, 2}
    Amounts <- MCAmounts
    NoAddr = 0
    MaxHeight = 3
    MaxMsgs = 4

SPECIFICATION Spec

INVARIANTS
    RefCounts
    SupplyHeld

PROPERTY
    Conserved

CHECK_DEADLOCK FALSE
