CONSTANTS
    Denom <- MCDenom
    Unit = 4
    Accounts <- MCAccounts
    Validators <- MCValidators
    Proposals <- MCProposals
    Genesis <- MCGenesis
    Stakings <- MCStakings
    Amounts <- MCAmounts
    Ballots <- MCBallots
    Contents <- MCContents
    DepositPeriod = 2
    NoVote = NoVote
    MaxTime = 6
    MaxMsgs = 4

    NanosPerSecond = 4
    SecondsPerHour = 3
    MinSeconds <- MCMinSeconds
    MaxSeconds = 4
    AbsSeconds = 9
SPECIFICATION GovSpec

INVARIANTS
    DepositsAccounted
    PowerWithinBonded

CHECK_DEADLOCK FALSE
