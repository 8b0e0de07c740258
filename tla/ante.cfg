CONSTANTS
    a = a
    b = b
    fees = fees
    pool = pool
    mint = mint
    x = x
    y = y
    Addr = {a, b}
    Module = {fees, pool, mint}
    Permissions <- MCPermissions
    FeeCollector = fees
    Minter = mint
    Denom = {x, y}
    SendEnabled = {x}
    NoAccount = NoAccount
    None = None
    Coins <- MCCoins
    Fees <- MCFees
    Timeouts = {0, 1}
    GenesisUsers = {a}
    GenesisModules = {pool}
    GenesisBalances <- MCBalances
    Metadata <- MCMetadata
    GenesisFile <- MCGenesisFile
    AddedMetadata <- MCAdded
    DenomOrder <- MCOrder
    MaxGas = 15
    PriceUnit = 2
    Prices = {0, 1, 3}
    TxCostPerByte = 2
    SigVerifyCost = 3
    MaxMemoCharacters = 2
    Small = 4
    MaxTxs = 2
    MaxHeight = 2
    MaxSupply = 3
SPECIFICATION Spec
INVARIANTS SupplyIsBalances NoReplay
PROPERTY AcceptedPays
CHECK_DEADLOCK FALSE
