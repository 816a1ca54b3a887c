CONSTANTS
    u1 = u1
    u2 = u2
    k1 = k1
    usdc = usdc
    usdt = usdt
    StableMint = usdc
    NoKey = NoKey
    MAX_ACCEPTED_MINTS = 2
    StableMints <- MCOneMint
    SolSplits <- MCSolSplits
    Users <- MCOneUser
    Keys <- MCKeys
    INDEX_SCALE = 2
    Rent = 1
    U64Max = 2
    MaxLamports = 3
    Amounts <- MCOne
    Lamports <- MCPair
    OpIds <- MCTwo
    RewardBps <- MCRewardBps
    InitialAttn = 0
SPECIFICATION StableSpec
INVARIANTS
    BooksMatchAccounts
    PendingSolSpendable
