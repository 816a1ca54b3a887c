CONSTANTS
    u1 = u1
    u2 = u2
    k1 = k1
    usdc = usdc
    usdt = usdt
    StableMint = usdc
    NoKey = NoKey
    MAX_ACCEPTED_MINTS = 2
    StableMints <- MCStableMints
    SolSplits <- MCNoSplit
    Users <- MCTwoUsers
    Keys <- MCKeys
    INDEX_SCALE = 2
    Rent = 1
    U64Max = 7
    MaxLamports = 0
    Amounts <- MCThree
    Lamports <- MCNone
    OpIds <- MCTwo
    RewardBps <- MCRewardBps
    InitialAttn = 0
SYMMETRY MCSymmetry
SPECIFICATION StableSpec
INVARIANTS
    HoldersWhole
PROPERTIES
    NavNeverDiluted
