CONSTANTS
    u1 = u1
    u2 = u2
    k1 = k1
    Users <- MCUsers
    Keys <- MCKeys
    INDEX_SCALE = 2
    Rent = 2
    U64Max = 9
    MaxLamports = 6
    Amounts <- MCAmounts
    Lamports <- MCLamports
    OpIds <- MCOpIds
    RewardBps <- MCRewardBps
    InitialAttn = 2
SYMMETRY MCSymmetry
SPECIFICATION RewardsSpec
INVARIANTS
    RewardsInv
    StakerCanExit
    NoRetroactiveRewards
