CONSTANTS
    u1 = u1
    u2 = u2
    creator = creator
    k1 = k1
    NoSweeper = NoSweeper
    NoPosition = NoPosition
    SplitterPda = splitter
    Authority = creator
    Users <- MCUsers
    Mints <- MCMints
    Admins <- MCAdmins
    Delegates <- MCNone
    SplitterRegistered = TRUE
    U64Max = 2
    MaxTime = 2
    MaxBurned = 1
    Amounts <- MCAmounts
    FeeBps <- MCNone
    RewardBps <- MCNone
    Expiries <- MCNone
    FEE_INDEX_SCALE = 3
    MaxFeeIndex = 3
    Maturities <- MCMaturities
SYMMETRY MCSymmetry
SPECIFICATION SplitterSpec
INVARIANTS
    SplitterInv
    MatchedPairRedeemable
    SteadyHolderPaidExactly
