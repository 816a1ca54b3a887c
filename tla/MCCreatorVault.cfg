CONSTANTS
    u1 = u1
    u2 = u2
    creator = creator
    k1 = k1
    k2 = k2
    d1 = d1
    NoSweeper = NoSweeper
    SplitterPda = splitter
    Authority = creator
    Users <- MCUsers
    Mints <- MCMints
    Admins <- MCAdmins
    Delegates <- MCDelegates
    SplitterRegistered = TRUE
    U64Max = 3
    MaxTime = 3
    MaxBurned = 1
    Amounts <- MCAmounts
    FeeBps <- MCFeeBps
    RewardBps <- MCRewardBps
    Expiries <- MCExpiries
SYMMETRY MCSymmetry
SPECIFICATION VaultSpec
INVARIANTS
    VaultTypeOK
    CreatorCanWithdraw
PROPERTIES
    LockHonoured
    LockEndsProperly
