CONSTANTS
    a1 = a1
    k1 = k1
    h1 = h1
    h2 = h2
    None = None
    Rows <- MCRows
    Keys <- MCKeys
    Handlers <- MCHandlers
    STALLED_MAX_AUTO_ATTEMPTS = 3
    MaxNonces = 2
    MaxActs = 1
    MaxRestarts = 1
SPECIFICATION FairSafesSpec
INVARIANTS
    SafesTypeOK
    NonceSpentOnce
    AutoRetriesBounded
PROPERTIES
    RetryAsksForSameSafe
    ReadyStays
    Settles
CHECK_DEADLOCK FALSE
