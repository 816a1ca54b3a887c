SPECIFICATION OnboardingSpec
CONSTANTS
    w1 = w1
    w2 = w2
    None = None
    Wallets <- MCWallets
    CreatorVault <- MCCreatorVault
    MaxNonces = 2
    MaxKeys = 2
    MaxCalls = 2
    Scenarios <- MCScenarios
INVARIANTS
    PanelTellsTruth
    OneSubmission
PROPERTIES
    RefusedNeverResent
    PanelSettles
CHECK_DEADLOCK FALSE
