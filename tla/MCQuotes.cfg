CONSTANTS
    r1 = r1
    r2 = r2
    w1 = w1
    w2 = w2
    e1 = e1
    s1 = s1
    Requests <- MCRequests
    Wallets <- MCWallets
    Allowlist <- MCWallets
    IsDevnet = TRUE
    Epochs <- MCEpochs
    Maturity <- MCMaturity
    Sizes <- MCSizes
    Prices <- MCPrices
    Ttl = 1
    WalletLimit = 2
    EpochLimit = 3
    MaxQuotes = 2
    MaxTime = 2
SPECIFICATION FairQuotesSpec
INVARIANTS
    QuotesInv
PROPERTIES
    InflightReleased
    KeepsLifecycle
