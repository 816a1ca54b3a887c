SPECIFICATION AdvanceSpec
CONSTANTS
  alice = alice
  bob = bob
  None = None
  DemoQuote = DemoQuote
  Wallets <- MCWallets
  Ids <- MCIds
  Admin = alice
  maxRetries = 1
  MaxMounts = 2
  MaxActs = 5
INVARIANTS
  OneDealPerQuote
  NoSilentLoss
  ShownTradeWasDone
PROPERTIES
  ProcessingEnds
CHECK_DEADLOCK FALSE
