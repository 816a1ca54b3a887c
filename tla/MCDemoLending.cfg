SPECIFICATION DemoSpec
CONSTANTS
  Tabs = {t1}
  SEED <- MCSeed
  LENT <- MCLent
  LENTRATE <- MCLentRate
  FEES <- MCFees
  Earnings <- MCEarnings
  Slices <- MCSlices
  Amounts <- MCAmounts
  MaxActs = 9
INVARIANTS
  DemoBooks
PROPERTIES
  WritesAreCurrent
  ButtonsComeBack
CHECK_DEADLOCK FALSE
