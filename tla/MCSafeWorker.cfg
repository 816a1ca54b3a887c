SPECIFICATION WorkerSpec
CONSTANTS
  c1 = c1
  c2 = c2
  c3 = c3
  c4 = c4
  plain = plain
  other = other
  bad = bad
  Calls <- MCCalls
  IdempotencyKeys <- MCKeys
  Bodies <- MCBodies
  BadThreshold <- MCBad
  Funds = 2
SYMMETRY MCSymmetry
INVARIANTS
  KeyNamesOneSafe
  ReadyIsCreated
CHECK_DEADLOCK FALSE
