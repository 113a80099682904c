CONSTANTS
  gLast = g2
  b1 = b1
  b2 = b2
  Gate = {g1, g2}
  Batch = {b1, b2}
  NumKinds = 3
  Schedule <- MCSchedule
  NoEntry = NoEntry
  NoGate = NoGate
  MaxFaults = 2
SPECIFICATION FairSpec
INVARIANTS
  TypeOK
  StoreCoherent
  BatchFromOneExecution
  NoDuplicateExecution
  GatesAgree
PROPERTIES
  GatesFinish
CHECK_DEADLOCK FALSE
