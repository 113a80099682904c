CONSTANTS
  Input = {i1, i2}
  LedgerInput = i1
  NoInput = NoInput
  Worlds <- MCWorlds
SPECIFICATION FairSpec
INVARIANT BoundedMeansSolverValid
CHECK_DEADLOCK FALSE
