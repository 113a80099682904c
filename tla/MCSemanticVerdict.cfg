CONSTANTS
  Input = {i1, i2}
  LedgerInput = i1
  NoInput = NoInput
  Worlds <- MCWorlds
SPECIFICATION FairSpec
INVARIANTS
  TypeOK
  VerdictsTrue
  ConfirmedMeansDifferent
  StrictIsSound
  OffLedgerIsOffLedger
PROPERTIES
  AllRecorded
CHECK_DEADLOCK FALSE
