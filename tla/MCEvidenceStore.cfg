CONSTANTS
  Proc = {p1, p2}
  Key = {k1}
  Boundary = {b1, b2}
  Attempt <- MCAttempt
  NoEntry = NoEntry
  NoRequest = NoRequest
  NoOutcome = NoOutcome
  MaxCalls = 2
  MaxFaults = 2
SPECIFICATION FairSpec
INVARIANTS
  TypeOK
  WritersAlone
  NoHalfPublishedEntry
  AnswersAgree
  StoredReplacesForGood
PROPERTIES
  GoodEntriesStay
  OperationsEnd
  Implements
CHECK_DEADLOCK FALSE
