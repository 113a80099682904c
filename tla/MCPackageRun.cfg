CONSTANTS
  p1 = p1
  p2 = p2
  Pair = {p1, p2}
  Same = {p2}
  Fallback = {}
  Builds <- MCBuilds
  MaxCalls = 3
  MaxFaults = 1
SPECIFICATION Spec
INVARIANTS
  TypeOK
  StrictTrue
PROPERTIES
  EvidenceKept
  ResumeReuses
  OnlyPairKeeps
CHECK_DEADLOCK FALSE
