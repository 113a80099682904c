CONSTANTS
  tRequired = t1
  tOptional = t2
  p1 = p1
  p2 = p2
  h1 = h1
  h2 = h2
  Gate = {g1}
  Task = {t1, t2, t3}
  Pair = {p1, p2}
  Handler = {h1, h2}
  Equivalence = {t1, t2}
  Demanding = {t1}
  PairsOf <- MCPairsOf
  HandlersOf <- MCHandlersOf
  PairOf <- MCPairOf
  Changed = {p2}
  ModelsOf <- MCModelsOf
  Verdict = {"equivalent_under_raw_model", "bounded_equivalent"}
  MayCall <- MCOneFails
  MaxDamage = 0
  AtOnce = 1
SPECIFICATION Spec
INVARIANTS
  FailuresDecided
CHECK_DEADLOCK FALSE
