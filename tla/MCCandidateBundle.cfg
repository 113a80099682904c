CONSTANTS
  tRequired = t1
  tOptional = t2
  p1 = p1
  p2 = p2
  h1 = h1
  h2 = h2
  Gate = {g1, g2}
  Task = {t1, t2, t3}
  Pair = {p1, p2}
  Handler = {h1, h2}
  Equivalence = {t1, t2}
  Demanding = {t1}
  PairsOf <- MCPairsOf
  HandlersOf <- MCHandlersOf
  PairOf <- MCPairOf
  Changed = {p2}
  ModelsOf <- MCModelsOf
  Verdict = {"equivalent_under_raw_model", "bounded_equivalent"}
  MayCall <- MCMayCall
  MaxDamage = 1
  AtOnce = 1
SYMMETRY MCGates
SPECIFICATION Spec
INVARIANTS
  TypeOK
  AcceptedWhole
  StrictEarned
  RaisesExcused
  PublishedEarned
CHECK_DEADLOCK FALSE
