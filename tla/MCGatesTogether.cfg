CONSTANTS
  tRequired = t1
  tOptional = t2
  p1 = p1
  p2 = p2
  h1 = h1
  h2 = h2
  Gate = {g1, g2}
  Task = {t1, t3}
  Pair = {p1, p2}
  Handler = {h1, h2}
  Equivalence = {t1}
  Demanding = {t1}
  PairsOf <- MCPairsOf
  HandlersOf <- MCHandlersOf
  PairOf <- MCPairOf
  Changed = {p2}
  ModelsOf <- MCModelsOf
  Verdict = {"equivalent_under_raw_model", "bounded_equivalent"}
  MayCall <- MCRacing
  MaxDamage = 0
  AtOnce = 2
SYMMETRY MCGates
SPECIFICATION Spec
INVARIANTS
  AcceptedWhole
CHECK_DEADLOCK FALSE
