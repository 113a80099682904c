CONSTANTS
  s1 = s1
  e1 = e1
  e2 = e2
  n1 = n1
  d1 = d1
  p1 = p1
  p2 = p2
  p3 = p3
  Source = {s1}
  Task = {e1}
  SourceOf <- MCSourceOf
  Equivalence = {e1}
  Required = {e1, e2}
  Pairs <- MCPairs
  Selections <- MCSelections
  Jobs = 2
  MaxCalls = 3
  MaxFaults = 0
SPECIFICATION Spec
INVARIANTS
  EveryPairPasses
CHECK_DEADLOCK FALSE
