CONSTANTS
  Build = {b1}
  Kind = {"local"}
  Label = {"one"}
  Version = {1, 2}
  Locked = 1
  Movable = {"ignored"}
  Quiet = TRUE
  MayCrash = FALSE
  AtOnce = 1
  MaxMoves = 1
  MaxDamage = 0
SYMMETRY MCBuilds
SPECIFICATION Spec
INVARIANTS
  Rebuilds
CHECK_DEADLOCK FALSE
