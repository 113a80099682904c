CONSTANTS
  Build = {b1, b2}
  Kind = {"local", "release", "profile"}
  Label = {"one", "two"}
  Version = {1, 2}
  Locked = 1
  Movable = {"tracked", "untracked", "tag", "tool"}
  Quiet = FALSE
  MayCrash = TRUE
  AtOnce = 1
  MaxMoves = 2
  MaxDamage = 1
SYMMETRY MCBuilds
SPECIFICATION Spec
INVARIANTS
  TypeOK
  BinaryOfItsSource
  AnswerMatches
  ReleasesLocked
CHECK_DEADLOCK FALSE
