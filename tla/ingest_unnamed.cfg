SPECIFICATION Spec
CONSTANTS
  Worker = {"p1"}
  Work <- Unnamed
  Missing <- MCMissing
  Canon <- MCCanon
  EmptyName = ""
  Levels <- NoLevels
CHECK_DEADLOCK FALSE
INVARIANTS IngestedIsStored
