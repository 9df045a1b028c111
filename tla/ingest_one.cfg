SPECIFICATION Spec
CONSTANTS
  Worker = {"p1"}
  Work <- OneProcess
  Missing <- MCMissing
  Canon <- MCCanon
  EmptyName = ""
  Levels <- SomeLevels
CHECK_DEADLOCK FALSE
INVARIANTS OneRowPerName LinksMeaningful NoDanglingIds
