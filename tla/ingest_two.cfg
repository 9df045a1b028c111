SPECIFICATION FairSpec
CONSTANTS
  Worker = {"p1", "p2"}
  Work <- TwoProcesses
  Missing <- MCMissing
  Canon <- MCCanon
  EmptyName = ""
  Levels <- NoLevels
CHECK_DEADLOCK FALSE
INVARIANTS TypeOK NoDanglingIds LinkedOnce StoredWhole IngestedIsStored
PROPERTIES AllIngested StoresAtOnce
