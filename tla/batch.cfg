SPECIFICATION FairSpec
CONSTANTS
  File = {f1, f2}
  MaxRetries = 2
  InitialWait = 50
  WaitCap = 60
  Jitter = {0, 2}
  MaxRuns = 2
CHECK_DEADLOCK FALSE
INVARIANTS TypeOK CountsAddUp HeaderFirst StoredOncePerRun CallsBounded
PROPERTIES BatchEnds OneOutcomeEach
