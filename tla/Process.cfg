SPECIFICATION PFairSpec
CONSTANTS
  t1 = t1
  Threads <- OneThread
  SleepTime = 2
  WalkTime = 1
  WaitTime = 3
  MaxRefs = 2
  InjectTime = 5
  MaxRuns = 2
INVARIANTS
  ProcessTypeOK
  ScanLeavesFirst
  Footprint
  NothingLeaked
  PathKept
PROPERTIES
  ImplementsFunction
  UnloadEnds
CHECK_DEADLOCK FALSE
