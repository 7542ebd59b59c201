SPECIFICATION PSpec
CONSTANTS
  p1 = p1
  p2 = p2
  o1 = o1
  t1 = t1
  Players <- TwoPlayers
  Objects <- OneObject
  Threads <- OneThread
  Sentinel = Sentinel
  Null = Null
  NameKinds <- AlwaysSP
  MaxEvents = 1
  MaxTracked = 2
  MaxSteps = 3
INVARIANTS
  AlwaysTrackedBlocks
