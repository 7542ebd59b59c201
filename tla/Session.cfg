SPECIFICATION SFairSpec
CONSTANTS
  p1 = p1
  c1 = c1
  c2 = c2
  Players <- OneAddress
  Sentinel = Sentinel
  Null = Null
  NameKinds <- ShownKinds
  MaxEvents = 1
  MaxTracked = 1
  MaxSteps = 2
  Clients <- TwoClients
  Absent = Absent
  MaxMoves = 3
INVARIANTS
  SessionTypeOK
  NoUnaskedMode
PROPERTIES
  ModeTakesEffect
