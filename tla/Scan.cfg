SPECIFICATION HSpec
CONSTANTS
  p1 = p1
  p2 = p2
  p3 = p3
  Players <- Three
  Sentinel = Sentinel
  Null = Null
  NameKinds <- AnyMarkers
  MaxEvents = 1
  MaxTracked = 2
  MaxSteps = 3
SYMMETRY Symmetry
INVARIANTS
  ScanTypeInv
  FreshEvidence
  SteadyCollected
  ScanExact
