SPECIFICATION HFairSpec
CONSTANTS
  p1 = p1
  p2 = p2
  p3 = p3
  Players <- Two
  Sentinel = Sentinel
  Null = Null
  NameKinds <- AnyMarkers
  MaxEvents = 1
  MaxTracked = 2
  MaxSteps = 4
PROPERTIES
  TrackingFollowsNames
