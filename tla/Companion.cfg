SPECIFICATION HFairSpec
CONSTANTS
  ann = ann
  k1 = k1
  k2 = k2
  People <- OnePerson
  Readable <- OnePerson
  Fallback = Player
  Nobody = Nobody
  Keys <- TwoKeys
  F9 = k1
  NoKey = NoKey
INVARIANTS
  CTypeOK
  OneMarker
  SignalsAgree
  NameReturns
PROPERTIES
  OneTogglePerPress
  ConfigTakesEffect
  ImplementsSignals
