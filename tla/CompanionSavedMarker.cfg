SPECIFICATION HSpec
CONSTANTS
  ann = ann
  k1 = k1
  k2 = k2
  People <- OnePerson
  Readable <- OnePerson
  Fallback = Player
  Nobody = Nobody
  Keys <- OneKey
  F9 = k1
  NoKey = NoKey
INVARIANTS
  OverlayTellsServerMode
