SPECIFICATION SpriteSpec
CONSTANTS
  OamBytes = 2
  Indices <- MCIndices
  Values <- MCValues
  MaxEvents = 5
INVARIANTS
  ShowsLastCopyBeforeFrame
