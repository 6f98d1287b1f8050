SPECIFICATION Spec
CONSTANTS
  Bytes <- MCBytes
  EnableMasks <- MCEnableMasks
INVARIANTS
  TypeOK
  NoStaleSerialIrq
PROPERTIES
  EdgeHeldUntilAcknowledged
  LevelHeldUntilSourceClears
