SPECIFICATION Spec
CONSTANTS
  NoCart = NoCart
  Images <- MCImages
  Models <- MCModels
  Damages <- MCDamages
  MaxEvents = 2
CHECK_DEADLOCK FALSE
INVARIANTS
  ChecksumTellsDamage
  EndsAsDeclared
PROPERTY EntersAtBootEntry
