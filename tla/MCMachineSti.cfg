SPECIFICATION Spec
CONSTANTS
  StackWords = 32
  Program <- MCProgram
  Ivt <- MCIvt
  Sources <- MCSources
  EnableMasks <- MCMasks
  MaxEvents = 3
PROPERTIES
  StiShadow
