SPECIFICATION Spec
CONSTANTS
  StackWords = 32
  Program <- AliasProgram
  Ivt <- MCIvt
  Sources <- MCSources
  EnableMasks <- MCMasks
  MaxEvents = 4
PROPERTIES
  SocPortsAlias
