SPECIFICATION FairSpec
CONSTANTS
  StackWords = 32
  Program <- MCProgram
  Ivt <- MCIvt
  Sources <- MCSources
  EnableMasks <- MCMasks
  MaxEvents = 4
INVARIANTS
  TypeOK
  OncePerEvent
  FramesIntact
PROPERTIES
  ProgramBehaves
  Transparent
  UsesPort
  EdgeIrqServed
  HandlersReturn
