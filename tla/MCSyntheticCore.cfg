SPECIFICATION FairSpec
CONSTANTS
  FramePeriod = 10
  AudioPeriod = 4
  MaxTick = 24
  Ticks <- MCTicks
  MaxCalls = 4
  MaxInputs = 2
INVARIANTS
  NothingOverdue
  InputSettled
  FramesShowHeldInput
PROPERTIES
  OnSchedule
  CallReturns
CHECK_DEADLOCK FALSE
