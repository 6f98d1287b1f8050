SPECIFICATION Spec
CONSTANTS
  FramePeriod = 10
  AudioPeriod = 4
  MaxTick = 24
  Ticks <- MCTicks
  MaxCalls = 2
  MaxInputs = 1
INVARIANTS
  Replayable
CHECK_DEADLOCK FALSE
