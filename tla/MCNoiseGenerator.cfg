SPECIFICATION NoiseSpec
CONSTANTS
  NoiseBytes <- Modes
  CtrlBytes <- Ctrls
INVARIANT NoiseAdvances
