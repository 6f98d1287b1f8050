SPECIFICATION SpecVerdicts
CONSTANT Workloads <- Fixtures
CHECK_DEADLOCK FALSE
INVARIANTS
  V20OnlyIsSkipped
  ReportsAddUp
  SameCaseSameVerdict
  AdditionIsExact
  MultiplicationIsExact
  ShiftsAreExact
  OperandsAreExact
  StringsGoElementByElement
  ReturnsUndoEntries
PROPERTY Terminates
