SPECIFICATION Spec
CONSTANTS
  Runs <- AllRuns
INVARIANTS
  WellTimedRunsPrint
  ReleasedOnTime
  LevelIsInflowLessFrames
  InitialFillReached
  RatesPass
