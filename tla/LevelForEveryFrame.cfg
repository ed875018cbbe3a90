SPECIFICATION Spec
CONSTANTS
  Runs <- PlainRuns
INVARIANTS
  LevelForEveryFrame
