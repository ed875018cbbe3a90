SPECIFICATION Spec
CONSTANTS
  Inputs <- AllInputs
  MaxProbeBytes = 600
CHECK_DEADLOCK FALSE
INVARIANTS
  IntactIsOpened
  RunsAsAsked
