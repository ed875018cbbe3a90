SPECIFICATION Spec
CONSTANTS
  Inputs <- AllInputs
CHECK_DEADLOCK FALSE
INVARIANTS
  TypeOK
  ReadsWhatWasWritten
  SizesWithinTaken
  NoBitsLeftOver
PROPERTIES
  ReadsOn
