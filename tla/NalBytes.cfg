SPECIFICATION Spec
CONSTANTS
  Inputs <- AllInputs
  MaxPayload = 3
  MaxBytes = 6
CHECK_DEADLOCK FALSE
INVARIANTS
  TypeOK
  StartsAreTheStartCodes
  BufferIsTheLastUnit
  GivesWhatWasWritten
PROPERTIES
  ReadsOn
