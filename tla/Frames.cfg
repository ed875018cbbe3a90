SPECIFICATION FairSpec
CONSTANTS
  Streams <- AllStreams
  Misreads <- SomeMisreads
  MaxFrames = 3
CHECK_DEADLOCK FALSE
INVARIANTS
  BlocksFoundAreBlocksWritten
  LevelsFitInLayer
  RefusesOnlyOutOfStep
  SizesAreWritten
PROPERTIES
  Termination
