SPECIFICATION FairSpec
CONSTANTS
  Inputs <- IntactInBand
  NoTimestamp = NoTimestamp
  NumPictures = 3
  MaxDepth = 1
  MaxReorder = 2
INVARIANTS
  FlushLeavesNothing
