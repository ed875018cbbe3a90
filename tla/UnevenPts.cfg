SPECIFICATION FairSpec
CONSTANTS
  Inputs <- UnevenInBand
  NoTimestamp = NoTimestamp
  NumPictures = 3
  MaxDepth = 1
  MaxReorder = 2
INVARIANTS
  CorrectPts
