SPECIFICATION FairSpec
CONSTANTS
  Inputs <- Intact
  NoTimestamp = NoTimestamp
  NumPictures = 5
  MaxDepth = 2
  MaxReorder = 3
INVARIANTS
  IntactFileSucceeds
  WindowSuffices
PROPERTIES
  DeliversInPresentationOrder
