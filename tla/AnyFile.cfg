SPECIFICATION FairSpec
CONSTANTS
  Inputs <- AnyFiles
  NoTimestamp = NoTimestamp
  NumPictures = 3
  MaxDepth = 1
  MaxReorder = 2
INVARIANTS
  TypeOK
  ReleasedInDecodeOrder
  LimitedRunSucceeds
  PtsFromSameDecodeIndex
  NoStaleInfo
  SuccessReportsEveryBaseFrame
  ErrorNeverSucceeds
  ParsedInPresentationOrder
  PairedWithOwnPicture
  BaseSizeIsPacketWithoutPayloads
PROPERTIES
  Termination
