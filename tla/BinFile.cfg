SPECIFICATION Spec
CONSTANTS
  Streams <- AllStreams
  ForeignFiles <- Foreign
  Rooms <- AnyRoom
  Buffers = {0, 9}
  MaxRoom = 62
CHECK_DEADLOCK FALSE
INVARIANTS
  ReadsLeadingFrames
  NoMoreIsTheEnd
  WriteResultHolds
PROPERTIES
  ImplementsFrameStore
