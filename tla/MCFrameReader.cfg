CONSTANTS
  MaxFrames = 5
  Streams <- MCStreams
SPECIFICATION ReadersSpec
INVARIANTS
  TypeOK
  ExactMessages
  StreamOrder
  ToolTypeOK
  ToolHears
CHECK_DEADLOCK FALSE
