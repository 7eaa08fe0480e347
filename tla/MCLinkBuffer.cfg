CONSTANTS
  BUFFER_SIZE = 9
  HEAD_SIZE = 2
  BodyLens <- MCBodyLens
  MaxFrames = 4
SPECIFICATION FairSpec
INVARIANTS
  TypeOK
  DeliveredInOrder
  BufferHoldsStream
  NothingLeftBehind
  RefusesOnlyWhenSpent
PROPERTIES
  FramesHandled
  EndIsNoticed
  ImplementsChannel
CHECK_DEADLOCK FALSE
