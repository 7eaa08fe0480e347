CONSTANTS
  BUFFER_SIZE = 9
  HEAD_SIZE = 2
  BodyLens <- MCBodyLens
  MaxFrames = 4
SPECIFICATION Spec
INVARIANT NoRoomOnlyWhenFull
CHECK_DEADLOCK FALSE
