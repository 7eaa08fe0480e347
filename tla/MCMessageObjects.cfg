SPECIFICATION Spec
CONSTANTS
  Ints <- MCInts
  Strings = {"", "short", "long", "bytes"}
  StrLen <- MCStrLen
  NotUtf8 = {"bytes"}
  Payloads <- MCPayloads
  Null = Null
  Kinds <- MCKinds
  Default <- MCDefault
  Setters <- MCSetters
  Field <- MCField
  Write <- MCWrite
  Size <- MCSize
  Merge <- MCMerge
  OddFields <- MCOddFields
  MaxCalls = 3
INVARIANTS
  RoundTrip
  SizeIsExact
  ConcatenationMerges
CHECK_DEADLOCK FALSE
