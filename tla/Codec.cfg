SPECIFICATION Spec
CONSTANTS
  NULL = NULL
  NoValue = NULL
  SizeMore <- StructSize
  WalkMore <- StructWalk
  EncMore <- StructEnc
  DecMore <- StructDec
  FreeMore <- StructFree
  ShortMax = 100
  Samples <- Sound
  Tails <- Memory
  Server = TRUE
  MaxLive = 0
CHECK_DEADLOCK FALSE
INVARIANTS
  SizeExact
  WalkExact
  WalkRefusesPart
  RoundTrip
  ReleaseExact
