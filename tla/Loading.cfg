SPECIFICATION LiveSpec
CONSTANTS
  NULL = NULL
  Bytes <- Values
  Trees <- Sound
  Packed <- Sizes
  Addresses = {1, 2, 3}
  FirstCap = 1
  CHUNK_SIZE = 2
  FailIn = {"text", "dump", "pack", "read", "unpack"}
CHECK_DEADLOCK FALSE
INVARIANTS
  InBounds
  BlocksOwned
  LoadsAsDumped
  ErrorsReported
PROPERTY CallEnds
