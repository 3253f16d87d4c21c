SPECIFICATION Spec
CONSTANTS
  Packets <- Login
  InitLen = 5
  Suggested = 4
CHECK_DEADLOCK FALSE
INVARIANTS
  NetInv
  DecodedAsEncoded
