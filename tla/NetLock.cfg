SPECIFICATION FairSpec
CONSTANTS
  Packets <- TwoHandled
  InitLen = 4
  Suggested = 4
CHECK_DEADLOCK FALSE
PROPERTIES
  EveryPacketDecoded
