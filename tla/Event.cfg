SPECIFICATION LiveSpec
CONSTANTS
  Clients = {c1, c2}
  Registrars = {c1}
  Names = {"tick", "login"}
  Watched = {2, 4}
  Loop = Loop
  NULL = NULL
  JUNK = JUNK
  EvMax = 3
  CbMax = 1
  MaxOps = 2
  Unregister = TRUE
  EarlyKill = TRUE
CHECK_DEADLOCK FALSE
INVARIANTS
  SlotsIntact
  NoStaleEntry
  NoWildCall
PROPERTIES
  KillEnds
  TickReaches
