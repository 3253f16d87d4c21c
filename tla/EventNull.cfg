SPECIFICATION Spec
CONSTANTS
  Clients = {c1}
  Registrars = {}
  Names = {"login"}
  Watched = {2}
  Loop = Loop
  NULL = NULL
  JUNK = JUNK
  EvMax = 3
  CbMax = 1
  MaxOps = 2
  Unregister = TRUE
  EarlyKill = FALSE
CHECK_DEADLOCK FALSE
INVARIANT NoNullCall
