SPECIFICATION Spec
CONSTANTS
  Threads = {t1, t2, t3}
  Data = {a, b}
  NoData = none
  Size = 2
  MaxPos = 3
SYMMETRY Symmetry
INVARIANTS
  NoSlotRace
  RingInv
PROPERTIES
  RetryMeansProgress
  ImplementsFifo
