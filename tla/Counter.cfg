SPECIFICATION LiveSpec
CONSTANTS
  Plain = {}
  Checked = {f1, f2, f3, f4}
  Jobs = {j1, j2}
  WAIT_FIBER_LEN = 2
  None = None
CHECK_DEADLOCK FALSE
INVARIANTS
  ReturnsWhenDone
  NoneForgotten
  CounterInv
PROPERTY EveryWaitEnds
