SPECIFICATION FairSpec
CONSTANTS
  Workers = {w1, w2}
  Fibers = {root, f1, f2, f3}
  Root = root
  NoFiber = null
  JobPrio = {"mid"}
  Rounds = 1
  MaxJobs = 2
  MaxDepth = 2
INVARIANTS
  OneStackOneRunner
  NoFiberLost
  ResumesAfterJobs
  AddWaiterHoldsLock
PROPERTIES
  RootFinishes
  ImplementsForkJoin
