SPECIFICATION Spec
CONSTANTS
  Workers = {w1, w2, w3}
  Fibers = {root, f1, f2, f3, f4}
  Root = root
  NoFiber = null
  JobPrio = {"mid"}
  Rounds = 3
  MaxJobs = 2
  MaxDepth = 1
SYMMETRY Symmetry
INVARIANTS
  ResumesAfterJobs
