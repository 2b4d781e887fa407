SPECIFICATION Spec
CONSTANTS
  Fills = {2}
  Callers = {t1, t2}
  Conc = 1
  Depth = 1
  BreakerAfter = 1
  MaxJobs = 1
  LastBlock = 4
  HeadLag = 1
  Batch = 2
  MaxBehind = 2
  Attempts = 2
  MaxFaults = 2
SYMMETRY TickSymmetry
INVARIANT SealedIsCommitted
INVARIANT NoSilentHole
CHECK_DEADLOCK FALSE
