SPECIFICATION HubSpec
CONSTANTS
  LastBlock = 4
  HeadLag = 1
  Busy = {2, 3}
  LogsPerBlock = 1
  Backfills = {f1, f2}
  Chunk = 2
  MaxGap = 2
  HeightLag = 1
  MaxDrops = 1
  MaxOpenFails = 1
SYMMETRY FillSymmetry
INVARIANT KnownMissingNotSealable
INVARIANT ClosedThroughProven
CHECK_DEADLOCK FALSE
