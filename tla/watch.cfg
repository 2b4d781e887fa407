SPECIFICATION WatchSpec
CONSTANTS
  MaxBlock = 4
  MaxTxs = 2
  MaxSplits = 1
  MaxGap = 1
  Chunk = 1
  DoneCap = 2
  Replays = {r1}
CHECK_DEADLOCK FALSE
INVARIANT HandledOnce
INVARIANT SplitsAreNotTraded
PROPERTY ReplayCoversGap
PROPERTY HearsAgain
