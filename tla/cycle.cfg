SPECIFICATION Spec
CONSTANTS
  Positions = {p}
  None = None
  Size = 2
  MaxSeq = 2
  Books <- MCBooks
  Signals <- MCSignals
  Settings <- MCSettings
  Horizons <- MCHorizons
  Accounts <- MCAccounts
  Entry = 50
  RejectLimit = 2
  MaxBuys = 2
  MaxForgets = 1
INVARIANT StepsAreSold FeedBuysOnce
PROPERTY  FollowsWhale WinnersAreSold
