SPECIFICATION FairSpec
CONSTANTS
  Callers = {c1, c2}
  Sides = {"BUY"}
  MaxOrders = 3
  Size = 1
  Holding = 1
  MaxAttempts = 2
  MaxReposts = 0
  HourCap = 2
  MaxHourBuys = 3
  PerToken = TRUE
PROPERTY NoIssueWhileUnresolved
PROPERTY LocksAreReleased
