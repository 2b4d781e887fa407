SPECIFICATION Spec
CONSTANTS
  Callers = {c1, c2}
  Sides = {"BUY", "SELL"}
  MaxOrders = 2
  Size = 2
  Holding = 2
  MaxAttempts = 2
  MaxReposts = 1
  HourCap = 1
  MaxHourBuys = 3
  PerToken = FALSE
SYMMETRY CallerSymmetry
INVARIANT BuyZeroReportsAreTrue
INVARIANT VerdictsMatchVenue
INVARIANT OneOrderPerBuyDecision
INVARIANT PendingLockHasOwner
INVARIANT GovernorOvershootBounded
