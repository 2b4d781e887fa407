SPECIFICATION Spec
CONSTANTS
  Markets = {m1}
  None = None
  Fasts = {"f1"}
  Signals <- MCSignals
  Profiles <- MCProfiles
  Portfolios = {81}
  Fills = {x}
  MaxOrders = 3
  MaxRestarts = 1
INVARIANT OneOrderInFlight OpensBounded FileWithinCeiling
PROPERTY FileFollowsWallet
