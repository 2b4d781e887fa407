SPECIFICATION Spec
CONSTANTS
  Candles = 2
  Prices = {"low", "high"}
  MaxOpen = 1
  MaxPerHour = 1
  Hour = 2
  MaxFails = 2
  MaxTries = 2
INVARIANT OneShot HourlyCapHolds EdgeIsReal
PROPERTY KeepsTrading
CHECK_DEADLOCK FALSE
