SPECIFICATION Spec
CONSTANTS
  Fills = 2
  StandAfter = 1
  MaxChanges = 1
CHECK_DEADLOCK FALSE
PROPERTY PolledDefers
PROPERTY MissedFillRecovered
