SPECIFICATION FleetSpec
CONSTANTS
  M = 3
  Halting = {1, 3}
  MaxTs = 3
  MaxReboots = 2
PROPERTY NeverRolledBack
PROPERTY OneGoodMirrorIsEnough
CHECK_DEADLOCK FALSE
