SPECIFICATION Spec
CONSTANTS
  N = 1
  Slots = 2
  MaxBots = 2
  Ramp = 2
  MinMass = 1
  MaxPerPass = 1
  ChildStale = 0
  RunnerStale = 1
  BootGrace = 1
  Cooldown = 4
  BackoffCap = 2
  OrphanAge = 1
  QuickLimit = 2
  NetLimit = 2
  SpawnFaults = {"throw"}
  MaxFaults = 2
INVARIANT OneBotPerAccount
PROPERTY FollowsRoster
PROPERTY OrphanEnds
PROPERTY ManagedAgain
CHECK_DEADLOCK FALSE
