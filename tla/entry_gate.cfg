SPECIFICATION Spec
CONSTANTS
  Window = 2
  KeptAges = 2
  Levels = {0, 2, 7, 10}
  MinPort = 5
  MaxRestarts = 1
INVARIANT EntriesFollowACheck
PROPERTY NoOrderAfterStop
PROPERTY LatchSurvivesRestart
PROPERTY FlatAccountsResume
CHECK_DEADLOCK FALSE
