SPECIFICATION Spec
CONSTANTS
  Scenes <- MCScenes
  Losses <- MCLosses
  Cuts <- MCCuts
  MaxRecords = 3
INVARIANT NothingUnseenSucceeds
CHECK_DEADLOCK FALSE
