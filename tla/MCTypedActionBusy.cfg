SPECIFICATION Spec
CONSTANTS
  Scenes <- MCScenes
  Losses <- MCLosses
  Cuts <- MCCuts
  MaxRecords = 3
INVARIANT WorkloadBlocks
CHECK_DEADLOCK FALSE
