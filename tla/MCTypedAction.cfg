SPECIFICATION Spec
CONSTANTS
  Scenes <- MCScenes
  Losses <- MCLosses
  Cuts <- MCCuts
  MaxRecords = 3
INVARIANTS
  QuietHost
  SuccessWasSeen
  GapTruthful
PROPERTY Concludes
CHECK_DEADLOCK FALSE
