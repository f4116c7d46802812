CONSTANTS
  Names = {"e"}
  Argvs = {"a"}
  ReadOnly = {"a"}
  Asked <- MCAsked
  MaxBatch = 3
  MaxCalls = 3
  MaxSteps = 3
  MaxLlm = 4
  EvidenceCap = 3
  Sizes = {1, 2}
  None = None
SPECIFICATION FairSpec
INVARIANTS
  Budgets
  CallsAnswered
  AnswersTrue
  CarriedNotRerun
  RepeatsBounded
  CancelStopsReads
  CancelWins
PROPERTIES StepsRunOut Ends
CHECK_DEADLOCK FALSE
