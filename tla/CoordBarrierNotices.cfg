CONSTANTS
  NN = 2
  NS = 2
  Rounds = 2
  MaxCrashes = 2
  FaultModel = {}
SPECIFICATION Spec
INVARIANTS
  AnswerFollowsNotice
CHECK_DEADLOCK FALSE
