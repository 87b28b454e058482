CONSTANTS
  NN = 2
  NS = 2
  Rounds = 1
  MaxCrashes = 1
  FaultModel = {"race"}
SPECIFICATION Spec
INVARIANTS
  AnswerIsBarrier
CHECK_DEADLOCK FALSE
