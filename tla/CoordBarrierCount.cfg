CONSTANTS
  NN = 2
  NS = 2
  Rounds = 1
  MaxCrashes = 2
  FaultModel = {}
SPECIFICATION Spec
INVARIANTS
  CountExact
CHECK_DEADLOCK FALSE
