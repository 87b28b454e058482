CONSTANTS
  NN = 2
  NS = 2
  Rounds = 2
  MaxCrashes = 1
  FaultModel = {"race", "sole", "wakeup", "late", "window", "order", "reset"}
SPECIFICATION Spec
INVARIANTS
  TypeOK
  EndsOnlyInNamedStates
CHECK_DEADLOCK FALSE
