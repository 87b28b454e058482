CONSTANTS
  NN = 2
  NS = 2
  Rounds = 1
  MaxCrashes = 1
  FaultModel = {"late"}
SPECIFICATION Spec
INVARIANTS
  ReportConsistent
CHECK_DEADLOCK FALSE
