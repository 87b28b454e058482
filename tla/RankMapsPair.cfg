SPECIFICATION Spec
CONSTANTS
  NC = 3
  NR = 2
  FaultModel = {"pair"}
  MaxCrashes = 2
  MaxPredict = 0
INVARIANT AbortWithoutReplica
CHECK_DEADLOCK FALSE
