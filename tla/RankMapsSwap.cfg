SPECIFICATION Spec
CONSTANTS
  NC = 3
  NR = 2
  FaultModel = {"swap"}
  MaxCrashes = 1
  MaxPredict = 1
INVARIANT MapsInverse
CHECK_DEADLOCK FALSE
