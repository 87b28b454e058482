SPECIFICATION Spec
CONSTANTS
  NC = 4
  NR = 3
  FaultModel = {"overlap"}
  MaxCrashes = 4
  MaxPredict = 0
INVARIANTS MapsInverse AbortOnlyWithoutReplica
PROPERTY SurvivorsKeepRank
CHECK_DEADLOCK FALSE
