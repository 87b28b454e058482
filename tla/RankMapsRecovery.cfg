SPECIFICATION FairSpec
CONSTANTS
  NC = 3
  NR = 2
  FaultModel = {}
  MaxCrashes = 2
  MaxPredict = 1
INVARIANTS AbortWithoutReplica NoDeadMember
PROPERTIES EventuallyRecovered ImplementsReplicaSets
CHECK_DEADLOCK FALSE
