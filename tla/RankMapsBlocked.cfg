SPECIFICATION FairSpec
CONSTANTS
  NC = 3
  NR = 2
  FaultModel = {"overlap"}
  MaxCrashes = 2
  MaxPredict = 0
PROPERTY EventuallyRecovered
CHECK_DEADLOCK FALSE
