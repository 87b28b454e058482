SPECIFICATION Spec
CONSTANTS
  NC = 3
  NR = 3
  FaultModel = {}
  MaxCrashes = 1
  MaxPredict = 2
INVARIANTS TypeOK MapsInverse  RolesMatchImages
CHECK_DEADLOCK FALSE
