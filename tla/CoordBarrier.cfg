CONSTANTS
  NN = 2
  NS = 2
  Rounds = 2
  MaxCrashes = 1
  FaultModel = {}
SPECIFICATION FairSpec
INVARIANTS
  CountExact
  ReleasedTogether
  AnswerIsBarrier
  ReportConsistent
PROPERTIES
  AbsenceAnnounced
  EventuallyReleased
  EventuallyTold
CHECK_DEADLOCK FALSE
