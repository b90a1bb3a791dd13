SPECIFICATION FairSpec
CONSTANTS
  StartDelay = 2
  FinishDelay = 3
  RoomLife = 4
  CleanupDelay = 2
  MaxForms = 3
  MaxFaults = 2
  MaxLate = 6
  MaxTime = 11
INVARIANTS FormNotForgotten PanicNeedsLateness
PROPERTIES FormIsFinished ImplementsVotingRound
CHECK_DEADLOCK FALSE
