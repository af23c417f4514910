CONSTANTS
  MaxLevel = 4
  MaxNestingDepth = 3
  MaxNodeCount = 8
  Programs <- Candidates
  Edits <- Edited
  None = None
  DeviceLimit = 3
  RampGap = 2
  QueueSize = 1
  MaxLag = 1
  MaxAh = 1
  Longest = 4
  MaxFaults = 1
SPECIFICATION FairSpec
CHECK_DEADLOCK FALSE
INVARIANTS DrivesProgram
PROPERTIES StepsLeaveTheirMark HoldsLongEnough StopOrTripEnds
