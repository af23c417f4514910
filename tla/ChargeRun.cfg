CONSTANTS
  Plans <- Compiled
  Timeout <- Periods
  TaperHold = 1
  Stale = 2
  CapCap = 1
  QueueSize = 1
  MaxFaults = 1
  Longest = 3
SPECIFICATION FairSpec
CHECK_DEADLOCK FALSE
INVARIANTS OverchargeBounded CompletedTapered
PROPERTIES OnsetGenuine RunEnds
