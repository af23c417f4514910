CONSTANTS
  Need = 2
  Limit = 1
  Amount = 0
  QueueSize = 1
  MaxRequests = 2
  MaxCount = 2
  Scenarios = {"runs", "edits", "counters"}
SPECIFICATION ScenarioSpec
INVARIANTS FiresAsAsked
PROPERTIES ArmedRuleFires GoneIsQuiet
