CONSTANTS
  Batteries = {b1, b2}
  Kinds = {k1, k2}
  None = None
  MaxSessions = 2
  Handlers = {h1}
  SingleConn = TRUE
SPECIFICATION ScenarioSpec
SYMMETRY Interchangeable
INVARIANTS ReconciledRunsAreLive CyclesAreThroughput
PROPERTIES VerdictStands OnsetSurvives NamesItsBattery
