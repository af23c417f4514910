SPECIFICATION ScenarioSpec
CONSTANTS
  c1 = c1
  m1 = m1
  w1 = w1
  w2 = w2
  None = None
  Calls = {c1, w1, w2}
  Watchers = {w1, w2}
  Kinds = {"charge", "sequence", "preflight"}
  Manuals = {m1}
  Mqtt = TRUE
  Faults = {"drop", "freeze"}
  MaxFaults = 2
  RxCap = 1
  Tries = 3
INVARIANTS
  OrphanAnnounced
PROPERTIES
  ArmedBeforeEnergized
  StopReleases
  StartResolvesUnopposed
  CrashOutputCut
