CONSTANTS
  Requests <- AllRequests
  MinSteps = 2
  MaxSteps = 4
  MinDwell = 2
  DeviceMax <- Maxima
  DeviceMaxPower = 15
  TimeoutFactor = 1
  TimeoutFloor = 0
  StaleTimeout = 3
  QueueSize = 2
  Limits <- Reported
  MaxStart = 3
  MaxWrite = 2
  MaxFaults = 1
  MaxTime = 26
  Curves <- Measurable
  ConductionFloor = 1
  Reference = 2
  Log <- Scale
  Slopes <- Tried
  IdealityMinPoints = 2
  ResistorMinPoints = 3
SPECIFICATION ScenarioSpec
CHECK_DEADLOCK FALSE
INVARIANTS PointsSettled SweepBounded MetricsOfTheCurve
PROPERTIES SweepEnds
