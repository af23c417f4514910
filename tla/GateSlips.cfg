SPECIFICATION SoundSpec
CONSTANTS
  c1 = c1
  m1 = m1
  None = None
  Calls = {c1}
  Watchers = {}
  Kinds = {"iv"}
  Manuals = {m1}
  Mqtt = FALSE
  Faults = {}
  MaxFaults = 0
  RxCap = 1
  Tries = 3
PROPERTIES
  ManualControlBlocked
