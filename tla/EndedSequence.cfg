SPECIFICATION Spec
CONSTANTS
  c1 = c1
  None = None
  Calls = {c1}
  Watchers = {}
  Kinds = {"sequence"}
  Manuals = {}
  Mqtt = FALSE
  Faults = {}
  MaxFaults = 0
  RxCap = 1
  Tries = 3
INVARIANTS
  EndedSequenceLeavesDark
