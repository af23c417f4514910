SPECIFICATION SoundSpec
CONSTANTS
  c1 = c1
  c2 = c2
  m1 = m1
  None = None
  Calls = {c1, c2}
  Watchers = {}
  Kinds = {"sequence", "iv", "preflight"}
  Manuals = {m1}
  Mqtt = FALSE
  Faults = {}
  MaxFaults = 0
  RxCap = 1
  Tries = 3
SYMMETRY Interchangeable
INVARIANTS
  SingleOwner
PROPERTIES
  ImplementsSlot
