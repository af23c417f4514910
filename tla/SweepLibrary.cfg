SPECIFICATION LibrarySpec
CONSTANTS
  a = a
  b = b
  h1 = h1
  h2 = h2
  None = None
  Components = {a, b}
  Types = {"led", "generic"}
  MaxSweeps = 3
  Handlers = {h1, h2}
  SingleConn = TRUE
SYMMETRY Interchangeable
INVARIANTS
  PinNeverDangles
PROPERTIES
  RefMovesOnlyWhenLost
