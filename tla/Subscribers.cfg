CONSTANTS
  Kinds = {"deviceLink", "meteringSession"}
  Cooldown = 2
  Buffer = 2
  MaxCharge = 3
  MaxEvents = 4
  MinuteLen = 2
  RawKept = 1
  MinutesKept = 3
  MaxBuffered = 1
  FlushWithin = 2
  PageSize = 1
  MaxTime = 4
  MaxFaults = 1
SPECIFICATION SubscribersSpec
CHECK_DEADLOCK FALSE
INVARIANTS NeverOvercounts ExportWhole
PROPERTIES OnePerWindow SuppressedIsSent ExpiresCounted MinutesRolledUp
