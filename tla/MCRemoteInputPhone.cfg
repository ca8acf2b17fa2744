SPECIFICATION FairSpec
CONSTANTS
  NoStream = NoStream
  Range = 1
  FullTicks = 1
  MaxElapsed = 1
  MaxCalls = 2
  MaxOrphans = 1
  Accessory = {"unbound", "reading"}
  PhoneMoves = TRUE
  Refuses = TRUE
  Blinks = TRUE
PROPERTIES
  UntrustedMoveStops
CHECK_DEADLOCK FALSE
