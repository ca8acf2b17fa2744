SPECIFICATION FairSpec
CONSTANTS
  NoStream = NoStream
  Range = 3
  FullTicks = 2
  MaxElapsed = 1
  MaxCalls = 2
  MaxOrphans = 2
  Accessory = {"unbound", "bound", "reading"}
  PhoneMoves = FALSE
  Refuses = FALSE
  Blinks = FALSE
INVARIANTS
  TypeOK
  SlotSafe
PROPERTIES
  SensorEases
  LetsGo
  EaseArrives
CHECK_DEADLOCK FALSE
