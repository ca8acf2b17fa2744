SPECIFICATION FairSpec
CONSTANTS
  Configs <- EveryConfig
  NoConfig = NoConfig
  MaxPosted = 3
  MaxSequence = 4
INVARIANTS
  Inv
  SilenceWatched
  LinkOnlyWhileLinking
PROPERTIES
  PendingResolves
  DroppedBoardIsDialled
CHECK_DEADLOCK FALSE
