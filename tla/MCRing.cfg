SPECIFICATION FairSpec
CONSTANTS
  QUEUE_LEN = 2
  MainAsks <- ModeAsks
  OtaAsks <- NoAsks
PROPERTIES
  DarkAsleep
  Settles
  HeldButtonStops
