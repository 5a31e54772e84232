SPECIFICATION FairSpec
CONSTANTS
  SAMPLE_LIST_COUNT = 1
  Blank = Blank
  QUEUE_LEN = 1
  Packets <- ModePackets
  Events <- Bumper
  Upgrade = TRUE
  Throttle <- MCThrottle
  Angle <- MCAngle
INVARIANTS
  TypeOK
  PanelShowsMode
  HornWhere
PROPERTIES
  KeepsPromise
  StopHonoured
CHECK_DEADLOCK FALSE
