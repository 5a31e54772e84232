SPECIFICATION FairSpec
CONSTANTS
  SAMPLE_LIST_COUNT = 1
  Blank = Blank
  QUEUE_LEN = 1
  Packets <- StopPackets
  Events = {}
  Upgrade = FALSE
  Throttle <- MCThrottle
  Angle <- MCAngle
PROPERTIES
  ReplayModeEnds
CHECK_DEADLOCK FALSE
