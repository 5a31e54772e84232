SPECIFICATION Spec
CONSTANTS
  SAMPLE_LIST_COUNT = 2
  Blank = Blank
  QUEUE_LEN = 1
  Packets <- ReplayPackets
  Events = {}
  Upgrade = FALSE
  Throttle <- MCThrottle
  Angle <- MCAngle
PROPERTIES
  ThrottleRecorded
CHECK_DEADLOCK FALSE
