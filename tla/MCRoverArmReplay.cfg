SPECIFICATION Spec
CONSTANTS
  SAMPLE_LIST_COUNT = 1
  Blank = Blank
  QUEUE_LEN = 1
  Packets <- ArmReplayPackets
  Events = {}
  Upgrade = FALSE
  Throttle <- MCThrottle
  Angle <- MCAngle
INVARIANTS
  StillInArmMode
CHECK_DEADLOCK FALSE
