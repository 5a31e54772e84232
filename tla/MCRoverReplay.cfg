SPECIFICATION Spec
CONSTANTS
  SAMPLE_LIST_COUNT = 1
  Blank = Blank
  QUEUE_LEN = 1
  Packets <- ArmReplayPackets
  Events <- Bumper
  Upgrade = FALSE
  Throttle <- MCThrottle
  Angle <- MCAngle
INVARIANTS
  RecordingModeRecords
PROPERTIES
  RecorderImplemented
  RouteChangesInRecordingMode
  StopsOrReplays
  NoNewThrottle
CHECK_DEADLOCK FALSE
