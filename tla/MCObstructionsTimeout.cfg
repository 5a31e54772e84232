SPECIFICATION Spec
CONSTANTS
  SONAR_DISTANCE_COUNT = 2
  Echoes <- MCEchoes
  SweepCalls = {FALSE, TRUE}
  QUEUE_LEN = 1
INVARIANTS
  TimeoutIsFar
