SPECIFICATION ArmFairSpec
CONSTANTS
  ARM_QUEUE_LEN = 1
  Sticks <- MCSticks
  MIN_ANGLE <- MCMin
  MAX_ANGLE <- MCMax
PROPERTIES
  DisabledRests
