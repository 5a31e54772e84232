SPECIFICATION ArmFairSpec
CONSTANTS
  ARM_QUEUE_LEN = 4
  Sticks <- MCSticks
  MIN_ANGLE <- MCMin
  MAX_ANGLE <- MCMax
INVARIANTS
  OnlyRefusedStopMoves
PROPERTIES
  AcceptedStopRests
  HeldStickArrives
