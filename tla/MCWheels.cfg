SPECIFICATION FairSpec
CONSTANTS
  Driven = {3, 4}
  MAX_EVENTS = 2
  MAX_COUNT = 6
INVARIANTS
  CountsTwice
  LostInWindow
PROPERTIES
  StillReadsZero
