SPECIFICATION FairSpec
CONSTANTS
  s1 = s1
  s2 = s2
  Blank = Blank
  Sample <- MCSample
  SAMPLE_LIST_COUNT = 3
INVARIANTS
  TypeOK
  PlaysRecordedSlot
  Exclusive
  NoIdenticalNeighbours
PROPERTIES
  RouteFrozen
  ReplayRests
