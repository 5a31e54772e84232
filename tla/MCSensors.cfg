SPECIFICATION FairSpec
CONSTANT Chips <- MCChips
INVARIANTS
  TypeOK
  CleanTurnFresh
  KnownStays
PROPERTIES
  DeadBusPublishesNothing
  DeadBusStillRuns
