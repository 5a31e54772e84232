SPECIFICATION FairSpec
CONSTANTS
  Reports <- MCReports
INVARIANTS
  NoGhostPad
PROPERTIES
  ChangesNoticed
  LossReleases
