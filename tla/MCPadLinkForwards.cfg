SPECIFICATION FairSpec
CONSTANTS
  Reports <- MCReports
PROPERTIES
  Forwarded
