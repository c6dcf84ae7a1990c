CONSTANTS
  Keys <- MCKeys
  Fold <- MCFold
  Settings <- MCSettings
  Seed <- MCSeed
  Requests <- MCRequests
  MaxRequests = 3
  MaxFaults = 1
SPECIFICATION FairSpec
INVARIANTS
  EnabledWasPreviewed
  NoFileTwice
PROPERTIES
  SyncConverges
