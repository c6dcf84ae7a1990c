CONSTANTS
  Kinds <- MCKinds
  Runners <- MCRunners
  AlertAfter = 2
  TouchAfter = 1
  StaleAfter = 1
  MaxVersions = 2
  MaxAlerts = 1
  MaxFaults = 1
SPECIFICATION FairSpec
INVARIANTS
  
  OneRunAtATime
  CursorIsApplied
  AlertsAreCurrent
PROPERTIES
  SourceCatchesUp
