CONSTANTS
  Instances <- MCInstances
  StaleAfter = 1
  MaxBreaks = 1
  MaxErrors = 1
SPECIFICATION FairLeaseSpec
INVARIANTS
  OneScheduler
PROPERTIES
  HandedOver
  DeathIsSeen
CHECK_DEADLOCK FALSE
