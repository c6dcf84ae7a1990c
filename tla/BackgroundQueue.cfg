SPECIFICATION FairSpec
CONSTANTS
  j1 = j1
  j2 = j2
  w1 = w1
  w2 = w2
  NoOne = NoOne
  Jobs <- MCJobs
  Workers <- MCWorkers
  Lease = 1
  Retention = 1
  MaxAttempts = 2
  BaseDelay = 1
  MaxDelay = 1
  Horizon = 1
  HoldLimits = {1, 2}
  MaxFaults = 1
INVARIANTS
  ExclusiveRun
  RunsPaidFor
  NoEarlyDeath
PROPERTIES
  EveryJobSettles
  ImplementsContract
