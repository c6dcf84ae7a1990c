SPECIFICATION FairSpec
CONSTANTS
  w1 = w1
  w2 = w2
  NoOne = NoOne
  Workers <- MCWorkers
  MaxRequests = 2
  MaxFaults = 2
INVARIANTS
  NoEditIsLost
PROPERTIES
  WithdrawnIsDispatched
  EveryEditIsMatched
CHECK_DEADLOCK FALSE
