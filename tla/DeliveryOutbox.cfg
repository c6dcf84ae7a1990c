SPECIFICATION FairSpec
CONSTANTS
  t1 = t1
  e1 = e1
  e2 = e2
  v1 = v1
  v2 = v2
  Telegrams <- MCTelegrams
  Emails <- MCEmails
  Dispatchers <- MCDispatchers
  Rank <- MCRank
  DigestLimit = 1
  MaxAttempts = 2
  RejectLimit = 2
  MaxFaults = 1
  MaxPlans = 2
  MaxRows = 2
INVARIANTS
  HeldByOne
  CopiesPaidFor
  SentWasDelivered
PROPERTIES
  OutboxDrains
CHECK_DEADLOCK FALSE
