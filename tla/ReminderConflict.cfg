CONSTANTS
  Requests <- MCRequests
  Dates <- MCDates
  SavedAfter = 2
  PreparingAfter = 1
  LastDay = 3
  MaxRequests = 2
SPECIFICATION FairSpec
INVARIANTS
  ChangesPass
