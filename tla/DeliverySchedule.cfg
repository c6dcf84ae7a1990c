CONSTANTS
  a1 = a1
  a2 = a2
  a3 = a3
  Alerts <- MCAlerts
  Hours = 4
  FirstDay = 3
  LastPlanned = 4
  Users <- MCUsers
SYMMETRY MCSymmetry
SPECIFICATION ScheduleSpec
INVARIANTS
  WindowIsKept
  WindowIsNext
  
CHECK_DEADLOCK FALSE
