CONSTANTS
  Companies = {"acme", "globex", "initech"}
  Pages = {"p1", "p2", "p3", "p4", "p5"}
  Files <- MCFiles
  MaxAttempts = 4
  MaxErrors = 4
  Registered <- MCRegistered
SPECIFICATION FileSpec
INVARIANTS
  
  CompanyIsAbove
  TermIsSaid
CHECK_DEADLOCK FALSE
