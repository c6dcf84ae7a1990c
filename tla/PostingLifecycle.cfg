SPECIFICATION FairSpec
CONSTANTS
  s1 = s1
  s2 = s2
  Sources <- MCSources
  StaleAfter = 2
  ExpireAfter = 3
  RepostAge = 2
  ReopenAge = 1
  Retention = 2
  Others = 1
  MaxJobs = 2
  MaxDays = 2
PROPERTIES
  NoSecondCreation
  ExpiryIsEarned
  ListedComesBack
  DroppedExpires
