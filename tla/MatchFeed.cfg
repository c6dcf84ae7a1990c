CONSTANTS
  f1 = f1
  Aliases <- MCAliases
  Taxonomy <- MCTaxonomy
  Positive = {"intern"}
  Negative = {"new grad"}
  Enrolled = {"currently enrolled"}
  Anywhere = {"anywhere"}
  AnyRole = {"any role"}
  Jobs = {1, 2}
  Postings <- MCPostings
  FilterIds = {f1}
  Rules <- MCRules
  Followed <- MCFollowed
  Rank <- MCRank
  Decisions = {"matched", "applied"}
  Sent <- MCSent
SPECIFICATION Spec
INVARIANTS
  
  PagesTile
PROPERTIES
  
  LooserMatchesMore
