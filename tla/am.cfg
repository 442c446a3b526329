\* two AGVs, the first in three conditions, the second with bits or without, one
\* request handled late, one failed query
SPECIFICATION FairSpec
CONSTANTS
  a1 = a1
  a2 = a2
  Agvs <- TwoAgvs
  Configurations <- AllOrOne
  Ordered = {a1, a2}
  Conditions <- OneStaysFit
  Reports <- SomeReports
  RequestBudget = 1
  RaiseBudget = 1
INVARIANTS TypeOK RoundAgrees
PROPERTIES OthersUntouched Converges
