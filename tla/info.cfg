\* an AGV with registers and one without, a lift, two users of the database, one
\* failed pool and one failed query or request
SPECIFICATION FairSpec
CONSTANTS
  a1 = a1
  a2 = a2
  l1 = l1
  Agvs <- TwoAgvs
  Configured = {a1}
  Codes = {7}
  Levels = {80}
  Lifts <- OneLift
  OtherUsers = {"state"}
  NoPool = NoPool
  Ask = Ask
  FailBudget = 1
  RaiseBudget = 1
INVARIANTS TypeOK ShowsRecent OnePoolEach
PROPERTIES ShownInTheEnd ResetClears
