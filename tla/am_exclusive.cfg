\* an AGV that is reported free is given an order
SPECIFICATION Spec
CONSTANTS
  a1 = a1
  a2 = a2
  Agvs <- OneAgv
  Configurations = {{a1}}
  Ordered = {a1}
  Conditions <- Everything
  Reports = {}
  RequestBudget = 0
  RaiseBudget = 0
PROPERTIES ModesExclusive
