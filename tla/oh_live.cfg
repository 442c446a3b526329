\* three commands of two lifts, one fault
SPECIFICATION FairSpec
CONSTANTS
  a = a
  b = b
  Lifts <- TwoLifts
  PlcCommands <- BothAndOne
  Modes <- AlwaysNormal
  FinishCodes = {}
  FaultBudget = 1
PROPERTIES CommandAcked SettlesClean OneSided
