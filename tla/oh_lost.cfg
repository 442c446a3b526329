\* the acknowledgement of a save, brought back by the acknowledgement of a take that
\* was read before the save's was turned off, for a command raised since
SPECIFICATION Spec
CONSTANTS
  a = a
  b = b
  Lifts <- OneLift
  PlcCommands <- AllCommands
  Modes <- AlwaysNormal
  FinishCodes = {}
  FaultBudget = 0
INVARIANTS AckMeansOrder
