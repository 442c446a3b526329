\* one lift with both commands in every mode, beside finish reports, two faults
SPECIFICATION Spec
CONSTANTS
  a = a
  b = b
  Lifts <- OneLift
  PlcCommands <- AllCommands
  Modes <- AnyMode
  FinishCodes = {1000, 3000}
  FaultBudget = 2
INVARIANTS TypeOK DuplicatesExcused

