\* three tasks, every fault but refusals; a task may pass an unsupported value
SPECIFICATION FairSpec
CONSTANTS
  Tasks = {t1, t2, t3}
  Addr = {a1}
  Values = {0, 1}
  Unsupported = {text}
  PlcOwned = {}
  Nothing = Nothing
  NoTask = NoTask
  Garbage = Garbage
  Faults = {"eof", "reset", "connect timeout", "connect refused"}
  FaultBudget = 2
  Cuts <- WholeAnswers
  MaxSkew = 22
  MaxReads = 2
INVARIANTS OpenIsProtected
PROPERTIES ImplementsRegister CallReturns FreshAnswer
