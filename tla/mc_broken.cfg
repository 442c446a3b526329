\* answers broken into segments, refusals: the link may stay out of step
SPECIFICATION Spec
CONSTANTS
  Tasks = {t1, t2}
  Addr = {a1}
  Values = {0, 1}
  Unsupported = {text}
  PlcOwned = {a1}
  Nothing = Nothing
  NoTask = NoTask
  Garbage = Garbage
  Faults = {"eof", "refuse", "reset", "connect timeout", "connect refused"}
  FaultBudget = 1
  Cuts <- BrokenAnswers
  MaxSkew = 22
  MaxReads = 2
SYMMETRY TaskSymmetry
INVARIANTS TypeOK AnswerDue ReadsOwnStreams
