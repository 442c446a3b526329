\* a lift that loads, all the numbers, two requests at a time
SPECIFICATION FairSpec
CONSTANTS
  a = a
  b = b
  Lifts <- OneLift
  Kinds = {"load"}
  Numbers = {"find", "finish", "reverse"}
  Handlers = {h1, h2}
  Deprecated = TRUE
  LossBudget = 1
INVARIANTS TypeOK
PROPERTIES StartStands FinishCleared NumbersCleared
