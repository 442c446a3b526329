\* a lift that leaves between the check and the answer
SPECIFICATION Spec
CONSTANTS
  a = a
  b = b
  Lifts <- OneLift
  Kinds = {"load"}
  Numbers = {}
  Handlers = {h1}
  Deprecated = FALSE
  LossBudget = 0
PROPERTIES EntryOnlyDocked
