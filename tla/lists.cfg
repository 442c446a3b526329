\* two lifts, two reserved registers and one after them, two requests at a time
SPECIFICATION FairSpec
CONSTANTS
  a = a
  b = b
  Lifts <- TwoLifts
  Length = 2
  Above = 1
  Lists <- SomeLists
  Handlers = {h1, h2}
  Segments = TRUE
INVARIANTS TypeOK FrameLength
PROPERTIES AsItIs ListCleared
