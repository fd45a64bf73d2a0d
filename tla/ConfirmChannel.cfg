SPECIFICATION Spec
CONSTANTS
  w1 = w1  w2 = w2
  Waits = {w1, w2}
  Concurrent = 1
  Throwers = {"returned", "acked", "nacked"}
  MaxPublishes = 3
  MaxNesting = 2
CHECK_DEADLOCK FALSE
INVARIANTS
  TypeOK
  CallbacksTruthful
  CallbacksAnswered
  WaitsForAll
  ResolvedMeansAcked
PROPERTY
  WaitsEnd
