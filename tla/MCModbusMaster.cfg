CONSTANTS
  Queries = {"q1", "q2"}
  QueueLen = 10
  MinBuffer = 4
  MaxBuffer = 5
  MaxOthers = 1
SPECIFICATION FairSpec
INVARIANTS TypeOK Watched OwnTimeout
PROPERTIES SelfCorrects QueryEnds
