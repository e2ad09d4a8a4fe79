CONSTANTS
  Queries = {"q1"}
  QueueLen = 3
  MinBuffer = 4
  MaxBuffer = 5
  MaxOthers = 3
SPECIFICATION FairSpec
PROPERTY QueryEnds
