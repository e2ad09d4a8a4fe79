CONSTANTS
  Tasks = 0
  Printing = TRUE
  BufSize = 2
  FifoSize = 2
  Ids = {1, 2}
  Lens = {1, 3, 5}
SPECIFICATION FairSpec
INVARIANTS TypeOK
PROPERTIES KeepsOrder WholeMessages ReturnsBusy Flows
