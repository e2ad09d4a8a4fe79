CONSTANTS
  Tasks = 1
  Printing = FALSE
  BufSize = 2
  FifoSize = 2
  Ids = {1, 2}
  Lens = {1, 3, 5}
SPECIFICATION FairSpec
PROPERTY Flows
