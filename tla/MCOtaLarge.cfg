CONSTANTS
  BlockMod = 3
  MaxSize = 384
  QueueDepth = 2
  Payloads <- MCPayloads
  SizeIn <- MCSizeIn
  BootClears = TRUE
  NumBlocks = 3
  MaxRetries = 2
  MaxLoss = 0
  MaxRestarts = 0
  MaxLate = 0
SPECIFICATION FairTransfer
PROPERTY CleanTransferCompletes
CHECK_DEADLOCK FALSE
