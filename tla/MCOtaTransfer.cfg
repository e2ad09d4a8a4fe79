CONSTANTS
  BlockMod = 4
  MaxSize = 384
  QueueDepth = 2
  Payloads <- MCPayloads
  SizeIn <- MCSizeIn
  BootClears = TRUE
  NumBlocks = 3
  MaxRetries = 2
  MaxLoss = 2
  MaxRestarts = 1
  MaxLate = 2
SPECIFICATION FairTransfer
INVARIANTS TransferTypeOK ImagePrefix WholeImage UndisturbedGoesOn
PROPERTIES CleanTransferCompletes TransferEnds
CHECK_DEADLOCK FALSE
