CONSTANTS
  BlockMod = 3
  MaxSize = 256
  QueueDepth = 1
  Payloads <- MCPayloads
  SizeIn <- MCSizeIn
  BootClears = TRUE
SPECIFICATION FairSpec
INVARIANTS TypeOK ModesAgree WritesInsideTemp MetaDescribesTemp
PROPERTIES FailureEndsInRestart CompletedRestarts KeepsContract
