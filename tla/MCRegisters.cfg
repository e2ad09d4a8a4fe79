CONSTANTS
  Writers = {"swing", "luffing", "load"}
  Failing = {"swing", "luffing"}
  PairsOf <- MCPairsOf
  BitOf <- MCBitOf
  CoilWord = "spare"
SPECIFICATION FairSpec
INVARIANTS TypeOK PairsWhole FramesInOrder ValidIsStored BitsAgree
PROPERTIES AccessEnds
