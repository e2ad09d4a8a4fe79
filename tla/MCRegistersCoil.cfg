CONSTANTS
  Writers = {"swing", "luffing", "load"}
  Failing = {"swing", "luffing"}
  PairsOf <- MCPairsOf
  BitOf <- MCBitOf
  CoilWord = "valid"
SPECIFICATION Spec
INVARIANT BitsAgree
