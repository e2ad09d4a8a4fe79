---------------------------- MODULE MCOtaTransfer ----------------------------
(* OtaTransfer on images of a few blocks of 128 bytes. *)
EXTENDS OtaTransfer

MCPayloads == 0 .. NumBlocks + 1
MCSizeIn ==
  [p \in MCPayloads |-> CASE p = 0 -> 128 * NumBlocks [] p = NumBlocks + 1 -> NoName [] OTHER -> 0]
==============================================================================
