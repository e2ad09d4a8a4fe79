---------------------------- MODULE MCRegisters ----------------------------
(* Registers with the writers, registers and bits of                       *)
(* modbus_register_database.h.                                             *)
EXTENDS Registers

MCPairsOf == [w \in Writers |->
  CASE w = "swing" -> <<4>> [] w = "luffing" -> <<6>> [] w = "load" -> <<10, 12, 14, 16>>]
MCBitOf == [w \in Writers |-> CASE w = "swing" -> 0 [] w = "luffing" -> 1 [] w = "load" -> 3]
=============================================================================
