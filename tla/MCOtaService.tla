---------------------------- MODULE MCOtaService ----------------------------
(* OtaService on small instances: three block numbers, an area of eight    *)
(* flash words, and payloads of which one ends the transfer, one announces *)
(* an image that fits and one an image that does not.                      *)
EXTENDS OtaService

MCPayloads == {"end", "fits", "large"}
MCSizeIn == [p \in MCPayloads |-> CASE p = "end" -> NoName [] p = "fits" -> 200 [] p = "large" -> 257]
=============================================================================
