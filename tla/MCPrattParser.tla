---------------------------- MODULE MCPrattParser ----------------------------
(* Instances of PrattParser for TLC. *)
EXTENDS PrattParser
=============================================================================
