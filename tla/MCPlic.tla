-------------------------------- MODULE MCPlic --------------------------------
(***************************************************************************)
(* Instances of Plic for TLC: two sources, the second edge-triggered.      *)
(***************************************************************************)
EXTENDS Plic
===============================================================================
