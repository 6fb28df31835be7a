------------------------------ MODULE MCSocBuffer ------------------------------
(***************************************************************************)
(* Instances of SocBuffer for TLC.                                         *)
(***************************************************************************)
EXTENDS SocBuffer
===============================================================================
