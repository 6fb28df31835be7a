------------------------------ MODULE MCTopMost ------------------------------
(***************************************************************************)
(* Instances of TopMost for TLC.                                           *)
(***************************************************************************)
EXTENDS TopMost
===============================================================================
