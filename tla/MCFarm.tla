------------------------------- MODULE MCFarm -------------------------------
(***************************************************************************)
(* Instances of Farm for TLC.                                              *)
(***************************************************************************)
EXTENDS Farm

CONSTANTS d1, c1, o1
=============================================================================
