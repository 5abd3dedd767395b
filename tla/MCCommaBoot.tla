---------------------------- MODULE MCCommaBoot ----------------------------
(***************************************************************************)
(* CommaBoot for TLC: the constants are given in the configurations.       *)
(***************************************************************************)
EXTENDS CommaBoot
=============================================================================
