---------------------------- MODULE MCFederation ----------------------------
(* The models of Federation need no constants of their own.                 *)
EXTENDS Federation, TLC
=============================================================================
