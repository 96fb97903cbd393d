---------------------------- MODULE MCNodeRegistry ----------------------------
(* Values of the constants of NodeRegistry for TLC. *)
EXTENDS NodeRegistry

CONSTANTS w1
=============================================================================
