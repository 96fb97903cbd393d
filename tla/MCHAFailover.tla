--------------------------- MODULE MCHAFailover ---------------------------
(* Values of the constants of HAFailover for TLC. *)
EXTENDS HAFailover

CONSTANTS w1, w2, w3

PrimaryAndBackup == [m \in Manager |-> IF m = NodeA THEN "primary" ELSE "backup"]

SameRegistry == [m \in Manager |-> Worker]
=============================================================================
