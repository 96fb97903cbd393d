---------------------------- MODULE MCHAReconfig ----------------------------
(* Values of the constants of HAReconfig for TLC. *)
EXTENDS HAReconfig

CONSTANT v1

EveryMode == [mode : {"standalone", "primary", "backup"}, peer : BOOLEAN, vip : {v1}]

Primary   == [mode |-> "primary", peer |-> TRUE, vip |-> v1]
=============================================================================
