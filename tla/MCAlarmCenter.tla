---------------------------- MODULE MCAlarmCenter ----------------------------
(* Values of the constants of AlarmCenter for TLC. *)
EXTENDS AlarmCenter

CONSTANTS n1, disk, h1, h2
=============================================================================
