------------------------------ MODULE MCHASync ------------------------------
(* Values of the constants of HASync for TLC. *)
EXTENDS HASync

CONSTANTS s1, s2

\* One call at a time; two of the first standby alone.
OneCall  == [m \in Manager |-> {s1}]
TwoCalls == [m \in Manager |-> IF m = NodeB THEN {s1, s2} ELSE {}]
=============================================================================
