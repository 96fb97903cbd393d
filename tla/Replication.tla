---------------------------- MODULE Replication ----------------------------
(***************************************************************************)
(* What snapshot replication promises while the roles stay put: the copy   *)
(* is a whole content the primary once had, and never an older one than    *)
(* before, unless something failed and the copy was lost; the next copy    *)
(* may then be any.  Contents are numbered by the writes that led to them. *)
(***************************************************************************)
EXTENDS Naturals

CONSTANTS MaxWrites,
          Lost          \* the replica when there is no copy

VARIABLES primary, replica,
          failed        \* has anything failed yet

Init == primary = 0 /\ replica = 0 /\ failed = FALSE

Write ==
    /\ primary < MaxWrites
    /\ primary' = primary + 1
    /\ UNCHANGED <<replica, failed>>

Refresh ==
    /\ replica' \in (IF replica = Lost THEN 0 ELSE replica)..primary
    /\ UNCHANGED <<primary, failed>>

Fail == failed' = TRUE /\ UNCHANGED <<primary, replica>>

Lose ==
    /\ failed
    /\ replica' = Lost
    /\ UNCHANGED <<primary, failed>>

Next == Write \/ Refresh \/ Fail \/ Lose

Spec == Init /\ [][Next]_<<primary, replica, failed>>
=============================================================================
