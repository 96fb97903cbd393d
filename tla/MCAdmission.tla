------------------------------ MODULE MCAdmission ------------------------------
(* Instance of Admission: users, archives, tags and slots are interchangeable. *)
EXTENDS Admission, TLC

Symmetry == Permutations(Users) \cup Permutations(Archives)
            \cup Permutations(Tags) \cup Permutations(Slots)
================================================================================
