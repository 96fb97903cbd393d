------------------------------ MODULE MCPlacement ------------------------------
(* Instance of Placement: the first and the third archive share a file name; *)
(* the second is below one MB, and both unpack to more than their size.       *)
EXTENDS Placement, TLC

Names == <<"f1", "f2", "f1">>
Sizes == <<1, 0, 1>>
Weights == "f1" :> 2 @@ "f2" :> 2

Symmetry == Permutations(Workers) \cup Permutations(Removals)
================================================================================
