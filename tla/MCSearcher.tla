------------------------------- MODULE MCSearcher -------------------------------
(* Instance of Searcher: three keys, of four files, of two and of one.       *)
EXTENDS Searcher, TLC

HitsIn == "a" :> 2 @@ "b" :> 3 @@ "c" :> 1 @@ "d" :> 2
Tasks == "all" :> <<"a", "b", "c", "d">> @@ "some" :> <<"c", "d">> @@ "one" :> <<"b">>

Symmetry == Permutations(Workers) \cup Permutations(Searches)
================================================================================
