---------------------------------- MODULE Drain ----------------------------------
(***************************************************************************)
(* The miner of log templates (DrainMiner).  Goroutines feed it the lines   *)
(* of their files in any order, each addition under its lock.  A line is a  *)
(* sequence of words of four kinds: plain ones, ones with a digit inside,   *)
(* ones that are a number, and the wild card.  The tree of prefixes is not  *)
(* kept apart: a node is there if a cluster was put below it.               *)
(***************************************************************************)
EXTENDS Naturals, Sequences, FiniteSets, SequencesExt

CONSTANTS WithDigit,   \* words with a digit among letters
          Numbers,     \* words of digits: the preprocessing replaces them
          MinedFrom,   \* the lines that may come
          MaxDepth,    \* maxDepth (4)
          Threshold,   \* simThreshold in percent (55)
          MaxClusters, \* maxClusters (1000)
          Digest(_),   \* 24 bits of the MD5 of a line's words
          MaxLines     \* bound: lines added

Wild == "<*>"

(* A wild card has no digit in it, and no line is empty.                    *)
Word == (UNION {ToSet(l) : l \in MinedFrom}) \cup {Wild}
ASSUME MinerAssumption ==
  /\ MinedFrom \subseteq Seq(Word) \ {<<>>}
  /\ MaxDepth \in Nat \ {0} /\ Threshold \in 0..100
  /\ Wild \notin WithDigit

VARIABLES clusters,  \* the clusters in the order they came
          dropped    \* lines that found the miner full

minerVars == <<clusters, dropped>>

(* PreprocessLogWithRules: numbers become wild cards.                       *)
Preprocess(words) == [i \in DOMAIN words |-> IF words[i] \in Numbers THEN Wild ELSE words[i]]

(* Where the tree keeps a cluster: under its first words, those with a      *)
(* digit under the wild card.                                               *)
Depth(n) == IF n < MaxDepth THEN n - 1 ELSE MaxDepth - 1
Path(words) == [i \in 1..Depth(Len(words)) |-> IF words[i] \in WithDigit THEN Wild ELSE words[i]]

IsNode(len, node) == \E i \in DOMAIN clusters : clusters[i].len = len /\ IsPrefix(node, clusters[i].path)

(* Mutant: the branch of the wild card comes first.                         *)
BranchWildFirst(words, node) ==
  IF IsNode(Len(words), Append(node, Wild)) THEN Wild ELSE words[Len(node) + 1]

(* treeSearch: at each level the branch of the word itself, else that of    *)
(* the wild card; without either the search stays where it is.  Clusters    *)
(* are at the last level only: it finds those that it goes all the way to.  *)
Branch(words, node) ==
  LET w == words[Len(node) + 1] IN IF IsNode(Len(words), Append(node, w)) THEN w ELSE Wild

LeadsTo(words, path) == \A k \in DOMAIN path : path[k] = Branch(words, SubSeq(path, 1, k - 1))

Agree(template, words) == Cardinality({i \in DOMAIN words : template[i] = words[i]})

Close(template, words) == Agree(template, words) * 100 >= Threshold * Len(words)

(* The closest cluster of the node, the first of the closest.               *)
Candidates(words) ==
  {i \in DOMAIN clusters : /\ clusters[i].len = Len(words) /\ LeadsTo(words, clusters[i].path)
                           /\ Close(clusters[i].template, words)}

Best(words) ==
  CHOOSE i \in Candidates(words) : \A j \in Candidates(words) :
    LET Sim(k) == Agree(clusters[k].template, words) IN Sim(i) > Sim(j) \/ (Sim(i) = Sim(j) /\ i <= j)

(* Where the line differs the template becomes wild.                        *)
Generalise(template, words) == [i \in DOMAIN template |-> IF template[i] # words[i] THEN Wild ELSE template[i]]

Priority(level) == CASE level = "FATAL" -> 4 [] level = "ERROR" -> 3 [] level = "WARN" -> 2 [] OTHER -> 1

Higher(old, new) == IF Priority(new) > Priority(old) THEN new ELSE old

Joins(i, words, level) ==
  clusters' = [clusters EXCEPT ![i].count = @ + 1, ![i].level = Higher(@, level),
                               ![i].template = Generalise(@, words), ![i].fed = @ \cup {<<words, level>>}]

(* AddLogWithLine: the line joins the closest cluster or starts one; a full *)
(* miner drops it.                                                          *)
AddLog(raw, level) ==
  LET words == Preprocess(raw) IN
  IF Candidates(words) # {}
  THEN Joins(Best(words), words, level) /\ UNCHANGED dropped
  ELSE IF Len(clusters) >= MaxClusters THEN dropped' = dropped + 1 /\ UNCHANGED clusters
  ELSE /\ clusters' = Append(clusters, [id |-> Digest(words), sample |-> words, len |-> Len(words), path |-> Path(words), template |-> words,
                                        level |-> level, count |-> 1, fed |-> {<<words, level>>}])
       /\ UNCHANGED dropped

Added == FoldLeft(LAMBDA n, c : n + c.count, dropped, clusters)

MinerInit == clusters = <<>> /\ dropped = 0
MinerNext == Added < MaxLines /\ \E raw \in MinedFrom, level \in {"INFO", "ERROR"} : AddLog(raw, level)
MinerSpec == MinerInit /\ [][MinerNext]_minerVars

--------------------------------------------------------------------------------

HasWild(i) == \E f \in clusters[i].fed : Wild \in ToSet(f[1])

Collide(words, others) == words # others /\ Digest(words) = Digest(others)

(* The ID of a cluster is a short digest of the words of its first line, so *)
(* two may have the same: but only of first lines that differ and collide,  *)
(* as a line like the first one always finds a cluster, however far the     *)
(* template has been generalised since; unless the cluster was given lines  *)
(* with wild cards of their own: these agree with the wild cards of the     *)
(* template and let it erode below the threshold, and then a line like the  *)
(* first one makes a second cluster with its ID.                            *)
SameIDIsCollision ==
  \A i \in DOMAIN clusters : HasWild(i) \/
    /\ \A j \in DOMAIN clusters :
         i < j /\ clusters[i].id = clusters[j].id => Collide(clusters[i].sample, clusters[j].sample)
    /\ Candidates(clusters[i].sample) # {}

(* A template stands for every line it was given: each of its words is wild *)
(* or the word of all of them, and it has the highest of their levels.      *)
TemplateCoversItsLines ==
  \A i \in DOMAIN clusters : \A f \in clusters[i].fed :
    /\ Priority(clusters[i].level) >= Priority(f[2])
    /\ \A k \in 1..clusters[i].len : clusters[i].template[k] \in {f[1][k], Wild}

(* A template keeps as many words of its first line as the threshold asks   *)
(* for, or was given lines with wild cards: other lines, however many,      *)
(* never make it stand for everything.                                      *)
TemplateStaysSpecific ==
  \A i \in DOMAIN clusters : HasWild(i) \/
    Agree(clusters[i].template, clusters[i].sample) * 100 >= Threshold * clusters[i].len

================================================================================
