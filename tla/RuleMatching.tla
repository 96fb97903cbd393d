------------------------------ MODULE RuleMatching ------------------------------
(***************************************************************************)
(* The rule engine on one line: the words a rule must contain are taken     *)
(* from its pattern, an Aho-Corasick automaton finds the rules whose words  *)
(* are in the line, and only those are matched in full.  A pattern is a     *)
(* sequence of branches, a branch a sequence of items: how the item is      *)
(* written, and the texts it may match.  So `.', written with a special     *)
(* character, matches every letter, and an escape such as `\b' is written   *)
(* with a letter that it does not match.  A letter is a byte.  Words are    *)
(* folded as strings.ToLower does it, of letters whose cases have the same  *)
(* number of bytes; lines only between A and Z.  A round of a loop is a     *)
(* step; the line grows by a letter at a time.                              *)
(*                                                                          *)
(* Left out: spaces at the ends of a word, which are trimmed.               *)
(***************************************************************************)
EXTENDS Naturals, Sequences, FiniteSets, SequencesExt

CONSTANTS RulePool,   \* the rules to choose from
          MaxRules,   \* bound: rules in force at a time
          Letters,
          Lower,      \* [Letters -> Letters]: strings.ToLower
          LowerASCII, \* [Letters -> Letters]: toLowerBytes
          MaxLine     \* bound: letters of a line

(* A special character of a pattern is no letter.  A plain rule, which is   *)
(* not made without a pattern, is one item.                                 *)
Meta == "meta"
Signs == Letters \cup {Meta}
PatternItem == [written : Seq(Signs), means : SUBSET Seq(Letters)]
ASSUME RulesAssumption ==
  /\ Meta \notin Letters
  /\ {Lower, LowerASCII} \subseteq [Letters -> Letters]
  /\ \A r \in RulePool :
       /\ r.regex \in BOOLEAN /\ r.branches \in Seq(Seq(PatternItem))
       /\ ~r.regex => /\ Len(r.branches) = 1 /\ Len(r.branches[1]) = 1
                      /\ r.branches[1][1].written \in Seq(Letters) \ {<<>>}

VARIABLES rules,    \* the rules in force
          ids,      \* ruleIDs: [nodes of the trie -> rules put out there]
          fail,     \* [nodes that are linked -> their fail links]
          child,    \* the node that is being linked, the Root if there is none
          curr,     \* where the loop stands: failNode, then curr
          trimmed,  \* the line so far
          line,     \* lineLowerBuf: the same, folded
          reading,  \* its last character is still in hand
          matched   \* hitSet: the rules put out for the line

ruleVars == <<rules, ids, fail, child, curr, trimmed, line, reading, matched>>

--------------------------------------------------------------------------------

ToLower(w) == [i \in DOMAIN w |-> Lower[w[i]]]
ToLowerBytes(w) == [i \in DOMAIN w |-> LowerASCII[w[i]]]

(* A branch as it is written.                                               *)
Text(branch) == FoldLeft(LAMBDA text, item : text \o item.written, <<>>, branch)

(* extractLongestLiteralToken: the first longest run between Metas.  Of an  *)
(* escape the backslash is one, its letter is not.                          *)
LongestLiteral(text) ==
  LET Runs == {p \in (DOMAIN text) \X (DOMAIN text) : p[1] <= p[2] /\ \A i \in p[1]..p[2] : text[i] # Meta}
      best == CHOOSE p \in Runs : \A q \in Runs :
                p[2] - p[1] > q[2] - q[1] \/ (p[2] - p[1] = q[2] - q[1] /\ p[1] <= q[1])
  IN  IF Runs = {} THEN <<>> ELSE SubSeq(text, best[1], best[2])

(* extractCandidateKeywords: one word of every branch, or none if a branch  *)
(* has no word of two bytes.  A plain rule is its own word.                 *)
Keywords(rule) ==
  LET words == {ToLower(LongestLiteral(Text(rule.branches[i]))) : i \in DOMAIN rule.branches} IN
  IF ~rule.regex THEN {ToLower(rule.branches[1][1].written)}
  ELSE IF \E w \in words : Len(w) < 2 THEN {} ELSE words

--------------------------------------------------------------------------------

(* The trie of all words; a node is the text that leads to it.              *)
Root == <<>>
Trie(words) == {Root} \cup UNION {{SubSeq(w, 1, n) : n \in 0..Len(w)} : w \in words}

Nodes == DOMAIN ids
Linked == DOMAIN fail

(* NewACAutomaton up to its queue: the trie is there, and so are the links  *)
(* of the children of its root.                                             *)
RuleInit ==
  /\ rules \in {set \in SUBSET RulePool : Cardinality(set) \in 1..MaxRules}
  /\ ids = [n \in Trie(UNION {Keywords(r) : r \in rules}) |-> {r \in rules : n # Root /\ n \in Keywords(r)}]
  /\ fail = [n \in {m \in Nodes : Len(m) <= 1} |-> Root]
  /\ child = Root /\ curr = Root
  /\ trimmed = <<>> /\ line = <<>> /\ reading = FALSE /\ matched = {}

(* A loop that follows the fail links ends at a node with a child for the   *)
(* character, or beyond the root.                                           *)
Arrives(c) == Append(curr, c) \in Nodes \/ curr = Root
Arrival(c) == IF Append(curr, c) \in Nodes THEN Append(curr, c) ELSE Root

(* The queue leads through the trie level by level.                         *)
Visits(n) ==
  /\ child = Root /\ n \in Nodes \ Linked
  /\ \A m \in Nodes \ Linked : Len(n) <= Len(m)
  /\ child' = n /\ curr' = fail[Front(n)]
  /\ UNCHANGED <<rules, ids, fail, trimmed, line, reading, matched>>

(* One round for the fail link of a child; with the link it takes over the  *)
(* rules that are put out there.                                            *)
Climbs ==
  /\ child # Root
  /\ IF Arrives(Last(child))
     THEN LET to == Arrival(Last(child)) IN
          /\ fail' = [n \in Linked \cup {child} |-> IF n = child THEN to ELSE fail[n]]
          /\ ids' = [ids EXCEPT ![child] = @ \cup ids[to]]
          /\ child' = Root /\ curr' = Root
     ELSE curr' = fail[curr] /\ UNCHANGED <<ids, fail, child>>
  /\ UNCHANGED <<rules, trimmed, line, reading, matched>>

(* MatchOneLine takes the next character.                                   *)
Reads(c) ==
  /\ Linked = Nodes /\ ~reading /\ Len(line) < MaxLine
  /\ trimmed' = Append(trimmed, c) /\ line' = Append(line, LowerASCII[c]) /\ reading' = TRUE
  /\ UNCHANGED <<rules, ids, fail, child, curr, matched>>

(* One round for that character; where it arrives the rules are put out.    *)
Goes ==
  /\ reading
  /\ IF Arrives(Last(line))
     THEN /\ curr' = Arrival(Last(line))
          /\ matched' = matched \cup ids[curr']
          /\ reading' = FALSE
     ELSE curr' = fail[curr] /\ UNCHANGED <<reading, matched>>
  /\ UNCHANGED <<rules, ids, fail, child, trimmed, line>>

RuleNext == (\E n \in Nodes : Visits(n)) \/ Climbs \/ (\E c \in Letters : Reads(c)) \/ Goes
RuleSpec == RuleInit /\ [][RuleNext]_ruleVars

--------------------------------------------------------------------------------

(* Where what an item matches after position p of a text may end.           *)
After(text, p, item) == {e \in p..Len(text) : SubSeq(text, p + 1, e) \in item.means}

(* Where a branch that starts after position i of a text may end.           *)
Ends(text, branch, i) ==
  FoldLeft(LAMBDA ends, item : UNION {After(text, p, item) : p \in ends}, {i}, branch)

IsIn(text, w) == \E i \in 0..(Len(text) - Len(w)) : SubSeq(text, i + 1, i + Len(w)) = w

(* A pattern is matched with the line as it is, a plain rule with the       *)
(* folded one.                                                              *)
FullMatch(rule) ==
  IF rule.regex
  THEN \E k \in DOMAIN rule.branches, i \in 0..Len(trimmed) : Ends(trimmed, rule.branches[k], i) # {}
  ELSE IsIn(line, ToLower(rule.branches[1][1].written))

(* DiagnoseFile on a line: of the candidates of the automaton and the rules *)
(* without a word, those that match in full.                                *)
Diagnosed == {r \in matched \cup {x \in rules : Keywords(x) = {}} : FullMatch(r)}

--------------------------------------------------------------------------------

(* One pass over a line finds exactly the rules one of whose words is in it *)
(* anywhere, words inside and across one another included.                  *)
AutomatonIsExact == ~reading => matched = {r \in rules : \E w \in Keywords(r) : IsIn(line, w)}

(* An item that keeps its letters: all it matches folds, between A and Z,   *)
(* to what it is written with, folded by ToLower.  One without any: special *)
(* characters only.                                                         *)
Lettered(item) == item.written \in Seq(Letters) /\ \A m \in item.means : ToLowerBytes(m) = ToLower(item.written)
Mute(item) == item.written # <<>> /\ \A k \in DOMAIN item.written : item.written[k] = Meta

(* A rule of such items: neither an optional part nor a choice of words or  *)
(* of letters, no escape with a letter, and no letter with a form beyond    *)
(* ASCII, as an umlaut has and, when case is ignored, k and s.              *)
Solid(rule) == rule.regex => \A k \in DOMAIN rule.branches : \A i \in DOMAIN rule.branches[k] :
                 Lettered(rule.branches[k][i]) \/ Mute(rule.branches[k][i])

(* The words are a shortcut only: a solid rule is reported of the lines it  *)
(* matches, whatever other rules there are.  Of any other rule the longest  *)
(* word may be one the line need not have, and the match is lost.           *)
ShortcutKeepsMatches ==
  ~reading => \A r \in rules : Solid(r) => (r \in Diagnosed <=> FullMatch(r))

================================================================================
