------------------------------ MODULE MCWorkerUnits ------------------------------
(* Values of the constants of WorkerFiles for TLC. *)
EXTENDS WorkerFiles, FiniteSetsExt, TLC

N(base, num, ext) == [base |-> base, num |-> num, ext |-> ext]
Log(id, time, num, n, ended) == <<[log |-> id, time |-> time, num |-> num, lines |-> n, ended |-> ended]>>
TextFile(text) == [type |-> "plain", text |-> text, broken |-> "no"]
Gz(text, broken) == [type |-> "single", text |-> text, broken |-> broken]
Packed(inside, broken) == [type |-> "multi", inside |-> inside, broken |-> broken]
D(num, ext) == N("d", num, ext)
X == N("x", -1, "")
A == N("a", -1, "")
B == N("b", -1, "")
One(p, n) == [q \in {p} |-> n]
Two(p, n, q, o) == [r \in {p, q} |-> IF r = p THEN n ELSE o]

(* Plain and compressed logs of one prefix with and without times, broken   *)
(* ones, nested archives, one with a directory of its own name, one with an *)
(* upper-case suffix, and a directory and a file where one is unpacked.     *)
Entries == {
  <<<<D(-1, "")>>, TextFile(Log("d", 0, -1, 2, FALSE))>>,
  <<<<D(1, "")>>, TextFile(Log("d1", 5, 1, 1, FALSE))>>,
  <<<<D(2, "")>>, TextFile(Log("d2", 0, 2, 1, TRUE))>>,
  <<<<D(-1, "gz")>>, Gz(Log("dgz", 9, -1, 1, TRUE), "no")>>,
  <<<<D(1, "gz")>>, Gz(Log("d1gz", 0, 1, 1, TRUE), "no")>>,
  <<<<D(1, "bz2")>>, Gz(Log("d1bz2", 0, 1, 1, FALSE), "no")>>,
  <<<<D(3, "gz")>>, Gz(Log("d3gz", 0, 3, 2, FALSE), "no")>>,
  <<<<D(4, "gz")>>, Gz(Log("d4gz", 2, 4, 2, TRUE), "header")>>,
  <<<<D(5, "gz")>>, Gz(Log("d5gz", 1, 5, 2, TRUE), "middle")>>,
  <<<<D(-1, ""), D(6, "gz")>>, Gz(Log("dd6", 0, 6, 1, TRUE), "no")>>,
  <<<<D(-1, "zip")>>, Packed(One(<<X>>, TextFile(Log("dx", 0, -1, 1, TRUE))), "header")>>,
  <<<<N("a", -1, "zip")>>, Packed(Two(<<D(7, "")>>, TextFile(Log("a7", 4, 7, 1, TRUE)), <<D(8, "gz")>>, Gz(Log("a8", 3, 8, 1, FALSE), "no")), "no")>>,
  <<<<N("b", -1, "zip")>>, Packed(Two(<<B, X>>, TextFile(Log("bbx", 0, -1, 1, TRUE)), <<X>>, TextFile(Log("bx", 0, -1, 2, TRUE))), "no")>>,
  <<<<N("c", -1, "zip")>>, Packed(One(<<N("a", -1, "zip")>>, Packed(One(<<D(9, "gz")>>, Gz(Log("ca9", 0, 9, 1, TRUE), "no")), "no")), "no")>>,
  <<<<N("u", -1, "ZIP")>>, Packed(One(<<X>>, TextFile(Log("ux", 0, -1, 1, TRUE))), "no")>>,
  <<<<A>>, TextFile(Log("a", 0, -1, 1, TRUE))>>,
  <<<<A, D(7, "")>>, TextFile(Log("a7p", 0, 7, 3, TRUE))>>,
  <<<<A, D(2, "gz")>>, Gz(Log("a2", 1, 2, 3, TRUE), "no")>>}

Tree(set) == [p \in {e[1] : e \in set} |-> (CHOOSE e \in set : e[1] = p)[2]]
IsTree(set) == \A e, f \in set : e # f => ~IsPrefix(e[1], f[1])

(* Packages of up to three of these, and the other kinds of upload.         *)
SomeUploads ==
  {[name |-> N("p", -1, "zip"), node |-> Packed(Tree(s), "no")] : s \in {t \in UNION {kSubset(k, Entries) : k \in 1..3} : IsTree(t)}}
  \cup {[name |-> N("p", -1, "zip"), node |-> Packed(<<>>, "header")],
        [name |-> D(1, "gz"), node |-> Gz(Log("p", 0, 1, 1, FALSE), "no")],
        [name |-> D(1, ""), node |-> TextFile(Log("p", 0, 1, 1, FALSE))]}

(* Keywords of one token, of two of a token's characters, and with a dash.   *)
FileWords == {<<"k">>, <<"k", "k">>, <<"k", "-">>}

a == "a"
b == "b"
B2 == "B"
o == "o"
O2 == "O"

(* The letters of patterns and lines: a b, in both cases, and the second     *)
(* bytes of an umlaut in both cases, which only ToLower folds.               *)
RuleLetters == {a, b, B2, o, O2}
RuleLower == [c \in RuleLetters |-> CASE c = B2 -> b [] c = O2 -> o [] OTHER -> c]
RuleLowerASCII == [c \in RuleLetters |-> IF c = B2 THEN b ELSE c]

Lit(w) == [written |-> w, means |-> {w}]
AnyCase(w, forms) == [written |-> w, means |-> forms]
Dot == [written |-> <<Meta>>, means |-> {<<c>> : c \in RuleLetters}]
Boundary == [written |-> <<Meta, b>>, means |-> {<<>>}]
Opt(w) == [written |-> Append(w, Meta), means |-> {<<>>, w}]
Alt(v, w) == [written |-> <<Meta>> \o v \o <<Meta>> \o w \o <<Meta>>, means |-> {v, w}]
Plain(w) == [regex |-> FALSE, branches |-> << <<Lit(w)>> >>]
Regex(bs) == [regex |-> TRUE, branches |-> bs]

(* Plain rules whose words overlap and contain one another, and patterns     *)
(* with branches, with a branch too short, with an optional part, with a     *)
(* choice of words, with a dot, with an escape, in any case, with an umlaut. *)
Pool == {Plain(<<a>>), Plain(<<a, b>>), Plain(<<B2, a, b>>), Plain(<<a, a, b>>), Plain(<<a, O2>>),
  Regex(<< <<Lit(<<b, b>>)>>, <<Lit(<<b, a, a>>)>> >>),
  Regex(<< <<Lit(<<b, b>>)>>, <<Lit(<<a>>)>> >>),
  Regex(<< <<Lit(<<b>>), Opt(<<a>>), Lit(<<b>>)>> >>),
  Regex(<< <<Alt(<<a, a, b>>, <<b, b>>), Lit(<<a>>)>> >>),
  Regex(<< <<Lit(<<b>>), Dot, Lit(<<a, b>>)>> >>),
  Regex(<< <<Boundary, Lit(<<a, B2>>)>> >>),
  Regex(<< <<AnyCase(<<a, B2>>, {<<a, b>>, <<a, B2>>}), Dot, Lit(<<b>>)>> >>),
  Regex(<< <<Lit(<<a, O2>>)>> >>)}

(* A package of three logs, all lengths and all of them broken or not.      *)
Logs == {"a", "b", "c"}
LogTasks == <<"a", "b", "c">>
LogPackages == [count : [Logs -> 0..3], broken : SUBSET Logs]
LogSeverity == "a" :> "FATAL" @@ "b" :> "FATAL" @@ "c" :> "WARNING"

(* Lines that are like, that meet in the branch of the wild card, and that   *)
(* have wild cards themselves: enough for a template to erode and for a line *)
(* like its first one to come afterwards.                                   *)
MinedLines == {<<"a", "x1", "a">>, <<"a", "7", "a">>, <<"a", "7", "7">>, <<"a", "a", "7">>,
  <<"x1", "a", "a">>, <<"7", "a", "a">>, <<"a", "a", "a">>, <<"a", "b">>}

(* Lines whose digests collide, different as they are.                       *)
MinedDigest(words) == IF words[1] = "a" THEN "d1" ELSE "d2"

================================================================================
