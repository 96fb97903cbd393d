------------------------------- MODULE FileProofs -------------------------------
(* Proofs about the search and the indexes of a file: FileSearch, WorkerFiles. *)
EXTENDS WorkerFiles, SequenceTheorems, FiniteSetTheorems, WellFoundedInduction, TLAPS

Content == Seq(Chars)
Page == Seq(Content)

\* What is taken from s alone is what follows the lines of g in both together, if g is at an end of line.
TakesChar(g, acc, c) == TakeChar(acc, c)
TakenAfter(g, s, acc) ==
  /\ acc \in [lines : Page, rest : Content]
  /\ Len(acc.lines) + Len(acc.rest) <= Len(s)
  /\ acc.rest = << >> <=> (s = << >> \/ s[Len(s)] = NL)
  /\ g \in Content /\ Taken(g) \in [lines : Page, rest : Content] /\ Taken(g).rest = << >>
       => Taken(g \o s) = [lines |-> Taken(g).lines \o acc.lines, rest |-> acc.rest]

Taking == INSTANCE Folding WITH op <- TakesChar, Inv <- TakenAfter

Empty == [lines |-> << >>, rest |-> << >>]

\* Reading lines is a fold, character by character.
LEMMA TakenIsFold == ASSUME NEW g, NEW s PROVE Taken(s) = Taking!Fold(g, Empty, s)
BY DEF Taken, Empty, Taking!Fold, Taking!Folds, Taking!Top, TakesChar, FoldLeft, MapThenFoldSet, Max

\* Nothing has no lines.
LEMMA TakenEmpty == Taken(<< >>) = Empty
BY TakenIsFold, Taking!FoldEmpty

\* One more character read.
LEMMA TakenAppend == ASSUME NEW s \in Content, NEW c \in Chars PROVE Taken(Append(s, c)) = TakeChar(Taken(s), c)
<1>1. Taking!Fold(0, Empty, Append(s, c)) = TakesChar(0, Taking!Fold(0, Empty, s), c)
  BY Taking!FoldAppend DEF Content
<1> QED BY <1>1, TakenIsFold DEF TakesChar

\* What is put at the end of two joined pages is put at the end of the second.
LEMMA AppendLast == ASSUME NEW a \in Page, NEW b \in Page, NEW x \in Content PROVE Append(a \o b, x) = a \o Append(b, x)
BY DEF Page

LEMMA AppendChar ==
  ASSUME NEW a \in Content, NEW b \in Content, NEW x \in Chars
  PROVE  a \o Append(b, x) = Append(a \o b, x) /\ a \o b \in Content
BY SMTT(30) DEF Content

\* A line's end ends the line; any other character goes on with it.
LEMMA TakeCharOf ==
  ASSUME NEW l, NEW r, NEW c
  PROVE  TakeChar([lines |-> l, rest |-> r], c) =
           IF c = NL THEN [lines |-> Append(l, r), rest |-> << >>] ELSE [lines |-> l, rest |-> Append(r, c)]
<1> DEFINE a == [lines |-> l, rest |-> r]
<1>1. a.rest = r /\ a.lines = l OBVIOUS
<1>2. [a EXCEPT !.rest = Append(a.rest, c)] = [lines |-> l, rest |-> Append(r, c)] OBVIOUS
<1> QED BY <1>1, <1>2 DEF TakeChar

\* What is claimed of the lines of a text stands with one character more.
LEMMA TakeOne ==
  ASSUME NEW g, NEW s \in Content, NEW acc, TakenAfter(g, s, acc), NEW c \in Chars
  PROVE  TakenAfter(g, Append(s, c), TakeChar(acc, c))
<1> DEFINE new == TakeChar(acc, c)
           more == Append(s, c)
<1> SUFFICES TakenAfter(g, more, new) OBVIOUS
<1>1. acc \in [lines : Page, rest : Content] /\ Len(acc.lines) + Len(acc.rest) <= Len(s) BY DEF TakenAfter
<1>2. acc.lines \in Seq(Content) /\ acc.rest \in Seq(Chars) BY <1>1 DEF Page, Content
<1>3. more \in Content /\ more # << >> /\ Len(more) = Len(s) + 1 /\ more[Len(more)] = c /\ Len(s) \in Nat
  BY DEF Content
<1>4. Len(acc.lines) \in Nat /\ Len(acc.rest) \in Nat BY <1>2
<1>5. CASE c = NL
  <2>1. new = [lines |-> Append(acc.lines, acc.rest), rest |-> << >>] BY <1>5 DEF TakeChar
  <2>2. new \in [lines : Page, rest : Content] BY <1>2, <2>1 DEF Page, Content
  <2>3. Len(new.lines) = Len(acc.lines) + 1 /\ Len(new.rest) = 0 BY <1>2, <2>1
  <2>4. ASSUME g \in Content, Taken(g) \in [lines : Page, rest : Content], Taken(g).rest = << >>
        PROVE  Taken(g \o more) = [lines |-> Taken(g).lines \o new.lines, rest |-> new.rest]
    <3>1. g \o more = Append(g \o s, c) /\ g \o s \in Content BY <2>4, AppendChar
    <3>2. Taken(g \o more) = TakeChar(Taken(g \o s), c) BY <3>1, TakenAppend
    <3>3. Taken(g \o s) = [lines |-> Taken(g).lines \o acc.lines, rest |-> acc.rest] BY <2>4 DEF TakenAfter
    <3>4. Taken(g \o more) = [lines |-> Append(Taken(g).lines \o acc.lines, acc.rest), rest |-> << >>]
      BY <1>5, <3>2, <3>3, TakeCharOf
    <3>6. Append(Taken(g).lines \o acc.lines, acc.rest) = Taken(g).lines \o new.lines
      <4>1. Taken(g).lines \in Page /\ acc.lines \in Page /\ acc.rest \in Content BY <1>1, <2>4
      <4>2. new.lines = Append(acc.lines, acc.rest) BY <2>1
      <4> HIDE DEF new
      <4> QED BY ZenonT(60), <4>1, <4>2, AppendLast
    <3> QED BY <2>1, <3>4, <3>6
  <2>5. new.rest = << >> BY <2>1
  <2>6. Len(new.lines) + Len(new.rest) <= Len(more) BY <1>1, <1>3, <1>4, <2>3
  <2> HIDE DEF new, more
  <2> QED BY <1>3, <1>5, <2>2, <2>4, <2>5, <2>6 DEF TakenAfter
<1>6. CASE c # NL
  <2>1. new = [lines |-> acc.lines, rest |-> Append(acc.rest, c)] BY <1>1, <1>6 DEF TakeChar
  <2>2. new \in [lines : Page, rest : Content] BY <1>2, <2>1 DEF Page, Content
  <2>3. Len(new.lines) = Len(acc.lines) /\ Len(new.rest) = Len(acc.rest) + 1 /\ new.rest # << >> BY <1>2, <2>1
  <2>4. ASSUME g \in Content, Taken(g) \in [lines : Page, rest : Content], Taken(g).rest = << >>
        PROVE  Taken(g \o more) = [lines |-> Taken(g).lines \o new.lines, rest |-> new.rest]
    <3>1. g \o more = Append(g \o s, c) /\ g \o s \in Content BY <2>4, AppendChar
    <3>2. Taken(g \o more) = TakeChar(Taken(g \o s), c) BY <3>1, TakenAppend
    <3>3. Taken(g \o s) = [lines |-> Taken(g).lines \o acc.lines, rest |-> acc.rest] BY <2>4 DEF TakenAfter
    <3>4. Taken(g \o more) = [lines |-> Taken(g).lines \o acc.lines, rest |-> Append(acc.rest, c)]
      BY <1>6, <3>2, <3>3, TakeCharOf
    <3> QED BY <2>1, <3>4
  <2> QED BY SMTT(40), <1>1, <1>3, <1>4, <1>6, <2>1, <2>2, <2>3, <2>4 DEF TakenAfter
<1> QED BY <1>5, <1>6

\* The lines of a text, alone or after a text that ends with a line's end.
LEMMA TakenIs == ASSUME NEW g, NEW s \in Content PROVE TakenAfter(g, s, Taken(s))
<1>1. TakenAfter(g, << >>, Empty)
  <2>1. Empty \in [lines : Page, rest : Content] /\ Len(Empty.lines) = 0 /\ Len(Empty.rest) = 0
    BY DEF Empty, Page, Content
  <2>2. g \in Content => g \o << >> = g BY ConcatEmptySeq DEF Content
  <2>3. ASSUME g \in Content, Taken(g) \in [lines : Page, rest : Content], Taken(g).rest = << >>
        PROVE  Taken(g) = [lines |-> Taken(g).lines \o << >>, rest |-> << >>] BY <2>3, ConcatEmptySeq DEF Page
  <2> QED BY <2>1, <2>2, <2>3 DEF TakenAfter, Empty
<1>2. \A a \in Seq(Chars), c \in Chars : \A acc : TakenAfter(g, a, acc) => TakenAfter(g, Append(a, c), TakesChar(g, acc, c))
  BY TakeOne DEF TakesChar, Content
<1>3. TakenAfter(g, s, Taking!Fold(g, Empty, s)) BY <1>1, <1>2, Taking!FoldKeeps DEF Content
<1> QED BY <1>3, TakenIsFold

Edge(f, a) == a \in 0..Len(f) /\ (a = 0 \/ a = Len(f) \/ f[a] = NL)
LinesTo(f, a) == Len(Lines(Section(f, 0, a)))

\* Lines are texts, and there are no more of them than characters.
LEMMA TakenType ==
  ASSUME NEW s \in Content
  PROVE  /\ Taken(s).lines \in Page /\ Taken(s).rest \in Content
         /\ Taken(s) = [lines |-> Taken(s).lines, rest |-> Taken(s).rest]
         /\ Len(Taken(s).lines) + Len(Taken(s).rest) <= Len(s)
         /\ Taken(s).rest = << >> <=> (s = << >> \/ s[Len(s)] = NL)
BY TakenIs DEF TakenAfter

\* The same with the last line, ended or not.
LEMMA LinesType == ASSUME NEW s \in Content PROVE Lines(s) \in Page /\ Len(Lines(s)) \in 0..Len(s)
<1> DEFINE t == Taken(s)
<1>1. /\ t.lines \in Page /\ t.rest \in Content /\ Len(t.lines) + Len(t.rest) <= Len(s) BY TakenType
<1> HIDE DEF t
<1>2. t.lines \in Seq(Content) /\ t.rest \in Seq(Chars) /\ s \in Seq(Chars) BY <1>1 DEF Page, Content
<1>5. Len(t.lines) \in Nat /\ Len(t.rest) \in Nat /\ Len(s) \in Nat BY <1>2, LenProperties
<1>6. \A x, y, z \in Nat : x + y <= z => x \in 0..z /\ (y >= 1 => x + 1 \in 0..z) OBVIOUS
<1>7. Len(t.lines) \in 0..Len(s) /\ (Len(t.rest) >= 1 => Len(t.lines) + 1 \in 0..Len(s))
  BY <1>1, <1>5, <1>6, Zenon
<1>3. CASE t.rest = << >>
  <2>1. Len(t.lines) \in 0..Len(s) BY <1>7
  <2> QED BY <1>1, <1>3, <2>1 DEF Lines, t
<1>4. CASE t.rest # << >>
  <2>1. Len(t.rest) >= 1 BY <1>2, <1>4
  <2>2. Append(t.lines, t.rest) \in Page /\ Len(Append(t.lines, t.rest)) = Len(t.lines) + 1 BY <1>1, <1>2 DEF Page
  <2>3. Len(t.lines) + 1 \in 0..Len(s) BY <1>7, <2>1
  <2> QED BY <1>4, <2>2, <2>3 DEF Lines, t
<1> QED BY <1>3, <1>4

\* An empty file has no lines.
LEMMA LinesEmpty == Lines(<< >>) = << >>
BY TakenEmpty DEF Lines, Empty

\* After a text that ends with a line's end come the lines of what follows.
LEMMA LinesConcat ==
  ASSUME NEW g \in Content, NEW h \in Content, Taken(g).rest = << >>
  PROVE  Lines(g \o h) = Lines(g) \o Lines(h)
<1> DEFINE l == Taken(g).lines
           m == Taken(h).lines
           r == Taken(h).rest
<1>1. l \in Page /\ m \in Page /\ r \in Content BY TakenType
<1>2. Taken(g) \in [lines : Page, rest : Content] BY TakenIs DEF TakenAfter
<1>3. Taken(g \o h) = [lines |-> l \o m, rest |-> r] BY <1>2, TakenIs DEF TakenAfter
<1>4. Lines(g) = l BY DEF Lines
<1>5. Lines(h) = IF r = << >> THEN m ELSE Append(m, r) BY DEF Lines
<1>6. Lines(g \o h) = IF r = << >> THEN l \o m ELSE Append(l \o m, r) BY <1>3 DEF Lines
<1> HIDE DEF l, m, r
<1> QED BY SMTT(40), <1>1, <1>4, <1>5, <1>6, AppendLast

\* A section is a text of the characters between two offsets.
LEMMA SectionType ==
  ASSUME NEW f \in Content, NEW a \in 0..Len(f), NEW b \in a..Len(f)
  PROVE  /\ Section(f, a, b) \in Content /\ Len(Section(f, a, b)) = b - a
         /\ \A i \in 1..(b - a) : Section(f, a, b)[i] = f[a + i]
<1>1. f \in Seq(Chars) /\ a + 1 \in Int /\ b \in Int BY DEF Content
<1>2. \A i \in (a + 1)..b : f[i] \in Chars BY <1>1
<1>3. /\ SubSeq(f, a + 1, b) \in Seq(Chars)
      /\ Len(SubSeq(f, a + 1, b)) = IF a + 1 <= b THEN b - (a + 1) + 1 ELSE 0
      /\ \A i \in 1..(b - (a + 1) + 1) : SubSeq(f, a + 1, b)[i] = f[a + 1 + i - 1]
  BY <1>1, <1>2, SubSeqProperties
<1> QED BY <1>1, <1>3 DEF Section, Content

\* Two sections that meet make one.
LEMMA SectionJoin ==
  ASSUME NEW f \in Content, NEW a \in 0..Len(f), NEW b \in a..Len(f), NEW c \in b..Len(f)
  PROVE  Section(f, a, c) = Section(f, a, b) \o Section(f, b, c)
<1> DEFINE l == Section(f, a, c)
           r == Section(f, a, b) \o Section(f, b, c)
<1>1. a \in Nat /\ b \in Nat /\ c \in Nat /\ a <= b /\ b <= c /\ c <= Len(f) /\ Len(f) \in Nat BY DEF Content
<1>2. /\ l \in Content /\ Len(l) = c - a /\ \A i \in 1..(c - a) : l[i] = f[a + i]
      /\ Section(f, a, b) \in Content /\ Len(Section(f, a, b)) = b - a /\ \A i \in 1..(b - a) : Section(f, a, b)[i] = f[a + i]
      /\ Section(f, b, c) \in Content /\ Len(Section(f, b, c)) = c - b /\ \A i \in 1..(c - b) : Section(f, b, c)[i] = f[b + i]
  <2>1. c \in a..Len(f) BY <1>1
  <2>2. /\ l \in Content /\ Len(l) = c - a /\ \A i \in 1..(c - a) : l[i] = f[a + i] BY <2>1, SectionType
  <2>3. /\ Section(f, a, b) \in Content /\ Len(Section(f, a, b)) = b - a
        /\ \A i \in 1..(b - a) : Section(f, a, b)[i] = f[a + i]
    BY SectionType
  <2>4. b \in 0..Len(f) BY <1>1
  <2>5. /\ Section(f, b, c) \in Content /\ Len(Section(f, b, c)) = c - b
        /\ \A i \in 1..(c - b) : Section(f, b, c)[i] = f[b + i]
    BY <2>4, SectionType
  <2> HIDE DEF l
  <2> QED BY <2>2, <2>3, <2>5
<1>3. /\ r \in Content /\ Len(r) = c - a
      /\ \A i \in 1..(c - a) : r[i] = IF i <= b - a THEN Section(f, a, b)[i] ELSE Section(f, b, c)[i - (b - a)]
  <2>1. Section(f, a, b) \in Seq(Chars) /\ Section(f, b, c) \in Seq(Chars) BY <1>2 DEF Content
  <2>2. /\ r \in Seq(Chars) /\ Len(r) = Len(Section(f, a, b)) + Len(Section(f, b, c))
        /\ \A i \in 1..(Len(Section(f, a, b)) + Len(Section(f, b, c))) :
             r[i] = IF i <= Len(Section(f, a, b)) THEN Section(f, a, b)[i] ELSE Section(f, b, c)[i - Len(Section(f, a, b))]
    BY <2>1, ConcatProperties
  <2>3. (b - a) + (c - b) = c - a BY <1>1
  <2> HIDE DEF r
  <2> QED BY <1>2, <2>2, <2>3 DEF Content
<1> HIDE DEF l, r
<1>4. ASSUME NEW i \in 1..(c - a) PROVE r[i] = l[i]
  <2>1. CASE i <= b - a BY <1>1, <1>2, <1>3, <2>1
  <2>2. CASE i > b - a
    <3>1. i - (b - a) \in 1..(c - b) /\ b + (i - (b - a)) = a + i BY <1>1, <2>2
    <3> QED BY <1>1, <1>2, <1>3, <2>2, <3>1
  <2> QED BY <1>1, <2>1, <2>2
<1>5. l \in Seq(Chars) /\ r \in Seq(Chars) /\ Len(l) = Len(r) /\ \A i \in 1..Len(l) : l[i] = r[i] BY <1>2, <1>3, <1>4 DEF Content
<1>6. l = r BY <1>5, SeqEqual
<1> QED BY <1>6 DEF l, r

\* A file is its whole section.
LEMMA SectionWhole == ASSUME NEW f \in Content PROVE Section(f, 0, Len(f)) = f
BY SubSeqFull DEF Section, Content

\* The lines up to a place follow those up to any edge before it.
LEMMA LinesSplit ==
  ASSUME NEW f \in Content, NEW a, Edge(f, a), NEW b \in a..Len(f)
  PROVE  Lines(Section(f, 0, b)) = Lines(Section(f, 0, a)) \o Lines(Section(f, a, b))
<1>0. a \in 0..Len(f) /\ Len(f) \in Nat BY DEF Edge, Content
<1> DEFINE g == Section(f, 0, a)
           h == Section(f, a, b)
<1>1. g \in Content /\ Len(g) = a /\ \A i \in 1..a : g[i] = f[i]
  <2>1. 0 \in 0..Len(f) BY <1>0
  <2>2. /\ g \in Content /\ Len(g) = a - 0 /\ \A i \in 1..(a - 0) : g[i] = f[0 + i] BY <1>0, <2>1, SectionType
  <2>3. a - 0 = a /\ \A i \in 1..a : 0 + i = i BY <1>0
  <2> QED BY <2>2, <2>3
<1>2. h \in Content /\ Len(h) = b - a BY <1>0, SectionType
<1>3. Section(f, 0, b) = g \o h BY <1>0, SectionJoin
<1> HIDE DEF g, h
<1>4. CASE a = 0 \/ (a # Len(f) /\ f[a] = NL)
  <2>1. g = << >> \/ g[Len(g)] = NL BY <1>0, <1>1, <1>4 DEF Content
  <2>2. Taken(g).rest = << >> BY <1>1, <2>1, TakenType
  <2> QED BY <1>1, <1>2, <1>3, <2>2, LinesConcat DEF g, h
<1>5. CASE a = Len(f)
  <2>1. b = a BY <1>0, <1>5
  <2>2. h = << >> BY <1>0, <1>2, <2>1 DEF Content
  <2>3. g \o h = g /\ Lines(h) = << >> BY <1>1, <2>2, LinesEmpty DEF Content
  <2>4. Lines(g) \o << >> = Lines(g) BY <1>1, LinesType DEF Page
  <2> QED BY <1>3, <2>3, <2>4 DEF g, h
<1> QED BY <1>4, <1>5 DEF Edge

\* The lines between two edges are those of the whole that follow the lines before.
LEMMA LinesBetween ==
  ASSUME NEW f \in Content, NEW a, Edge(f, a), NEW b, Edge(f, b), a <= b
  PROVE  /\ LinesTo(f, a) \in Nat /\ LinesTo(f, b) \in Nat
         /\ LinesTo(f, a) <= LinesTo(f, b) /\ LinesTo(f, b) <= Len(Lines(f))
         /\ Lines(Section(f, a, b)) \in Page
         /\ Len(Lines(Section(f, a, b))) = LinesTo(f, b) - LinesTo(f, a)
         /\ \A i \in 1..(LinesTo(f, b) - LinesTo(f, a)) :
              Lines(Section(f, a, b))[i] = Lines(f)[LinesTo(f, a) + i]
<1> DEFINE n == Len(f)
           before == Lines(Section(f, 0, a))
           here == Lines(Section(f, a, b))
           after == Lines(Section(f, b, n))
           upto == Lines(Section(f, 0, b))
           all == Lines(f)
<1>1. n \in Nat /\ a \in 0..n /\ b \in a..n /\ b \in 0..n /\ n \in b..n /\ 0 \in 0..n
      /\ a \in 0..n /\ b \in 0..n BY DEF Edge, Content
<1>2. upto = before \o here BY <1>1, LinesSplit
<1>3. all = upto \o after BY <1>1, LinesSplit, SectionWhole
<1>4. before \in Page /\ here \in Page /\ after \in Page
  <2>1. Section(f, 0, a) \in Content BY <1>1, SectionType
  <2>2. Section(f, a, b) \in Content BY <1>1, SectionType
  <2>3. Section(f, b, n) \in Content BY <1>1, SectionType
  <2> QED BY <2>1, <2>2, <2>3, LinesType
<1>5. LinesTo(f, a) = Len(before) /\ LinesTo(f, b) = Len(upto) BY DEF LinesTo
<1> HIDE DEF n, before, here, after, upto, all
<1>6. before \in Seq(Content) /\ here \in Seq(Content) /\ after \in Seq(Content) BY <1>4 DEF Page
<1>7. Len(before) \in Nat /\ Len(here) \in Nat /\ Len(after) \in Nat BY <1>6, LenProperties
<1>8. /\ upto \in Seq(Content) /\ Len(upto) = Len(before) + Len(here)
      /\ \A i \in 1..(Len(before) + Len(here)) : upto[i] = IF i <= Len(before) THEN before[i] ELSE here[i - Len(before)]
  BY <1>2, <1>6, ConcatProperties
<1>9. /\ Len(all) = Len(upto) + Len(after)
      /\ \A i \in 1..(Len(upto) + Len(after)) : all[i] = IF i <= Len(upto) THEN upto[i] ELSE after[i - Len(upto)]
  <2>1. upto \in Seq(Content) /\ after \in Seq(Content) BY <1>6, <1>8
  <2> QED BY <1>3, <2>1, ConcatProperties
<1>10. LinesTo(f, b) - LinesTo(f, a) = Len(here) BY <1>5, <1>7, <1>8
<1>11. ASSUME NEW i \in 1..Len(here) PROVE here[i] = all[Len(before) + i]
  <2>1. Len(before) + i \in 1..(Len(before) + Len(here)) /\ ~(Len(before) + i <= Len(before))
        /\ Len(before) + i - Len(before) = i /\ Len(before) + i \in 1..(Len(upto) + Len(after))
        /\ Len(before) + i <= Len(upto)
    BY <1>7, <1>8
  <2> QED BY <1>8, <1>9, <2>1
<1>12. LinesTo(f, a) \in Nat /\ LinesTo(f, b) \in Nat /\ LinesTo(f, a) <= LinesTo(f, b) /\ LinesTo(f, b) <= Len(all)
  BY <1>5, <1>7, <1>8, <1>9
<1> QED BY <1>4, <1>5, <1>10, <1>11, <1>12 DEF here, all

\* No lines come before the start of a file, all of them before its end.
LEMMA LinesToEnds == ASSUME NEW f \in Content PROVE LinesTo(f, 0) = 0 /\ LinesTo(f, Len(f)) = Len(Lines(f))
<1>1. Section(f, 0, 0) = << >>
  <2>1. Len(f) \in Nat /\ 0 \in 0..Len(f) /\ 0 - 0 = 0 BY DEF Content
  <2>2. Section(f, 0, 0) \in Content /\ Len(Section(f, 0, 0)) = 0 - 0 BY <2>1, SectionType
  <2> QED BY <2>1, <2>2 DEF Content
<1> QED BY <1>1, LinesEmpty, SectionWhole DEF LinesTo

\* The edges that stay edges when the text goes on.
Start(f, a) == a \in 0..Len(f) /\ (a = 0 \/ f[a] = NL)

\* A place after a line's end is an edge.
LEMMA StartIsEdge == ASSUME NEW f, NEW a, Start(f, a) PROVE Edge(f, a)
BY DEF Start, Edge

\* Growth moves neither the places after lines' ends nor the lines before a place.
LEMMA StartStays ==
  ASSUME NEW f \in Content, NEW c \in Chars, NEW a \in 0..Len(f)
  PROVE  /\ Start(f, a) => Start(Append(f, c), a)
         /\ LinesTo(Append(f, c), a) = LinesTo(f, a)
<1> DEFINE g == Append(f, c)
<1>1. g \in Content /\ Len(g) = Len(f) + 1 /\ Len(f) \in Nat /\ (\A i \in 1..Len(f) : g[i] = f[i]) /\ f \in Seq(Chars)
  BY DEF Content
<1> HIDE DEF g
<1>2. 0 \in 0..Len(f) /\ a \in 0..Len(f) /\ a \in 0..Len(g) /\ 0 \in 0..Len(g) /\ a - 0 = a BY <1>1
<1>3. Section(f, 0, a) \in Content /\ Len(Section(f, 0, a)) = a - 0 /\ \A i \in 1..(a - 0) : Section(f, 0, a)[i] = f[0 + i]
  BY <1>2, SectionType
<1>4. Section(g, 0, a) \in Content /\ Len(Section(g, 0, a)) = a - 0 /\ \A i \in 1..(a - 0) : Section(g, 0, a)[i] = g[0 + i]
  BY <1>1, <1>2, SectionType
<1>5. \A i \in 1..a : 0 + i = i /\ i \in 1..Len(f) BY <1>1
<1>6. Section(g, 0, a) = Section(f, 0, a)
  <2>1. \A i \in 1..a : Section(g, 0, a)[i] = Section(f, 0, a)[i] BY <1>1, <1>2, <1>3, <1>4, <1>5
  <2> QED BY <1>2, <1>3, <1>4, <2>1, SeqEqual DEF Content
<1>7. Start(f, a) => Start(g, a) BY <1>1, <1>2 DEF Start
<1> QED BY <1>6, <1>7 DEF g, LinesTo

\* A line is complete with its end.
LEMMA LineEnds ==
  ASSUME NEW f \in Content, NEW c \in Chars
  PROVE  /\ c = NL  => /\ Taken(Append(f, c)).lines = Append(Taken(f).lines, Taken(f).rest)
                       /\ Taken(Append(f, c)).rest = << >>
                       /\ Start(Append(f, c), Len(f) + 1)
                       /\ LinesTo(Append(f, c), Len(f) + 1) = Len(Taken(f).lines) + 1
         /\ c # NL => /\ Taken(Append(f, c)).lines = Taken(f).lines
                      /\ Taken(Append(f, c)).rest = Append(Taken(f).rest, c)
<1> DEFINE g == Append(f, c)
           t == Taken(f)
<1>1. g \in Content /\ Len(g) = Len(f) + 1 /\ Len(f) \in Nat /\ g[Len(f) + 1] = c BY DEF Content
<1>2. t.lines \in Page /\ t.rest \in Content /\ t = [lines |-> t.lines, rest |-> t.rest] BY TakenType
<1> HIDE DEF t
<1>3. Taken(g) = IF c = NL THEN [lines |-> Append(t.lines, t.rest), rest |-> << >>]
                 ELSE [lines |-> t.lines, rest |-> Append(t.rest, c)]
  BY ZenonT(60), <1>2, TakenAppend, TakeCharOf DEF t
<1> HIDE DEF g
<1>4. CASE c = NL
  <2>1. Taken(g) = [lines |-> Append(t.lines, t.rest), rest |-> << >>] BY <1>3, <1>4
  <2>2. Taken(g).lines = Append(t.lines, t.rest) /\ Taken(g).rest = << >> BY <2>1
  <2>3. Lines(g) = Append(t.lines, t.rest) BY <2>2 DEF Lines
  <2>4. Len(Append(t.lines, t.rest)) = Len(t.lines) + 1 BY <1>2 DEF Page
  <2>5. LinesTo(g, Len(g)) = Len(t.lines) + 1 BY <1>1, <2>3, <2>4, LinesToEnds
  <2>6. Start(g, Len(g)) BY <1>1, <1>4 DEF Start
  <2> QED BY <1>1, <1>4, <2>2, <2>5, <2>6 DEF g, t
<1>5. CASE c # NL
  <2>1. Taken(g) = [lines |-> t.lines, rest |-> Append(t.rest, c)] BY <1>3, <1>5
  <2> QED BY <1>5, <2>1 DEF g, t
<1> QED BY <1>4, <1>5

(* The line index *)

\* After k whole steps and r more.
LEMMA StepCount ==
  ASSUME NEW s \in Nat \ {0}, NEW k \in Nat, NEW r \in 0..(s - 1), NEW n, n = k * s + r + 1
  PROVE  (n % s = 0 <=> r + 1 = s) /\ (r + 1 = s => n = (k + 1) * s)
OBVIOUS

\* The rounded quotient times the divisor is no more than what was divided.
LEMMA DivBelow == ASSUME NEW s \in Nat \ {0}, NEW x \in Nat PROVE x \div s \in Nat /\ (x \div s) * s <= x
OBVIOUS

\* A product of naturals grows with a factor.
LEMMA TimesMonotone == ASSUME NEW s \in Nat, NEW j \in Nat, NEW k \in Nat, j <= k PROVE j * s <= k * s /\ j * s \in Nat
OBVIOUS

NotesLine(step, acc, c) == NoteLine(step, acc, c)
LinesNoted(step, g, acc) ==
  /\ acc = [count |-> Len(Taken(g).lines), off |-> Len(g), offsets |-> acc.offsets]
  /\ acc.offsets \in Seq(Nat) /\ Len(acc.offsets) >= 1
  /\ \A k \in 1..Len(acc.offsets) : Start(g, acc.offsets[k]) /\ LinesTo(g, acc.offsets[k]) = (k - 1) * step
  /\ \E r \in 0..(step - 1) : acc.count = (Len(acc.offsets) - 1) * step + r

Noting == INSTANCE Folding WITH op <- NotesLine, Inv <- LinesNoted

NoLine == [count |-> 0, off |-> 0, offsets |-> <<0>>]

\* The line index is built by a fold.
LEMMA LineIndexIsFold == ASSUME NEW f, NEW step PROVE BuildLineIndex(f, step) = Noting!Fold(step, NoLine, f).offsets
BY DEF BuildLineIndex, NoLine, Noting!Fold, Noting!Folds, Noting!Top, NotesLine, FoldLeft, MapThenFoldSet, Max

\* What is claimed of the line index stands with one character more.
LEMMA NoteOne ==
  ASSUME NEW step \in Nat \ {0}, NEW g \in Content, NEW acc, LinesNoted(step, g, acc), NEW c \in Chars
  PROVE  LinesNoted(step, Append(g, c), NoteLine(step, acc, c))
<1> DEFINE more == Append(g, c)
           new == NoteLine(step, acc, c)
           o == acc.offsets
           n == Len(Taken(g).lines)
           K == Len(o)
<1> SUFFICES LinesNoted(step, more, new) OBVIOUS
<1>1. /\ acc = [count |-> n, off |-> Len(g), offsets |-> o]
      /\ o \in Seq(Nat) /\ K >= 1
      /\ \A k \in 1..K : Start(g, o[k]) /\ LinesTo(g, o[k]) = (k - 1) * step
      /\ \E r \in 0..(step - 1) : acc.count = (K - 1) * step + r
  BY DEF LinesNoted
<1>2. more \in Content /\ Len(more) = Len(g) + 1 /\ Len(g) \in Nat BY DEF Content
<1>3. n \in Nat /\ K \in Nat BY <1>1, TakenType, LenProperties DEF Page
<1> HIDE DEF more, new, o, n, K
<1>4. acc.count = n /\ acc.off = Len(g) /\ acc.offsets = o BY <1>1
<1>5. PICK r \in 0..(step - 1) : n = (K - 1) * step + r BY <1>1, <1>4
<1>6. \A k \in 1..K : Start(more, o[k]) /\ LinesTo(more, o[k]) = (k - 1) * step
  BY <1>1, StartStays DEF Start, more
<1>7. CASE c # NL
  <2>1. new = [count |-> n, off |-> Len(more), offsets |-> o] BY <1>1, <1>2, <1>4, <1>7 DEF NoteLine, new
  <2>2. Len(Taken(more).lines) = n BY <1>7, LineEnds DEF more, n
  <2> QED BY <1>1, <1>5, <1>6, <2>1, <2>2 DEF LinesNoted, K
<1>8. CASE c = NL
  <2>1. new = [count |-> n + 1, off |-> Len(more), offsets |-> IF (n + 1) % step = 0 THEN Append(o, Len(more)) ELSE o]
    BY <1>2, <1>4, <1>8 DEF NoteLine, new
  <2>2. /\ Len(Taken(more).lines) = n + 1 /\ Start(more, Len(more)) /\ LinesTo(more, Len(more)) = n + 1
    <3>1. Taken(more).lines = Append(Taken(g).lines, Taken(g).rest) BY <1>8, LineEnds DEF more
    <3>2. Taken(g).lines \in Seq(Content) /\ Taken(g).rest \in Content BY TakenType DEF Page
    <3> QED BY <1>2, <1>8, <3>1, <3>2, LineEnds DEF more, n
  <2>3. ((n + 1) % step = 0 <=> r + 1 = step) /\ (r + 1 = step => n + 1 = K * step)
    <3>1. K - 1 \in Nat /\ n + 1 = (K - 1) * step + r + 1 /\ (K - 1) + 1 = K BY <1>1, <1>3, <1>5
    <3>2. \A k \in Nat : \A m : m = k * step + r + 1 => (m % step = 0 <=> r + 1 = step) /\ (r + 1 = step => m = (k + 1) * step)
      BY StepCount
    <3> QED BY <3>1, <3>2
  <2>4. CASE r + 1 = step
    <3>1. new = [count |-> n + 1, off |-> Len(more), offsets |-> Append(o, Len(more))] BY <2>1, <2>3, <2>4
    <3>2. /\ Append(o, Len(more)) \in Seq(Nat) /\ Len(Append(o, Len(more))) = K + 1
          /\ \A k \in 1..K : Append(o, Len(more))[k] = o[k]
          /\ Append(o, Len(more))[K + 1] = Len(more)
      BY <1>1, <1>2 DEF K
    <3>3. \A k \in 1..(K + 1) : Start(more, Append(o, Len(more))[k]) /\ LinesTo(more, Append(o, Len(more))[k]) = (k - 1) * step
      <4> TAKE k \in 1..(K + 1)
      <4>1. CASE k \in 1..K BY <1>6, <3>2, <4>1
      <4>2. CASE k = K + 1 BY <1>3, <2>2, <2>3, <2>4, <3>2, <4>2
      <4>3. k \in 1..K \/ k = K + 1 BY <1>3
      <4> QED BY <4>1, <4>2, <4>3
    <3>4. 0 \in 0..(step - 1) /\ n + 1 = (K + 1 - 1) * step + 0 BY <1>3, <2>3, <2>4
    <3>5. new.count = n + 1 /\ new.offsets = Append(o, Len(more)) BY <3>1
    <3>6. K + 1 >= 1 BY <1>3
    <3>8. new = [count |-> Len(Taken(more).lines), off |-> Len(more), offsets |-> new.offsets] BY <2>2, <3>1
    <3>9. Len(new.offsets) = K + 1 /\ new.offsets \in Seq(Nat) BY <3>2, <3>5
    <3>10. \A k \in 1..(K + 1) : Start(more, new.offsets[k]) /\ LinesTo(more, new.offsets[k]) = (k - 1) * step
      BY <3>3, <3>5, Zenon
    <3>11. \A k \in 1..Len(new.offsets) : Start(more, new.offsets[k]) /\ LinesTo(more, new.offsets[k]) = (k - 1) * step
      BY <3>9, <3>10
    <3>12. new.count = (Len(new.offsets) - 1) * step + 0 /\ Len(new.offsets) >= 1
      <4>1. new.count = (K + 1 - 1) * step + 0 BY <3>4, <3>5, Zenon
      <4>2. Len(new.offsets) - 1 = K + 1 - 1 BY <1>3, <3>9
      <4>3. new.count = (Len(new.offsets) - 1) * step + 0 BY <4>1, <4>2, Zenon
      <4>4. Len(new.offsets) >= 1 BY <3>6, <3>9, Zenon
      <4> QED BY <4>3, <4>4, Zenon
    <3> QED BY <3>4, <3>8, <3>9, <3>11, <3>12 DEF LinesNoted
  <2>5. CASE r + 1 # step
    <3>1. new = [count |-> n + 1, off |-> Len(more), offsets |-> o] BY <2>1, <2>3, <2>5
    <3>2. r + 1 \in 0..(step - 1) /\ n + 1 = (K - 1) * step + (r + 1) BY <1>3, <1>5, <2>5
    <3> QED BY <1>1, <1>6, <2>2, <3>1, <3>2 DEF LinesNoted, K
  <2> QED BY <2>4, <2>5
<1> QED BY <1>7, <1>8

\* Entry k of the line index is the offset after (k - 1) * step lines.
LEMMA LineIndexIs ==
  ASSUME NEW step \in Nat \ {0}, NEW f \in Content
  PROVE  LET marks == BuildLineIndex(f, step) IN
         /\ marks \in Seq(Nat) /\ Len(marks) >= 1
         /\ \A k \in 1..Len(marks) : Start(f, marks[k]) /\ LinesTo(f, marks[k]) = (k - 1) * step
<1>1. LinesNoted(step, << >>, NoLine)
  <2>1. NoLine.offsets \in Seq(Nat) /\ Len(NoLine.offsets) = 1 /\ NoLine.offsets[1] = 0 BY DEF NoLine
  <2>2. << >> \in Content /\ Len(<< >>) = 0 BY DEF Content
  <2>3. Start(<< >>, 0) /\ LinesTo(<< >>, 0) = 0 BY <2>2, LinesToEnds DEF Start
  <2>4. Len(Taken(<< >>).lines) = 0 BY TakenEmpty DEF Empty
  <2>5. 0 \in 0..(step - 1) /\ 0 = (1 - 1) * step + 0 BY DEF NoLine
  <2>6. \A k \in 1..1 : k = 1 /\ (k - 1) * step = 0 OBVIOUS
  <2>7. NoLine.count = 0 BY DEF NoLine
  <2>8. NoLine = [count |-> 0, off |-> 0, offsets |-> NoLine.offsets] BY DEF NoLine
  <2>9. \E r \in 0..(step - 1) : NoLine.count = (Len(NoLine.offsets) - 1) * step + r BY <2>1, <2>5, <2>7
  <2>10. \A k \in 1..Len(NoLine.offsets) : Start(<< >>, NoLine.offsets[k]) /\ LinesTo(<< >>, NoLine.offsets[k]) = (k - 1) * step
    BY <2>1, <2>3, <2>6
  <2>11. NoLine = [count |-> Len(Taken(<< >>).lines), off |-> Len(<< >>), offsets |-> NoLine.offsets] BY <2>2, <2>4, <2>8
  <2>12. Len(NoLine.offsets) >= 1 BY <2>1
  <2> QED BY <2>1, <2>9, <2>10, <2>11, <2>12 DEF LinesNoted
<1>2. \A a \in Seq(Chars), c \in Chars : \A acc : LinesNoted(step, a, acc) => LinesNoted(step, Append(a, c), NotesLine(step, acc, c))
  BY NoteOne DEF NotesLine, Content
<1>3. LinesNoted(step, f, Noting!Fold(step, NoLine, f)) BY <1>1, <1>2, Noting!FoldKeeps DEF Content
<1> QED BY <1>3, LineIndexIsFold DEF LinesNoted

\* A window of the end of a sequence, and of the whole.
LEMMA WindowOf ==
  ASSUME NEW all \in Page, NEW rest \in Page, NEW p \in 0..Len(all), Len(rest) = Len(all) - p,
         \A i \in 1..(Len(all) - p) : rest[i] = all[p + i],
         NEW start \in Nat, start > p, NEW to \in Nat, to <= Len(all)
  PROVE  to - p \in Int /\ SubSeq(rest, start - p, to - p) = SubSeq(all, start, to)
<1>1. all \in Seq(Content) /\ rest \in Seq(Content) /\ Len(all) \in Nat /\ p \in Nat BY DEF Page
<1>2. \A i \in start..to : all[i] \in Content BY <1>1
<1>3. \A i \in (start - p)..(to - p) : rest[i] \in Content
  <2> TAKE i \in (start - p)..(to - p)
  <2>1. i \in 1..Len(rest) BY <1>1
  <2> QED BY <1>1, <2>1
<1> DEFINE l == SubSeq(rest, start - p, to - p)
           r == SubSeq(all, start, to)
<1>4. /\ r \in Seq(Content) /\ Len(r) = IF start <= to THEN to - start + 1 ELSE 0
      /\ \A i \in 1..(to - start + 1) : r[i] = all[start + i - 1]
  BY <1>2, SubSeqProperties
<1>5. /\ l \in Seq(Content) /\ Len(l) = IF start - p <= to - p THEN (to - p) - (start - p) + 1 ELSE 0
      /\ \A i \in 1..((to - p) - (start - p) + 1) : l[i] = rest[(start - p) + i - 1]
  BY <1>1, <1>3, SubSeqProperties
<1> HIDE DEF l, r
<1>6. (start <= to <=> start - p <= to - p) /\ (to - p) - (start - p) + 1 = to - start + 1 /\ to - p \in Int BY <1>1
<1>7. Len(l) = Len(r) BY <1>4, <1>5, <1>6
<1>8. ASSUME NEW i \in 1..Len(r) PROVE l[i] = r[i]
  <2>1. i \in 1..(to - start + 1) BY <1>4
  <2>2. (start - p) + i - 1 \in 1..(Len(all) - p) /\ p + ((start - p) + i - 1) = start + i - 1 BY <1>1, <2>1
  <2> QED BY <1>4, <1>5, <1>6, <2>1, <2>2
<1>9. l = r BY <1>4, <1>5, <1>7, <1>8, SeqEqual
<1> QED BY <1>6, <1>9 DEF l, r

\* A window read from the entry below it is that window of the file, and says whether more follows.
LEMMA WindowRead ==
  ASSUME NEW f \in Content, NEW step \in Nat \ {0}, NEW start \in Nat \ {0}, NEW limit \in Nat \ {0}
  PROVE  ReadFileLines(f, step, start, limit) =
           [lines |-> SubSeq(Lines(f), start, Least(Len(Lines(f)), start + limit - 1)),
            more |-> Len(Lines(f)) >= start + limit]
<1> DEFINE marks == BuildLineIndex(f, step)
           b == (start - 1) \div step
           k == IF b >= Len(marks) THEN Len(marks) - 1 ELSE b
           off == marks[k + 1]
           p == k * step
           all == Lines(f)
           rest == Lines(Section(f, off, Len(f)))
<1>1. /\ marks \in Seq(Nat) /\ Len(marks) >= 1
      /\ \A i \in 1..Len(marks) : Start(f, marks[i]) /\ LinesTo(f, marks[i]) = (i - 1) * step
  BY LineIndexIs
<1>2. b \in Nat /\ b * step <= start - 1
  <2>1. start - 1 \in Nat OBVIOUS
  <2> QED BY <2>1, DivBelow
<1>3. Bucket(marks, step, start) = [off |-> off, line |-> p] BY DEF Bucket
<1> HIDE DEF marks, b
<1>4. k \in Nat /\ k <= b /\ k + 1 \in 1..Len(marks) BY <1>1, <1>2
<1> HIDE DEF k
<1>5. p \in Nat /\ p <= start - 1 /\ p < start
  <2>1. p <= b * step /\ p \in Nat BY <1>2, <1>4, TimesMonotone
  <2>2. b * step \in Nat BY <1>2
  <2> HIDE DEF p
  <2> QED BY <1>2, <2>1, <2>2
<1>6. Start(f, off) /\ LinesTo(f, off) = p
  <2>1. (k + 1) - 1 = k BY <1>4
  <2> QED BY <1>1, <1>4, <2>1
<1> HIDE DEF off, p
<1>7. /\ p <= Len(all) /\ rest \in Page /\ Len(rest) = Len(all) - p
      /\ \A i \in 1..(Len(all) - p) : rest[i] = all[p + i]
  <2>1. Edge(f, off) /\ Edge(f, Len(f)) /\ off <= Len(f) BY <1>6 DEF Start, Edge, Content
  <2> QED BY <1>6, <2>1, LinesBetween, LinesToEnds
<1>8. all \in Page /\ Len(all) \in Nat BY LinesType DEF Content
<1> HIDE DEF all, rest
<1> DEFINE from == IF start > p THEN start - p ELSE 1
           to == from + limit - 1
           end == Least(Len(all), start + limit - 1)
           cut == IF to < Len(rest) THEN to ELSE Len(rest)
<1>9. ReadFileLines(f, step, start, limit) = [lines |-> SubSeq(rest, from, cut), more |-> to < Len(rest)]
  BY <1>3 DEF ReadFileLines, marks, rest
<1>10. /\ from = start - p /\ (to < Len(rest)) = (Len(all) >= start + limit)
       /\ cut = end - p /\ end \in Nat /\ end <= Len(all)
  <2>1. from = start - p BY <1>5
  <2> HIDE DEF from
  <2>2. to = start - p + limit - 1 BY <2>1
  <2> HIDE DEF to
  <2>3. to < Len(rest) <=> Len(all) >= start + limit BY <1>5, <1>7, <1>8, <2>2
  <2>4. CASE Len(all) >= start + limit
    <3>1. cut = to /\ end = start + limit - 1 BY <1>8, <2>3, <2>4 DEF Least
    <3> HIDE DEF cut, end
    <3>2. cut = end - p /\ end \in Nat /\ end <= Len(all) BY <1>5, <1>8, <2>2, <2>4, <3>1
    <3>3. (to < Len(rest)) = TRUE /\ (Len(all) >= start + limit) = TRUE BY <2>3, <2>4
    <3> QED BY <2>1, <3>2, <3>3
  <2>5. CASE ~(Len(all) >= start + limit)
    <3>1. cut = Len(rest) /\ end = Len(all) BY <1>8, <2>3, <2>5 DEF Least
    <3> HIDE DEF cut, end
    <3>2. cut = end - p /\ end \in Nat /\ end <= Len(all) BY <1>5, <1>7, <1>8, <3>1
    <3>3. (to < Len(rest)) = FALSE /\ (Len(all) >= start + limit) = FALSE BY <2>3, <2>5
    <3> QED BY <2>1, <3>2, <3>3
  <2> QED BY <2>4, <2>5
<1> HIDE DEF from, to, end, cut
<1>11. SubSeq(rest, start - p, end - p) = SubSeq(all, start, end)
  <2>1. p \in 0..Len(all) BY <1>5, <1>7, <1>8
  <2> QED BY <1>5, <1>7, <1>8, <1>10, <2>1, WindowOf
<1> QED BY <1>9, <1>10, <1>11, Zenon DEF end, all

\* A remainder of less than twice the divisor.
LEMMA ModSmall ==
  ASSUME NEW c \in Nat, c # 0
  PROVE  \A x \in 0..(2 * c - 1) : x % c = IF x < c THEN x ELSE x - c
OBVIOUS

\* A part of a page does not change when a line is put after the page.
LEMMA SubSeqStays ==
  ASSUME NEW s \in Page, NEW x \in Content, NEW a \in Nat \ {0}, NEW b \in Int, b <= Len(s)
  PROVE  SubSeq(s, a, b) \in Page /\ SubSeq(Append(s, x), a, b) = SubSeq(s, a, b)
<1> DEFINE t == Append(s, x)
<1>1. s \in Seq(Content) /\ t \in Seq(Content) /\ Len(s) \in Nat /\ Len(t) = Len(s) + 1 /\ \A i \in 1..Len(s) : t[i] = s[i]
  BY DEF Page
<1> HIDE DEF t
<1>2. \A i \in a..b : t[i] \in Content /\ s[i] \in Content /\ t[i] = s[i] BY <1>1
<1>3. /\ SubSeq(s, a, b) \in Seq(Content) /\ Len(SubSeq(s, a, b)) = IF a <= b THEN b - a + 1 ELSE 0
      /\ \A i \in 1..(b - a + 1) : SubSeq(s, a, b)[i] = s[a + i - 1]
  BY <1>2, SubSeqProperties
<1>4. /\ SubSeq(t, a, b) \in Seq(Content) /\ Len(SubSeq(t, a, b)) = IF a <= b THEN b - a + 1 ELSE 0
      /\ \A i \in 1..(b - a + 1) : SubSeq(t, a, b)[i] = t[a + i - 1]
  BY <1>2, SubSeqProperties
<1>5. ASSUME NEW i \in 1..Len(SubSeq(s, a, b)) PROVE SubSeq(t, a, b)[i] = SubSeq(s, a, b)[i]
  <2>1. i \in 1..(b - a + 1) BY <1>3
  <2>2. a + i - 1 \in a..b BY <1>1, <2>1
  <2> QED BY <1>2, <1>3, <1>4, <2>1, <2>2
<1>6. SubSeq(t, a, b) = SubSeq(s, a, b) BY <1>3, <1>4, <1>5, SeqEqual
<1> QED BY <1>3, <1>6 DEF t, Page

\* A part up to the end of a page grows with it.
LEMMA SubSeqGrows ==
  ASSUME NEW s \in Page, NEW x \in Content, NEW a \in Nat \ {0}, a <= Len(s) + 1
  PROVE  SubSeq(Append(s, x), a, Len(s) + 1) = Append(SubSeq(s, a, Len(s)), x)
<1> DEFINE t == Append(s, x)
           n == Len(s)
           l == SubSeq(t, a, n + 1)
           u == SubSeq(s, a, n)
           r == Append(u, x)
<1>1. s \in Seq(Content) /\ t \in Seq(Content) /\ n \in Nat /\ Len(t) = n + 1 /\ (\A i \in 1..n : t[i] = s[i]) /\ t[n + 1] = x
  BY DEF Page
<1> HIDE DEF t, n
<1>2. \A i \in a..(n + 1) : t[i] \in Content BY <1>1
<1>3. \A i \in a..n : s[i] \in Content BY <1>1 DEF n
<1>4. /\ u \in Seq(Content) /\ Len(u) = IF a <= n THEN n - a + 1 ELSE 0
      /\ \A i \in 1..(n - a + 1) : u[i] = s[a + i - 1]
  BY <1>1, <1>3, SubSeqProperties
<1>5. /\ l \in Seq(Content) /\ Len(l) = IF a <= n + 1 THEN n + 1 - a + 1 ELSE 0
      /\ \A i \in 1..(n + 1 - a + 1) : l[i] = t[a + i - 1]
  BY <1>1, <1>2, SubSeqProperties
<1> HIDE DEF u, l
<1>6. r \in Seq(Content) /\ Len(r) = Len(u) + 1 /\ (\A i \in 1..Len(u) : r[i] = u[i]) /\ r[Len(u) + 1] = x BY <1>4
<1> HIDE DEF r
<1>7. a <= n + 1 BY DEF n
<1>8. Len(u) = n - a + 1 /\ Len(l) = n - a + 2 BY SMTT(40), <1>1, <1>4, <1>5, <1>7
<1>9. ASSUME NEW i \in 1..Len(l) PROVE l[i] = r[i]
  <2>1. CASE i = n - a + 2
    <3>1. a + i - 1 = n + 1 /\ i = Len(u) + 1 /\ i \in 1..(n + 1 - a + 1) BY SMTT(40), <1>1, <1>8, <2>1
    <3> QED BY <1>1, <1>5, <1>6, <3>1
  <2>2. CASE i # n - a + 2
    <3>1. n \in Nat /\ a \in Nat \ {0} /\ a <= n + 1 BY <1>1, <1>7
    <3>2. i \in Nat /\ 1 <= i /\ i <= n - a + 1 BY <1>8, <2>2, <3>1
    <3>3. i \in 1..(n - a + 1) /\ i \in 1..Len(u) /\ i \in 1..(n + 1 - a + 1) /\ a + i - 1 \in 1..n BY <1>8, <3>1, <3>2
    <3> QED BY <1>1, <1>4, <1>5, <1>6, <3>3
  <2> QED BY <2>1, <2>2
<1>10. l \in Seq(Content) /\ r \in Seq(Content) /\ Len(l) = Len(r) BY SMTT(40), <1>1, <1>5, <1>6, <1>8
<1>11. l = r BY <1>9, <1>10, SeqEqual
<1> QED BY <1>11 DEF l, r, n, t, u

(* The lines before a hit *)

RingOf(r, cap, s) ==
  /\ r = [slots |-> r.slots, head |-> r.head, count |-> r.count]
  /\ r.slots \in [0..(cap - 1) -> Content]
  /\ r.count = Least(Len(s), cap)
  /\ r.head \in Nat /\ (r.head < cap \/ r.head = 0) /\ (Len(s) < cap => r.head = 0)
  /\ \A i \in 1..r.count : r.slots[(r.head + i - 1) % cap] = s[Len(s) - r.count + i]

\* A new ring has the last lines of no lines.
LEMMA RingNew == ASSUME NEW cap \in Nat PROVE RingOf(NewRing(cap), cap, << >>)
<1>1. << >> \in Content BY DEF Content
<1>2. Least(Len(<< >>), cap) = 0 BY DEF Least
<1> QED BY <1>1, <1>2 DEF RingOf, NewRing

\* With a line pushed, a ring has the last lines of the lines with that one.
LEMMA RingPush ==
  ASSUME NEW cap \in Nat, NEW s \in Page, NEW r, RingOf(r, cap, s), NEW x \in Content
  PROVE  RingOf(Push(r, cap, x), cap, Append(s, x))
<1> DEFINE t == Append(s, x)
           n == Len(s)
           new == Push(r, cap, x)
<1> SUFFICES RingOf(new, cap, t) OBVIOUS
<1>1. n \in Nat /\ Len(t) = n + 1 /\ (\A i \in 1..n : t[i] = s[i]) /\ t[n + 1] = x BY DEF Page
<1>2. /\ r = [slots |-> r.slots, head |-> r.head, count |-> r.count]
      /\ r.slots \in [0..(cap - 1) -> Content]
      /\ r.count = IF n < cap THEN n ELSE cap
      /\ r.head \in Nat /\ (r.head < cap \/ r.head = 0) /\ (n < cap => r.head = 0)
      /\ \A i \in 1..r.count : r.slots[(r.head + i - 1) % cap] = s[n - r.count + i]
  BY DEF RingOf, Least
<1> DEFINE h == r.head
           sl == r.slots
<1> HIDE DEF t, n, new, h, sl
<1>3. CASE cap = 0
  <2>1. new = r BY <1>3 DEF Push, new
  <2>2. r.count = 0 /\ h = 0 /\ (n + 1 < cap => FALSE) BY <1>1, <1>2, <1>3 DEF h
  <2>3. Least(n + 1, cap) = 0 BY <1>1, <1>3 DEF Least
  <2> QED BY <1>1, <1>2, <1>3, <2>1, <2>2, <2>3 DEF RingOf, h
<1>4. CASE cap # 0 /\ n < cap
  <2>1. r.count = n /\ h = 0 BY <1>2, <1>4 DEF h
  <2>2. (h + n) % cap = n /\ \A i \in 1..(n + 1) : (h + i - 1) % cap = i - 1
    <3>1. \A i \in 0..n : i % cap = i
      <4>1. \A i \in 0..n : i \in 0..(2 * cap - 1) /\ i < cap BY <1>1, <1>4
      <4> QED BY <1>4, <4>1, ModSmall
    <3>2. h + n = n /\ n \in 0..n /\ \A i \in 1..(n + 1) : h + i - 1 = i - 1 /\ i - 1 \in 0..n BY <1>1, <2>1
    <3> QED BY <3>1, <3>2
  <2>3. new = [slots |-> [sl EXCEPT ![n] = x], head |-> h, count |-> n + 1]
    <3>1. r.count < cap BY <1>4, <2>1
    <3>2. new = [r EXCEPT !.slots[(h + n) % cap] = x, !.count = n + 1] BY <1>4, <2>1, <3>1 DEF Push, new, h
    <3> QED BY <1>2, <2>2, <3>2 DEF h, sl
  <2>4. [sl EXCEPT ![n] = x] \in [0..(cap - 1) -> Content] BY <1>2 DEF sl
  <2>5. Least(n + 1, cap) = n + 1
    <3>1. n + 1 < cap \/ cap = n + 1 BY <1>1, <1>4
    <3> QED BY <3>1 DEF Least
  <2>6. ASSUME NEW i \in 1..(n + 1) PROVE [sl EXCEPT ![n] = x][(h + i - 1) % cap] = t[n + 1 - (n + 1) + i]
    <3>1. n + 1 - (n + 1) + i = i /\ i - 1 \in 0..(cap - 1) BY <1>1, <1>4
    <3>2. CASE i = n + 1
      <4>1. i - 1 = n /\ n \in DOMAIN sl BY <1>1, <1>2, <1>4, <3>2 DEF sl
      <4> QED BY <1>1, <2>2, <3>1, <3>2, <4>1
    <3>3. CASE i # n + 1
      <4>1. i \in 1..n /\ i - 1 # n /\ n - n + i = i BY <1>1, <3>3
      <4>2. sl[i - 1] = s[i] BY <1>2, <2>1, <2>2, <4>1 DEF sl, h
      <4> QED BY <1>1, <1>2, <2>2, <3>1, <4>1, <4>2 DEF sl
    <3> QED BY <3>2, <3>3
  <2>7. new.slots = [sl EXCEPT ![n] = x] /\ new.head = h /\ new.count = n + 1 BY <2>3
  <2>8. \A i \in 1..new.count : new.slots[(new.head + i - 1) % cap] = t[n + 1 - new.count + i] BY <2>6, <2>7
  <2>13. \A i \in 1..new.count : new.slots[(new.head + i - 1) % cap] = t[Len(t) - new.count + i]
    <3> TAKE i \in 1..new.count
    <3>1. Len(t) - new.count + i = n + 1 - new.count + i BY <1>1, <2>7
    <3> QED BY <2>8, <3>1
  <2>9. new.head \in Nat /\ (new.head < cap \/ new.head = 0) /\ (Len(t) < cap => new.head = 0) BY <2>1, <2>7
  <2>10. new.count = Least(Len(t), cap) BY <1>1, <2>5, <2>7
  <2>11. new = [slots |-> new.slots, head |-> new.head, count |-> new.count] BY <2>3
  <2>12. new.slots \in [0..(cap - 1) -> Content] BY <2>4, <2>7
  <2> QED BY <2>9, <2>10, <2>11, <2>12, <2>13 DEF RingOf
<1>5. CASE cap # 0 /\ n >= cap
  <2>1. r.count = cap /\ h \in 0..(cap - 1) /\ h \in Nat BY <1>1, <1>2, <1>5 DEF h
  <2>2. new = [slots |-> [sl EXCEPT ![h] = x], head |-> (h + 1) % cap, count |-> cap]
    <3>1. ~(r.count < cap) BY <1>5, <2>1
    <3>2. new = [r EXCEPT !.slots[h] = x, !.head = (h + 1) % cap] BY <1>5, <3>1 DEF Push, new, h
    <3> QED BY <1>2, <2>1, <3>2 DEF h, sl
  <2>3. [sl EXCEPT ![h] = x] \in [0..(cap - 1) -> Content] BY <1>2 DEF sl
  <2>4. Least(n + 1, cap) = cap BY <1>1, <1>5 DEF Least
  <2> DEFINE g == (h + 1) % cap
  <2>5. g = (IF h + 1 = cap THEN 0 ELSE h + 1) /\ g \in Nat /\ g < cap
    <3>1. h + 1 \in 0..(2 * cap - 1) BY <1>5, <2>1
    <3> QED BY <1>5, <2>1, <3>1, ModSmall
  <2> HIDE DEF g
  <2>14. \A y \in 0..(2 * cap - 1) : y % cap = IF y < cap THEN y ELSE y - cap BY <1>5, ModSmall
  <2>6. ASSUME NEW i \in 1..cap PROVE [sl EXCEPT ![h] = x][(g + i - 1) % cap] = t[n + 1 - cap + i]
    <3>1. g + i - 1 \in 0..(2 * cap - 1) BY <2>5
    <3>2. (g + i - 1) % cap = IF g + i - 1 < cap THEN g + i - 1 ELSE g + i - 1 - cap
      <4>1. PICK y \in 0..(2 * cap - 1) : y = g + i - 1 BY <3>1
      <4>2. y % cap = IF y < cap THEN y ELSE y - cap BY <2>14
      <4> QED BY <2>5, <4>1, <4>2
    <3>3. CASE i = cap
      <4>1. (g + i - 1) % cap = h BY <2>1, <2>5, <3>2, <3>3
      <4>2. n + 1 - cap + i = n + 1 /\ h \in DOMAIN sl BY <1>1, <1>2, <2>1, <3>3 DEF sl
      <4> QED BY <1>1, <4>1, <4>2
    <3>4. CASE i # cap
      <4>1. h + i \in 0..(2 * cap - 1) BY <1>5, <2>1, <3>4
      <4>2. (h + i) % cap = IF h + i < cap THEN h + i ELSE h + i - cap
        <5>1. PICK y \in 0..(2 * cap - 1) : y = h + i BY <4>1
        <5>2. y % cap = IF y < cap THEN y ELSE y - cap BY <2>14
        <5> QED BY <2>1, <5>1, <5>2
      <4>3. (g + i - 1) % cap = (h + i) % cap /\ (h + i) % cap # h BY <1>5, <2>1, <2>5, <3>2, <3>4, <4>2
      <4>4. i + 1 \in 1..cap /\ h + (i + 1) - 1 = h + i /\ n - cap + (i + 1) = n + 1 - cap + i /\ n + 1 - cap + i \in 1..n
        <5>1. i + 1 \in 1..cap BY <1>5, <2>1, <3>4
        <5>2. h + (i + 1) - 1 = h + i BY <1>5, <2>1
        <5>3. n - cap + (i + 1) = n + 1 - cap + i BY <1>1, <2>1
        <5>4. n + 1 - cap + i \in 1..n BY <1>1, <1>5, <2>1, <3>4
        <5> QED BY <5>1, <5>2, <5>3, <5>4
      <4>5. sl[(h + i) % cap] = s[n + 1 - cap + i]
        <5>1. \A j \in 1..cap : sl[(h + j - 1) % cap] = s[n - cap + j] BY <1>2, <2>1 DEF sl, h
        <5>2. sl[(h + (i + 1) - 1) % cap] = s[n - cap + (i + 1)] BY <4>4, <5>1
        <5> QED BY <4>4, <5>2
      <4>6. [sl EXCEPT ![h] = x][(h + i) % cap] = sl[(h + i) % cap] BY <1>2, <2>1, <4>1, <4>2, <4>3 DEF sl
      <4> QED BY <1>1, <4>3, <4>4, <4>5, <4>6
    <3> QED BY <3>3, <3>4
  <2>7. new.slots = [sl EXCEPT ![h] = x] /\ new.head = g /\ new.count = cap BY <2>2 DEF g
  <2>8. \A i \in 1..new.count : new.slots[(new.head + i - 1) % cap] = t[n + 1 - new.count + i] BY <2>6, <2>7
  <2>13. \A i \in 1..new.count : new.slots[(new.head + i - 1) % cap] = t[Len(t) - new.count + i]
    <3> TAKE i \in 1..new.count
    <3>1. Len(t) - new.count + i = n + 1 - new.count + i BY <1>1, <2>7
    <3> QED BY <2>8, <3>1
  <2>9. new.head \in Nat /\ (new.head < cap \/ new.head = 0) /\ (Len(t) < cap => new.head = 0) BY <1>1, <1>5, <2>5, <2>7
  <2>10. new.count = Least(Len(t), cap) BY <1>1, <2>4, <2>7
  <2>11. new = [slots |-> new.slots, head |-> new.head, count |-> new.count] BY <2>2
  <2>12. new.slots \in [0..(cap - 1) -> Content] BY <2>3, <2>7
  <2> QED BY <2>9, <2>10, <2>11, <2>12, <2>13 DEF RingOf
<1> QED BY <1>1, <1>3, <1>4, <1>5

\* The lines right before the k-th.
LinesBefore(s, k, context) == SubSeq(s, IF k > context THEN k - context ELSE 1, k - 1)

\* What a ring gives are the lines before the next one.
LEMMA RingRead ==
  ASSUME NEW cap \in Nat, NEW s \in Page, NEW r, RingOf(r, cap, s)
  PROVE  RingLines(r, cap) = LinesBefore(s, Len(s) + 1, cap) /\ RingLines(r, cap) \in Page
<1> DEFINE n == Len(s)
           k == Least(n, cap)
           a == IF n + 1 > cap THEN n + 1 - cap ELSE 1
           l == RingLines(r, cap)
           u == SubSeq(s, a, n)
<1>1. n \in Nat /\ s \in Seq(Content) /\ \A i \in 1..n : s[i] \in Content BY DEF Page
<1> HIDE DEF n
<1>2. k \in Nat /\ k <= n /\ a = n - k + 1
  <2>1. CASE n < cap BY <1>1, <2>1 DEF Least
  <2>2. CASE ~(n < cap) BY <1>1, <2>2 DEF Least
  <2> QED BY <2>1, <2>2
<1>3. r.count = k /\ \A i \in 1..k : r.slots[(r.head + i - 1) % cap] = s[n - k + i] BY DEF RingOf, n
<1> HIDE DEF k, a
<1>4. l = [i \in 1..k |-> s[n - k + i]] BY <1>3 DEF RingLines
<1>5. \A i \in 1..k : n - k + i \in 1..n /\ s[n - k + i] \in Content BY <1>1, <1>2
<1> HIDE DEF l
<1>6. l \in Seq(Content) /\ Len(l) = k /\ \A i \in 1..k : l[i] = s[n - k + i] BY <1>2, <1>4, <1>5
<1>7. /\ u \in Seq(Content) /\ Len(u) = IF a <= n THEN n - a + 1 ELSE 0
      /\ \A i \in 1..(n - a + 1) : u[i] = s[a + i - 1]
  <2>1. \A i \in a..n : s[i] \in Content BY <1>1, <1>2
  <2>2. a \in Int /\ n \in Int BY <1>1, <1>2
  <2> QED BY <2>1, <2>2, SubSeqProperties
<1> HIDE DEF u
<1>8. Len(u) = k /\ n - a + 1 = k BY <1>1, <1>2, <1>7
<1>9. \A i \in 1..k : a + i - 1 = n - k + i BY <1>1, <1>2
<1>10. \A i \in 1..Len(l) : l[i] = u[i] BY <1>6, <1>7, <1>8, <1>9
<1>11. l = u BY <1>6, <1>7, <1>8, <1>10, SeqEqual
<1>12. n + 1 - 1 = n BY <1>1
<1> QED BY <1>6, <1>11, <1>12 DEF l, u, a, n, LinesBefore, Page

(* The hits *)

Query == [kw : Seq(Chars), whole : BOOLEAN, context : Nat, max : Nat \ {0}]
HitRec == [line : Nat \ {0}, before : Page, after : Page]

\* What is known of each hit when lines up to seen have been looked at.
Found(q, s, seen, h) == h.line \in 1..seen /\ Matches(s[h.line], q) /\ h.before = LinesBefore(s, h.line, q.context)
Rising(hits) == \A i, j \in 1..Len(hits) : i < j => hits[i].line < hits[j].line
Complete(q, s, seen, n, h) == Found(q, s, seen, h) /\ h.line + q.context <= n /\ h.after = SubSeq(s, h.line + 1, h.line + q.context)
Waiting(q, s, seen, n, h) == Found(q, s, seen, h) /\ n < h.line + q.context /\ h.after = SubSeq(s, h.line + 1, n)

\* The hits are those of the first seen lines, and n lines have been read.
Collected(q, s, seen, n, hits, pending) ==
  /\ hits \in Seq(HitRec) /\ pending \in Seq(HitRec) /\ Rising(hits) /\ Rising(pending)
  /\ \A i \in 1..Len(hits) : Complete(q, s, seen, n, hits[i])
  /\ \A i \in 1..Len(pending) : Waiting(q, s, seen, n, pending[i])
  /\ \A k \in 1..seen : Matches(s[k], q) =>
        (\E i \in 1..Len(hits) : hits[i].line = k) \/ (\E i \in 1..Len(pending) : pending[i].line = k)

\* The lines before a line stay when the file goes on.
LEMMA LinesBeforeStay ==
  ASSUME NEW s \in Page, NEW x \in Content, NEW k \in Nat \ {0}, k <= Len(s) + 1, NEW context \in Nat
  PROVE  LinesBefore(Append(s, x), k, context) = LinesBefore(s, k, context)
<1> DEFINE a == IF k > context THEN k - context ELSE 1
<1>1. a \in Nat \ {0} /\ k - 1 \in Int /\ k - 1 <= Len(s) BY DEF Page
<1> HIDE DEF a
<1>2. SubSeq(Append(s, x), a, k - 1) = SubSeq(s, a, k - 1) BY <1>1, SubSeqStays
<1> QED BY <1>2 DEF LinesBefore, a

\* What is known of a hit stays when a line is read.
LEMMA FoundStays ==
  ASSUME NEW q \in Query, NEW s \in Page, NEW x \in Content, NEW seen \in Nat, seen <= Len(s),
         NEW h \in HitRec, Found(q, s, seen, h)
  PROVE  Found(q, Append(s, x), seen, h)
<1>1. h.line \in 1..seen /\ Matches(s[h.line], q) /\ h.before = LinesBefore(s, h.line, q.context) BY DEF Found
<1>2. Append(s, x)[h.line] = s[h.line] BY <1>1 DEF Page
<1>3. q.context \in Nat /\ h.line \in Nat \ {0} /\ Len(s) \in Nat BY DEF Query, HitRec, Page
<1>4. h.line <= Len(s) + 1 BY <1>1, <1>3
<1>5. LinesBefore(Append(s, x), h.line, q.context) = LinesBefore(s, h.line, q.context) BY <1>3, <1>4, LinesBeforeStay
<1> QED BY <1>1, <1>2, <1>5 DEF Found

\* A complete hit stays complete when a line is read.
LEMMA CompleteStays ==
  ASSUME NEW q \in Query, NEW s \in Page, NEW x \in Content, NEW seen \in Nat, seen <= Len(s), NEW n \in Nat, n <= Len(s),
         NEW h \in HitRec, Complete(q, s, seen, n, h)
  PROVE  Complete(q, Append(s, x), seen, n, h)
<1>1. q.context \in Nat /\ h.line \in Nat \ {0} /\ Len(s) \in Nat BY DEF Query, HitRec, Page
<1>2. Found(q, Append(s, x), seen, h) BY FoundStays DEF Complete
<1>3. h.line + q.context <= n BY DEF Complete
<1>4. h.line + 1 \in Nat \ {0} /\ h.line + q.context \in Int /\ h.line + q.context <= Len(s) BY <1>1, <1>3
<1>5. SubSeq(Append(s, x), h.line + 1, h.line + q.context) = SubSeq(s, h.line + 1, h.line + q.context) BY <1>4, SubSeqStays
<1> QED BY <1>2, <1>5 DEF Complete

\* A hit that has got its lines so far has got those of the longer page.
LEMMA WaitingStays ==
  ASSUME NEW q \in Query, NEW s \in Page, NEW x \in Content, NEW seen \in Nat, seen <= Len(s), NEW n \in Nat, n <= Len(s),
         NEW h \in HitRec, Waiting(q, s, seen, n, h)
  PROVE  Waiting(q, Append(s, x), seen, n, h)
<1>2. Found(q, Append(s, x), seen, h) BY FoundStays DEF Waiting
<1>4. h.line + 1 \in Nat \ {0} /\ n \in Int BY DEF HitRec
<1>5. SubSeq(Append(s, x), h.line + 1, n) = SubSeq(s, h.line + 1, n) BY <1>4, SubSeqStays
<1> QED BY <1>2, <1>5 DEF Waiting

\* The hits collected of a page are those of the longer page up to the same line.
LEMMA CollectedStays ==
  ASSUME NEW q \in Query, NEW s \in Page, NEW x \in Content, NEW seen \in Nat, seen <= Len(s), NEW n \in Nat, n <= Len(s),
         NEW hits, NEW pending, Collected(q, s, seen, n, hits, pending)
  PROVE  Collected(q, Append(s, x), seen, n, hits, pending)
<1>1. hits \in Seq(HitRec) /\ pending \in Seq(HitRec) /\ Rising(hits) /\ Rising(pending) BY DEF Collected
<1>2. ASSUME NEW i \in 1..Len(hits) PROVE Complete(q, Append(s, x), seen, n, hits[i])
  <2>1. hits[i] \in HitRec /\ Complete(q, s, seen, n, hits[i]) BY <1>1 DEF Collected
  <2> QED BY <2>1, CompleteStays
<1>3. ASSUME NEW i \in 1..Len(pending) PROVE Waiting(q, Append(s, x), seen, n, pending[i])
  <2>1. pending[i] \in HitRec /\ Waiting(q, s, seen, n, pending[i]) BY <1>1 DEF Collected
  <2> QED BY <2>1, WaitingStays
<1>4. \A k \in 1..seen : Append(s, x)[k] = s[k] BY DEF Page
<1>5. \A k \in 1..seen : Matches(Append(s, x)[k], q) =>
        (\E i \in 1..Len(hits) : hits[i].line = k) \/ (\E i \in 1..Len(pending) : pending[i].line = k)
  BY <1>4 DEF Collected
<1> QED BY <1>1, <1>2, <1>3, <1>5 DEF Collected

\* A hit that got the line.
Given(h, x) == [h EXCEPT !.after = Append(@, x)]

\* All hits of s waited for their n-th line.
Waits(s, n, context) ==
  /\ s \in Seq(HitRec) /\ Rising(s)
  /\ \A i \in 1..Len(s) : s[i].line <= n /\ n < s[i].line + context /\ Len(s[i].after) = n - s[i].line

\* What became of the hits s: the first may be full and out, the others wait on.
FeedsHit(env, acc, h) == Feeds(env.x, env.context, acc, h)
FedHits(env, s, acc) ==
  Waits(s, env.n, env.context) =>
    /\ acc = [hits |-> acc.hits, pending |-> acc.pending]
    /\ acc.hits \in Seq(HitRec) /\ acc.pending \in Seq(HitRec)
    /\ \A i \in 1..Len(env.hits) : acc.hits[i] = env.hits[i]
    /\ \E k \in 0..1 :
         /\ k <= Len(s) /\ Len(acc.hits) = Len(env.hits) + k /\ Len(acc.pending) = Len(s) - k
         /\ k = 1 => acc.hits[Len(env.hits) + 1] = Given(s[1], env.x) /\ s[1].line + env.context = env.n + 1
         /\ k = 0 /\ Len(s) > 0 => s[1].line + env.context > env.n + 1
         /\ \A i \in 1..(Len(s) - k) : acc.pending[i] = Given(s[k + i], env.x)

Feeding == INSTANCE Folding WITH op <- FeedsHit, Inv <- FedHits

\* The waiting hits get a line by a fold.
LEMMA FedIsFold ==
  ASSUME NEW acc, NEW x, NEW context, NEW n
  PROVE  Fed(acc, x, context) =
           Feeding!Fold([x |-> x, context |-> context, hits |-> acc.hits, n |-> n],
                        [hits |-> acc.hits, pending |-> << >>], acc.pending)
BY DEF Fed, Feeding!Fold, Feeding!Folds, Feeding!Top, FeedsHit, FoldLeft, MapThenFoldSet, Max

Fodder == [x : Content, context : Nat, hits : Seq(HitRec), n : Nat]

\* A hit that is given a line is a hit.
LEMMA GivenType ==
  ASSUME NEW h \in HitRec, NEW x \in Content
  PROVE  /\ Given(h, x) \in HitRec /\ Given(h, x).line = h.line /\ Given(h, x).before = h.before
         /\ Given(h, x).after = Append(h.after, x) /\ Len(Given(h, x).after) = Len(h.after) + 1
<1>1. h.after \in Seq(Content) /\ Append(h.after, x) \in Seq(Content) /\ Len(Append(h.after, x)) = Len(h.after) + 1
  BY DEF HitRec, Page
<1>2. Given(h, x) = [line |-> h.line, before |-> h.before, after |-> Append(h.after, x)] BY SMTT(40) DEF Given, HitRec
<1> QED BY <1>1, <1>2 DEF HitRec, Page

\* All but the last of the waiting hits are waiting hits in order.
LEMMA WaitsPrefix ==
  ASSUME NEW s \in Seq(HitRec), NEW h \in HitRec, NEW n \in Nat, NEW context \in Nat, Waits(Append(s, h), n, context)
  PROVE  /\ Waits(s, n, context)
         /\ h.line <= n /\ n < h.line + context /\ Len(h.after) = n - h.line
         /\ Len(s) > 0 => s[1].line < h.line
<1> DEFINE t == Append(s, h)
<1>1. Len(s) \in Nat /\ Len(t) = Len(s) + 1 /\ (\A i \in 1..Len(s) : t[i] = s[i]) /\ t[Len(s) + 1] = h OBVIOUS
<1>2. Rising(t) /\ \A i \in 1..Len(t) : t[i].line <= n /\ n < t[i].line + context /\ Len(t[i].after) = n - t[i].line
  BY DEF Waits
<1> HIDE DEF t
<1>3. Rising(s)
  <2> SUFFICES ASSUME NEW i \in 1..Len(s), NEW j \in 1..Len(s), i < j PROVE s[i].line < s[j].line BY DEF Rising
  <2>1. i \in 1..Len(t) /\ j \in 1..Len(t) BY <1>1
  <2>2. t[i].line < t[j].line BY <1>2, <2>1 DEF Rising
  <2> QED BY <1>1, <2>2
<1>4. \A i \in 1..Len(s) : s[i].line <= n /\ n < s[i].line + context /\ Len(s[i].after) = n - s[i].line
  <2> TAKE i \in 1..Len(s)
  <2>1. i \in 1..Len(t) /\ t[i] = s[i] BY <1>1
  <2> QED BY <1>2, <2>1
<1>5. h.line <= n /\ n < h.line + context /\ Len(h.after) = n - h.line
  <2>1. Len(s) + 1 \in 1..Len(t) BY <1>1
  <2> QED BY <1>1, <1>2, <2>1
<1>6. Len(s) > 0 => s[1].line < h.line
  <2> HAVE Len(s) > 0
  <2>1. 1 \in 1..Len(t) /\ Len(s) + 1 \in 1..Len(t) /\ 1 < Len(s) + 1 /\ t[1] = s[1] BY <1>1
  <2>2. t[1].line < t[Len(s) + 1].line BY <1>2, <2>1 DEF Rising
  <2> QED BY <1>1, <2>1, <2>2
<1> QED BY <1>3, <1>4, <1>5, <1>6 DEF Waits

\* What is claimed of the waiting hits that got a line stands with one hit more.
LEMMA FeedOne ==
  ASSUME NEW env \in Fodder, NEW s \in Seq(HitRec), NEW h \in HitRec, NEW acc, FedHits(env, s, acc)
  PROVE  FedHits(env, Append(s, h), FeedsHit(env, acc, h))
<1> DEFINE x == env.x
           c == env.context
           n == env.n
           H == env.hits
           t == Append(s, h)
           new == FeedsHit(env, acc, h)
           g == Given(h, x)
<1> SUFFICES ASSUME Waits(t, n, c)
             PROVE  /\ new = [hits |-> new.hits, pending |-> new.pending]
                    /\ new.hits \in Seq(HitRec) /\ new.pending \in Seq(HitRec)
                    /\ \A i \in 1..Len(H) : new.hits[i] = H[i]
                    /\ \E k \in 0..1 :
                         /\ k <= Len(t) /\ Len(new.hits) = Len(H) + k /\ Len(new.pending) = Len(t) - k
                         /\ k = 1 => new.hits[Len(H) + 1] = Given(t[1], x) /\ t[1].line + c = n + 1
                         /\ k = 0 /\ Len(t) > 0 => t[1].line + c > n + 1
                         /\ \A i \in 1..(Len(t) - k) : new.pending[i] = Given(t[k + i], x)
  BY DEF FedHits
<1>1. x \in Content /\ c \in Nat /\ n \in Nat /\ H \in Seq(HitRec) BY DEF Fodder
<1>2. /\ Waits(s, n, c) /\ h.line <= n /\ n < h.line + c /\ Len(h.after) = n - h.line
      /\ Len(s) > 0 => s[1].line < h.line
  BY <1>1, WaitsPrefix
<1>3. /\ acc = [hits |-> acc.hits, pending |-> acc.pending]
      /\ acc.hits \in Seq(HitRec) /\ acc.pending \in Seq(HitRec)
      /\ \A i \in 1..Len(H) : acc.hits[i] = H[i]
  BY <1>2 DEF FedHits
<1>4. PICK k \in 0..1 :
         /\ k <= Len(s) /\ Len(acc.hits) = Len(H) + k /\ Len(acc.pending) = Len(s) - k
         /\ k = 1 => acc.hits[Len(H) + 1] = Given(s[1], x) /\ s[1].line + c = n + 1
         /\ k = 0 /\ Len(s) > 0 => s[1].line + c > n + 1
         /\ \A i \in 1..(Len(s) - k) : acc.pending[i] = Given(s[k + i], x)
  BY <1>2 DEF FedHits
<1>5. Len(s) \in Nat /\ Len(t) = Len(s) + 1 /\ (\A i \in 1..Len(s) : t[i] = s[i]) /\ t[Len(s) + 1] = h /\ Len(H) \in Nat
  BY <1>1
<1>6. g \in HitRec /\ Len(g.after) = n - h.line + 1 BY <1>1, <1>2, GivenType
<1>7. new = IF Len(g.after) >= c THEN [acc EXCEPT !.hits = Append(@, g)] ELSE [acc EXCEPT !.pending = Append(@, g)]
  BY DEF FeedsHit, Feeds, Given
<1>8. h.line \in Nat BY DEF HitRec
<1> HIDE DEF x, c, n, H, t, new, g
<1>9. CASE Len(s) = 0 /\ h.line + c = n + 1
  <2>1. new = [hits |-> Append(acc.hits, g), pending |-> acc.pending]
    <3>1. Len(g.after) >= c BY <1>1, <1>2, <1>6, <1>8, <1>9
    <3> QED BY <1>3, <1>7, <3>1
  <2>2. k = 0 /\ Len(acc.hits) = Len(H) /\ Len(acc.pending) = 0 BY <1>4, <1>5, <1>9
  <2>3. /\ new.hits \in Seq(HitRec) /\ new.pending \in Seq(HitRec) /\ Len(new.hits) = Len(H) + 1 /\ Len(new.pending) = 0
        /\ new.hits[Len(H) + 1] = g /\ \A i \in 1..Len(H) : new.hits[i] = acc.hits[i]
    BY <1>3, <1>6, <2>1, <2>2
  <2>4. t[1] = h /\ Len(t) = 1 BY <1>5, <1>9
  <2>5. new = [hits |-> new.hits, pending |-> new.pending] BY <2>1
  <2>6. Len(t) - 1 = 0 BY <2>4
  <2> QED BY <1>3, <1>9, <2>3, <2>4, <2>5, <2>6 DEF g
<1>10. CASE ~(Len(s) = 0 /\ h.line + c = n + 1)
  <2>1. h.line + c > n + 1
    <3>1. CASE Len(s) = 0 BY <1>1, <1>2, <1>8, <1>10, <3>1
    <3>2. CASE Len(s) # 0
      <4>1. s[1] \in HitRec /\ s[1].line \in Nat
        <5>1. s[1] \in HitRec BY <1>5, <3>2
        <5>2. \A m \in HitRec : m.line \in Nat BY DEF HitRec
        <5> QED BY <5>1, <5>2
      <4>2. s[1].line + c >= n + 1 BY <1>1, <1>4, <1>5, <3>2, <4>1
      <4> QED BY SMTT(40), <1>1, <1>2, <1>5, <1>8, <3>2, <4>1, <4>2
    <3> QED BY <3>1, <3>2
  <2>2. new = [hits |-> acc.hits, pending |-> Append(acc.pending, g)]
    <3>1. ~(Len(g.after) >= c) BY <1>1, <1>2, <1>6, <1>8, <2>1
    <3> QED BY <1>3, <1>7, <3>1
  <2>3. /\ new.hits = acc.hits /\ new.pending \in Seq(HitRec) /\ Len(new.pending) = Len(s) - k + 1
        /\ new.pending[Len(s) - k + 1] = g /\ \A i \in 1..(Len(s) - k) : new.pending[i] = acc.pending[i]
    BY <1>3, <1>4, <1>6, <2>2
  <2>4. \A i \in 1..(Len(t) - k) : new.pending[i] = Given(t[k + i], x)
    <3> TAKE i \in 1..(Len(t) - k)
    <3>1. CASE i = Len(s) - k + 1
      <4>1. k + i = Len(s) + 1 BY <1>4, <1>5, <3>1
      <4> QED BY <1>5, <2>3, <3>1, <4>1 DEF g
    <3>2. CASE i # Len(s) - k + 1
      <4>1. i \in 1..(Len(s) - k) /\ k + i \in 1..Len(s) BY <1>4, <1>5, <3>2
      <4> QED BY <1>4, <1>5, <2>3, <4>1
    <3> QED BY <3>1, <3>2
  <2>5. k <= Len(t) /\ Len(new.hits) = Len(H) + k /\ Len(new.pending) = Len(t) - k BY <1>4, <1>5, <2>3
  <2>6. k = 1 => new.hits[Len(H) + 1] = Given(t[1], x) /\ t[1].line + c = n + 1
    <3> HAVE k = 1
    <3>1. t[1] = s[1] BY <1>4, <1>5
    <3> QED BY <1>4, <2>3, <3>1
  <2>7. k = 0 /\ Len(t) > 0 => t[1].line + c > n + 1
    <3> HAVE k = 0 /\ Len(t) > 0
    <3>1. CASE Len(s) = 0
      <4>1. t[1] = h BY <1>5, <3>1
      <4> QED BY <2>1, <4>1
    <3>2. CASE Len(s) # 0
      <4>1. t[1] = s[1] /\ Len(s) > 0 BY <1>5, <3>2
      <4> QED BY <1>4, <4>1
    <3> QED BY <3>1, <3>2
  <2>8. new = [hits |-> new.hits, pending |-> new.pending] BY <2>2
  <2>9. new.hits \in Seq(HitRec) /\ \A i \in 1..Len(H) : new.hits[i] = H[i] BY <1>3, <2>3
  <2> QED BY <2>3, <2>4, <2>5, <2>6, <2>7, <2>8, <2>9
<1> QED BY <1>9, <1>10

\* Every waiting hit gets the line; those it completes come out, in order.
LEMMA FedIs ==
  ASSUME NEW acc, acc.hits \in Seq(HitRec), acc.pending \in Seq(HitRec), NEW x \in Content, NEW context \in Nat, NEW n \in Nat
  PROVE  FedHits([x |-> x, context |-> context, hits |-> acc.hits, n |-> n], acc.pending, Fed(acc, x, context))
<1> DEFINE env == [x |-> x, context |-> context, hits |-> acc.hits, n |-> n]
           base == [hits |-> acc.hits, pending |-> << >>]
<1>1. env \in Fodder /\ env.hits = acc.hits BY DEF Fodder
<1>2. base = [hits |-> base.hits, pending |-> base.pending] /\ base.hits = acc.hits /\ base.pending = << >> OBVIOUS
<1> HIDE DEF env, base
<1>3. FedHits(env, << >>, base)
  <2>1. 0 \in 0..1 /\ 0 <= Len(<< >>) /\ Len(base.hits) = Len(env.hits) + 0 /\ Len(base.pending) = Len(<< >>) - 0
    BY <1>1, <1>2
  <2>2. << >> \in Seq(HitRec) /\ Len(<< >>) = 0 /\ 1..(0 - 0) = {} OBVIOUS
  <2> QED BY <1>1, <1>2, <2>1, <2>2 DEF FedHits
<1>4. \A s \in Seq(HitRec), h \in HitRec : \A a : FedHits(env, s, a) => FedHits(env, Append(s, h), FeedsHit(env, a, h))
  BY <1>1, FeedOne
<1>5. FedHits(env, acc.pending, Feeding!Fold(env, base, acc.pending)) BY <1>3, <1>4, Feeding!FoldKeeps
<1> QED BY <1>5, FedIsFold DEF env, base

\* A waiting hit has got a line for each that was read after it.
LEMMA AfterLength ==
  ASSUME NEW s \in Page, NEW k \in Nat \ {0}, k <= Len(s)
  PROVE  SubSeq(s, k + 1, Len(s)) \in Page /\ Len(SubSeq(s, k + 1, Len(s))) = Len(s) - k
<1>1. Len(s) \in Nat /\ \A i \in (k + 1)..Len(s) : s[i] \in Content BY DEF Page
<1>2. /\ SubSeq(s, k + 1, Len(s)) \in Seq(Content)
      /\ Len(SubSeq(s, k + 1, Len(s))) = IF k + 1 <= Len(s) THEN Len(s) - (k + 1) + 1 ELSE 0
  BY <1>1, SubSeqProperties
<1> QED BY <1>1, <1>2 DEF Page

\* Collected hits wait as FedIs needs them to.
LEMMA CollectedWaits ==
  ASSUME NEW q \in Query, NEW s \in Page, NEW hits, NEW pending, Collected(q, s, Len(s), Len(s), hits, pending)
  PROVE  Waits(pending, Len(s), q.context)
<1>1. pending \in Seq(HitRec) /\ Rising(pending) BY DEF Collected
<1>2. ASSUME NEW i \in 1..Len(pending)
      PROVE  pending[i].line <= Len(s) /\ Len(s) < pending[i].line + q.context /\ Len(pending[i].after) = Len(s) - pending[i].line
  <2>1. Waiting(q, s, Len(s), Len(s), pending[i]) BY DEF Collected
  <2>2. pending[i].line \in 1..Len(s) /\ Len(s) < pending[i].line + q.context
        /\ pending[i].after = SubSeq(s, pending[i].line + 1, Len(s))
    BY <2>1 DEF Waiting, Found
  <2>3. Len(s) \in Nat BY DEF Page
  <2>4. pending[i].line \in Nat \ {0} /\ pending[i].line <= Len(s) BY <2>2, <2>3
  <2> QED BY <2>2, <2>4, AfterLength
<1> QED BY <1>1, <1>2 DEF Waits

\* A line goes to every hit that waits.
LEMMA CollectedFed ==
  ASSUME NEW q \in Query, NEW s \in Page, NEW x \in Content, NEW acc, Collected(q, s, Len(s), Len(s), acc.hits, acc.pending)
  PROVE  LET fed == Fed(acc, x, q.context) IN
         /\ Collected(q, Append(s, x), Len(s), Len(s) + 1, fed.hits, fed.pending)
         /\ Len(fed.hits) <= Len(acc.hits) + 1
         /\ acc.pending = << >> => Len(fed.hits) = Len(acc.hits)
<1> DEFINE n == Len(s)
           t == Append(s, x)
           c == q.context
           H == acc.hits
           P == acc.pending
           fed == Fed(acc, x, c)
           A == fed.hits
           B == fed.pending
<1>1. n \in Nat /\ c \in Nat /\ t \in Page BY DEF Page, Query
<1>2. H \in Seq(HitRec) /\ P \in Seq(HitRec) /\ Rising(H) /\ Rising(P) /\ Len(H) \in Nat /\ Len(P) \in Nat BY DEF Collected
<1>3. Waits(P, n, c) BY CollectedWaits
<1>4. FedHits([x |-> x, context |-> c, hits |-> H, n |-> n], P, fed) BY <1>1, <1>2, FedIs
<1>5. /\ A \in Seq(HitRec) /\ B \in Seq(HitRec) /\ \A i \in 1..Len(H) : A[i] = H[i]
      /\ \E k \in 0..1 :
         /\ k <= Len(P) /\ Len(A) = Len(H) + k /\ Len(B) = Len(P) - k
         /\ k = 1 => A[Len(H) + 1] = Given(P[1], x) /\ P[1].line + c = n + 1
         /\ k = 0 /\ Len(P) > 0 => P[1].line + c > n + 1
         /\ \A i \in 1..(Len(P) - k) : B[i] = Given(P[k + i], x)
  BY <1>3, <1>4 DEF FedHits
<1>6. PICK k \in 0..1 :
         /\ k <= Len(P) /\ Len(A) = Len(H) + k /\ Len(B) = Len(P) - k
         /\ k = 1 => A[Len(H) + 1] = Given(P[1], x) /\ P[1].line + c = n + 1
         /\ k = 0 /\ Len(P) > 0 => P[1].line + c > n + 1
         /\ \A i \in 1..(Len(P) - k) : B[i] = Given(P[k + i], x)
  BY <1>5
<1> HIDE DEF n, t, c, A, B, fed
<1>7. \A i \in 1..Len(H) : H[i] \in HitRec /\ Complete(q, s, n, n, H[i]) BY <1>2 DEF Collected, n
<1>8. \A i \in 1..Len(P) : P[i] \in HitRec /\ Waiting(q, s, n, n, P[i]) BY <1>2 DEF Collected, n
<1> HIDE DEF H, P
<1>9. \A h \in HitRec : h.line \in Nat BY DEF HitRec
<1>10. ASSUME NEW i \in 1..Len(H) PROVE Complete(q, t, n, n + 1, H[i]) /\ H[i].line + c <= n
  <2>1. H[i] \in HitRec /\ Complete(q, s, n, n, H[i]) BY <1>7
  <2>2. Complete(q, t, n, n, H[i]) BY <1>1, <2>1, CompleteStays DEF n, t
  <2>3. H[i].line + c <= n /\ H[i].line \in Nat BY <1>9, <2>1 DEF Complete, c
  <2>4. H[i].line + c <= n + 1 BY <1>1, <2>3
  <2> QED BY <2>2, <2>3, <2>4 DEF Complete, c
<1>11. ASSUME NEW i \in 1..Len(P)
       PROVE  /\ Given(P[i], x) \in HitRec /\ Given(P[i], x).line = P[i].line /\ P[i].line \in 1..n
              /\ n < P[i].line + c
              /\ Found(q, t, n, Given(P[i], x)) /\ Given(P[i], x).after = SubSeq(t, P[i].line + 1, n + 1)
  <2>1. P[i] \in HitRec /\ Waiting(q, s, n, n, P[i]) BY <1>8
  <2>2. Waiting(q, t, n, n, P[i]) BY <1>1, <2>1, WaitingStays DEF n, t
  <2>3. /\ Given(P[i], x) \in HitRec /\ Given(P[i], x).line = P[i].line /\ Given(P[i], x).before = P[i].before
        /\ Given(P[i], x).after = Append(P[i].after, x)
    BY <2>1, GivenType
  <2>4. P[i].line \in 1..n /\ n < P[i].line + c /\ P[i].after = SubSeq(s, P[i].line + 1, n) /\ Found(q, t, n, P[i])
    BY <2>1, <2>2 DEF Waiting, Found, c
  <2>5. Found(q, t, n, Given(P[i], x)) BY <2>3, <2>4 DEF Found
  <2>6. P[i].line + 1 \in Nat \ {0} /\ P[i].line + 1 <= n + 1 BY <1>1, <2>4
  <2>7. SubSeq(t, P[i].line + 1, n + 1) = Append(SubSeq(s, P[i].line + 1, n), x) BY <2>6, SubSeqGrows DEF n, t
  <2> QED BY <2>3, <2>4, <2>5, <2>7
<1>12. ASSUME k = 1 PROVE Complete(q, t, n, n + 1, A[Len(H) + 1])
  <2>1. 1 \in 1..Len(P) BY <1>2, <1>6, <1>12 DEF P
  <2>2. A[Len(H) + 1] = Given(P[1], x) /\ P[1].line + c = n + 1 BY <1>6, <1>12
  <2>3. P[1].line + c <= n + 1 BY <1>1, <2>2
  <2> QED BY <1>11, <2>1, <2>2, <2>3 DEF Complete, c
<1>13. \A i \in 1..Len(A) : Complete(q, t, n, n + 1, A[i])
  <2> TAKE i \in 1..Len(A)
  <2>1. CASE i \in 1..Len(H) BY <1>5, <1>10, <2>1
  <2>2. CASE i \notin 1..Len(H)
    <3>1. k = 1 /\ i = Len(H) + 1 BY <1>2, <1>6, <2>2 DEF H
    <3> QED BY <1>12, <3>1
  <2> QED BY <2>1, <2>2
<1>14. ASSUME NEW i \in 1..Len(B)
       PROVE  k + i \in 1..Len(P) /\ B[i] = Given(P[k + i], x) /\ Waiting(q, t, n, n + 1, B[i])
  <2>1. k + i \in 1..Len(P) /\ i \in 1..(Len(P) - k) /\ 1 \in 1..Len(P) BY <1>2, <1>6 DEF P
  <2>2. B[i] = Given(P[k + i], x) BY <1>6, <2>1
  <2>3. P[k + i].line \in Nat /\ P[1].line \in Nat BY <1>8, <1>9, <2>1
  <2>4. n + 1 < P[k + i].line + c
    <3>1. CASE k = 0 /\ i = 1
      <4>1. k + i = 1 /\ Len(P) > 0 BY <2>1, <3>1
      <4> QED BY <1>1, <1>6, <2>3, <3>1, <4>1
    <3>2. CASE ~(k = 0 /\ i = 1)
      <4>1. 1 < k + i /\ Len(P) > 0 BY <2>1, <3>2
      <4>2. P[1].line < P[k + i].line BY <1>2, <2>1, <4>1 DEF Rising, P
      <4>3. P[1].line + c >= n + 1 BY SMTT(40), <1>1, <1>6, <2>3, <4>1
      <4> QED BY <1>1, <2>3, <4>2, <4>3
    <3> QED BY <3>1, <3>2
  <2> QED BY <1>11, <2>1, <2>2, <2>4 DEF Waiting, c
<1>15. Rising(A)
  <2> SUFFICES ASSUME NEW i \in 1..Len(A), NEW j \in 1..Len(A), i < j PROVE A[i].line < A[j].line BY DEF Rising
  <2>1. CASE j \in 1..Len(H)
    <3>1. i \in 1..Len(H) BY <1>2, <2>1 DEF H
    <3>2. H[i].line < H[j].line BY <1>2, <2>1, <3>1 DEF Rising, H
    <3> QED BY <1>5, <2>1, <3>1, <3>2
  <2>2. CASE j \notin 1..Len(H)
    <3>1. k = 1 /\ j = Len(H) + 1 /\ i \in 1..Len(H) BY <1>2, <1>6, <2>2 DEF H
    <3>2. 1 \in 1..Len(P) BY <1>2, <1>6, <3>1 DEF P
    <3>3. A[j].line = P[1].line /\ P[1].line \in 1..n /\ n < P[1].line + c BY <1>6, <1>11, <3>1, <3>2
    <3>4. A[i] = H[i] /\ H[i].line + c <= n /\ H[i].line \in Nat BY <1>5, <1>7, <1>9, <1>10, <3>1
    <3> QED BY SMTT(40), <1>1, <3>3, <3>4
  <2> QED BY <2>1, <2>2
<1>16. Rising(B)
  <2> SUFFICES ASSUME NEW i \in 1..Len(B), NEW j \in 1..Len(B), i < j PROVE B[i].line < B[j].line BY DEF Rising
  <2>1. k + i \in 1..Len(P) /\ k + j \in 1..Len(P) /\ k + i < k + j BY <1>14
  <2>2. P[k + i].line < P[k + j].line BY <1>2, <2>1 DEF Rising, P
  <2>3. B[i].line = P[k + i].line /\ B[j].line = P[k + j].line BY <1>11, <1>14, <2>1
  <2> QED BY <2>2, <2>3
<1>17. ASSUME NEW m \in 1..n, Matches(t[m], q)
       PROVE  (\E i \in 1..Len(A) : A[i].line = m) \/ (\E i \in 1..Len(B) : B[i].line = m)
  <2>1. t[m] = s[m] BY DEF t, n, Page
  <2>2. (\E i \in 1..Len(H) : H[i].line = m) \/ (\E i \in 1..Len(P) : P[i].line = m)
    BY <1>17, <2>1 DEF Collected, H, P, n
  <2>3. ASSUME NEW i \in 1..Len(H), H[i].line = m PROVE \E j \in 1..Len(A) : A[j].line = m
    <3>1. i \in 1..Len(A) BY <1>2, <1>6 DEF H
    <3> QED BY <1>5, <2>3, <3>1
  <2>4. ASSUME NEW i \in 1..Len(P), P[i].line = m
        PROVE  (\E j \in 1..Len(A) : A[j].line = m) \/ (\E j \in 1..Len(B) : B[j].line = m)
    <3>1. CASE i = 1 /\ k = 1
      <4>1. Len(H) + 1 \in 1..Len(A) BY <1>2, <1>6, <3>1 DEF H
      <4>2. A[Len(H) + 1].line = m BY <1>6, <1>11, <2>4, <3>1
      <4> QED BY <4>1, <4>2
    <3>2. CASE ~(i = 1 /\ k = 1)
      <4>1. i - k \in 1..Len(B) /\ k + (i - k) = i BY SMTT(40), <1>2, <1>6, <3>2 DEF P
      <4>2. B[i - k].line = m BY <1>11, <1>14, <2>4, <4>1
      <4> QED BY <4>1, <4>2
    <3> QED BY <3>1, <3>2
  <2> QED BY <2>2, <2>3, <2>4
<1>18. Collected(q, t, n, n + 1, A, B) BY <1>5, <1>13, <1>14, <1>15, <1>16, <1>17 DEF Collected
<1>19. Len(A) <= Len(H) + 1 /\ (P = << >> => Len(A) = Len(H)) BY <1>2, <1>6 DEF H, P
<1> QED BY <1>18, <1>19 DEF t, n, A, B, fed, c, H, P

\* The next line is looked at: it does not match, or it is a hit without or with lines to wait for.
LEMMA CollectedPassed ==
  ASSUME NEW q \in Query, NEW s, NEW n \in Nat, NEW hits, NEW pending,
         Collected(q, s, n, n + 1, hits, pending), ~Matches(s[n + 1], q)
  PROVE  Collected(q, s, n + 1, n + 1, hits, pending)
<1>1. \A h : Found(q, s, n, h) => Found(q, s, n + 1, h) BY DEF Found
<1>2. \A k \in 1..(n + 1) : k \in 1..n \/ k = n + 1 OBVIOUS
<1> QED BY <1>1, <1>2 DEF Collected, Complete, Waiting

\* A later hit at the end keeps hits in order.
LEMMA RisingAppend ==
  ASSUME NEW hits \in Seq(HitRec), Rising(hits), NEW h \in HitRec, \A i \in 1..Len(hits) : hits[i].line < h.line
  PROVE  Rising(Append(hits, h))
<1> DEFINE t == Append(hits, h)
<1>1. Len(hits) \in Nat /\ Len(t) = Len(hits) + 1 /\ (\A i \in 1..Len(hits) : t[i] = hits[i]) /\ t[Len(hits) + 1] = h OBVIOUS
<1> HIDE DEF t
<1> SUFFICES ASSUME NEW i \in 1..Len(t), NEW j \in 1..Len(t), i < j PROVE t[i].line < t[j].line BY DEF Rising, t
<1>2. i \in 1..Len(hits) BY <1>1
<1>3. CASE j \in 1..Len(hits) BY <1>1, <1>2, <1>3 DEF Rising
<1>4. CASE j \notin 1..Len(hits)
  <2>1. j = Len(hits) + 1 BY <1>1, <1>4
  <2> QED BY <1>1, <1>2, <2>1
<1> QED BY <1>3, <1>4

\* What holds of all of a sequence and of one more holds with it appended.
LEMMA AppendAll ==
  ASSUME NEW hits \in Seq(HitRec), NEW h \in HitRec
  PROVE  /\ Append(hits, h) \in Seq(HitRec) /\ Len(Append(hits, h)) = Len(hits) + 1 /\ Len(hits) \in Nat
         /\ \A i \in 1..Len(hits) : i \in 1..(Len(hits) + 1) /\ Append(hits, h)[i] = hits[i]
         /\ Len(hits) + 1 \in 1..(Len(hits) + 1) /\ Append(hits, h)[Len(hits) + 1] = h
         /\ \A i \in 1..(Len(hits) + 1) : i \in 1..Len(hits) \/ i = Len(hits) + 1
OBVIOUS

\* A collection with a hit that needs no lines after it.
LEMMA CollectedHit ==
  ASSUME NEW q \in Query, NEW s \in Page, Len(s) > 0, NEW n \in Nat, n + 1 = Len(s), NEW hits, NEW pending,
         Collected(q, s, n, n + 1, hits, pending), Matches(s[n + 1], q),
         NEW h, h = [line |-> n + 1, before |-> LinesBefore(s, n + 1, q.context), after |-> << >>], h.before \in Page
  PROVE  /\ h \in HitRec
         /\ q.context = 0 => Collected(q, s, n + 1, n + 1, Append(hits, h), pending)
         /\ q.context # 0 => Collected(q, s, n + 1, n + 1, hits, Append(pending, h))
<1>1. h \in HitRec
  <2>1. n + 1 \in Nat \ {0} /\ << >> \in Page BY DEF Page
  <2> QED BY <2>1 DEF HitRec
<1>2. hits \in Seq(HitRec) /\ pending \in Seq(HitRec) /\ Rising(hits) /\ Rising(pending) BY DEF Collected
<1>3. q.context \in Nat BY DEF Query
<1>4. \A g : Found(q, s, n, g) => Found(q, s, n + 1, g) /\ g.line < h.line BY DEF Found
<1>5. Found(q, s, n + 1, h) BY DEF Found
<1>6. h.line = n + 1 /\ h.after = << >> OBVIOUS
<1>7. \A k \in 1..(n + 1) : k \in 1..n \/ k = n + 1 OBVIOUS
<1>8. \A i \in 1..Len(hits) : Complete(q, s, n + 1, n + 1, hits[i]) /\ hits[i].line < h.line
  BY <1>4 DEF Collected, Complete
<1>9. \A i \in 1..Len(pending) : Waiting(q, s, n + 1, n + 1, pending[i]) /\ pending[i].line < h.line
  BY <1>4 DEF Collected, Waiting
<1>10. \A k \in 1..n : Matches(s[k], q) =>
         (\E i \in 1..Len(hits) : hits[i].line = k) \/ (\E i \in 1..Len(pending) : pending[i].line = k)
  BY DEF Collected
<1>11. ASSUME q.context = 0 PROVE Collected(q, s, n + 1, n + 1, Append(hits, h), pending)
  <2> DEFINE more == Append(hits, h)
  <2>1. Rising(more) BY <1>1, <1>2, <1>8, RisingAppend
  <2>2. /\ more \in Seq(HitRec) /\ Len(more) = Len(hits) + 1
        /\ \A i \in 1..Len(hits) : i \in 1..(Len(hits) + 1) /\ more[i] = hits[i]
        /\ Len(hits) + 1 \in 1..(Len(hits) + 1) /\ more[Len(hits) + 1] = h
        /\ \A i \in 1..(Len(hits) + 1) : i \in 1..Len(hits) \/ i = Len(hits) + 1
    BY <1>1, <1>2, AppendAll
  <2> HIDE DEF more
  <2>3. Complete(q, s, n + 1, n + 1, h)
    <3>1. SubSeq(s, n + 1 + 1, n + 1 + 0) = << >> BY SubSeqEmpty
    <3>2. n + 1 + 0 <= n + 1 OBVIOUS
    <3> QED BY <1>5, <1>6, <1>11, <3>1, <3>2 DEF Complete
  <2>4. \A i \in 1..Len(more) : Complete(q, s, n + 1, n + 1, more[i]) BY <1>8, <2>2, <2>3
  <2>5. \A k \in 1..(n + 1) : Matches(s[k], q) =>
          (\E i \in 1..Len(more) : more[i].line = k) \/ (\E i \in 1..Len(pending) : pending[i].line = k)
    BY <1>6, <1>7, <1>10, <2>2
  <2> QED BY <1>2, <1>9, <2>1, <2>2, <2>4, <2>5 DEF Collected, more
<1>12. ASSUME q.context # 0 PROVE Collected(q, s, n + 1, n + 1, hits, Append(pending, h))
  <2> DEFINE more == Append(pending, h)
  <2>1. Rising(more) BY <1>1, <1>2, <1>9, RisingAppend
  <2>2. /\ more \in Seq(HitRec) /\ Len(more) = Len(pending) + 1
        /\ \A i \in 1..Len(pending) : i \in 1..(Len(pending) + 1) /\ more[i] = pending[i]
        /\ Len(pending) + 1 \in 1..(Len(pending) + 1) /\ more[Len(pending) + 1] = h
        /\ \A i \in 1..(Len(pending) + 1) : i \in 1..Len(pending) \/ i = Len(pending) + 1
    BY <1>1, <1>2, AppendAll
  <2> HIDE DEF more
  <2>3. Waiting(q, s, n + 1, n + 1, h)
    <3>1. SubSeq(s, n + 1 + 1, n + 1) = << >> BY SubSeqEmpty
    <3>2. n + 1 < n + 1 + q.context BY <1>3, <1>12
    <3> QED BY <1>5, <1>6, <3>1, <3>2 DEF Waiting
  <2>4. \A i \in 1..Len(more) : Waiting(q, s, n + 1, n + 1, more[i]) BY <1>9, <2>2, <2>3
  <2>5. \A k \in 1..(n + 1) : Matches(s[k], q) =>
          (\E i \in 1..Len(hits) : hits[i].line = k) \/ (\E i \in 1..Len(more) : more[i].line = k)
    BY <1>6, <1>7, <1>10, <2>2
  <2> QED BY <1>2, <1>8, <2>1, <2>2, <2>4, <2>5 DEF Collected, more
<1> QED BY <1>1, <1>11, <1>12

(* The scan *)

ScansLine(q, acc, x) == ScanLine(acc, x, q)
Seen(q, acc) == IF acc.stop /\ q.context # 0 THEN acc.n - 1 ELSE acc.n
ScannedIs(q, s, acc) ==
  /\ acc = [n |-> acc.n, ring |-> acc.ring, hits |-> acc.hits, pending |-> acc.pending, stop |-> acc.stop]
  /\ acc.stop \in BOOLEAN /\ acc.n \in Nat /\ acc.n <= Len(s)
  /\ Collected(q, s, Seen(q, acc), acc.n, acc.hits, acc.pending)
  /\ acc.stop => acc.n >= 1 /\ Len(acc.hits) = q.max
  /\ ~acc.stop => acc.n = Len(s) /\ Len(acc.hits) < q.max /\ RingOf(acc.ring, q.context, s)

Scanning == INSTANCE Folding WITH op <- ScansLine, Inv <- ScannedIs

NothingScanned(q) == [n |-> 0, ring |-> NewRing(q.context), hits |-> << >>, pending |-> << >>, stop |-> FALSE]

\* A scan is a fold, line by line.
LEMMA ScannedIsFold == ASSUME NEW s, NEW q PROVE Scanned(s, q) = Scanning!Fold(q, NothingScanned(q), s)
BY DEF Scanned, NothingScanned, Scanning!Fold, Scanning!Folds, Scanning!Top, ScansLine, FoldLeft, MapThenFoldSet, Max

\* What is claimed of a scan stands with one line more.
LEMMA ScanOne ==
  ASSUME NEW q \in Query, NEW s \in Page, NEW acc, ScannedIs(q, s, acc), NEW x \in Content
  PROVE  ScannedIs(q, Append(s, x), ScanLine(acc, x, q))
<1> DEFINE t == Append(s, x)
           n == Len(s)
           c == q.context
           fed == Fed(acc, x, c)
           hit == [line |-> acc.n + 1, before |-> RingLines(acc.ring, c), after |-> << >>]
           new == ScanLine(acc, x, q)
<1> SUFFICES ScannedIs(q, t, new) OBVIOUS
<1>1. n \in Nat /\ Len(t) = n + 1 /\ t \in Page /\ t[n + 1] = x BY DEF Page
<1>2. /\ acc = [n |-> acc.n, ring |-> acc.ring, hits |-> acc.hits, pending |-> acc.pending, stop |-> acc.stop]
      /\ acc.stop \in BOOLEAN /\ acc.n \in Nat /\ acc.n <= n
      /\ Collected(q, s, Seen(q, acc), acc.n, acc.hits, acc.pending)
      /\ acc.stop => acc.n >= 1 /\ Len(acc.hits) = q.max
      /\ ~acc.stop => acc.n = n /\ Len(acc.hits) < q.max /\ RingOf(acc.ring, c, s)
  BY DEF ScannedIs
<1>3. c \in Nat /\ q.max \in Nat \ {0} BY DEF Query
<1>4. CASE acc.stop
  <2>1. new = acc BY <1>4 DEF ScanLine
  <2>2. Seen(q, acc) \in Nat /\ Seen(q, acc) <= n BY <1>1, <1>2, <1>4 DEF Seen
  <2>3. Collected(q, t, Seen(q, acc), acc.n, acc.hits, acc.pending) BY <1>2, <2>2, CollectedStays
  <2>4. acc.n <= Len(t) BY <1>1, <1>2
  <2> HIDE DEF new, t, n, c
  <2> QED BY <1>2, <1>4, <2>1, <2>3, <2>4 DEF ScannedIs
<1>5. CASE ~acc.stop
  <2> DEFINE next == [n |-> n + 1, ring |-> Push(acc.ring, c, x), hits |-> fed.hits, pending |-> fed.pending, stop |-> FALSE]
             P == acc.pending # << >> /\ Len(fed.hits) >= q.max
  <2>1. acc.n = n /\ Len(acc.hits) < q.max /\ RingOf(acc.ring, c, s) /\ Collected(q, s, n, n, acc.hits, acc.pending)
    BY <1>2, <1>5 DEF Seen
  <2>2. /\ Collected(q, t, n, n + 1, fed.hits, fed.pending) /\ Len(fed.hits) <= Len(acc.hits) + 1
        /\ acc.pending = << >> => Len(fed.hits) = Len(acc.hits)
    BY <2>1, CollectedFed
  <2>3. RingOf(Push(acc.ring, c, x), c, t) BY <1>3, <2>1, RingPush
  <2>4. hit = [line |-> n + 1, before |-> LinesBefore(t, n + 1, c), after |-> << >>] /\ hit.before \in Page
    <3>1. RingLines(acc.ring, c) = LinesBefore(s, n + 1, c) /\ RingLines(acc.ring, c) \in Page BY <1>3, <2>1, RingRead
    <3>2. n + 1 \in Nat \ {0} /\ n + 1 <= Len(s) + 1 BY <1>1
    <3>4. LinesBefore(t, n + 1, c) = LinesBefore(s, n + 1, c) BY <1>3, <3>2, LinesBeforeStay
    <3> QED BY <2>1, <3>1, <3>4
  <2>5. new = IF P THEN [next EXCEPT !.stop = TRUE, !.ring = acc.ring]
              ELSE IF ~Matches(x, q) THEN next
              ELSE IF c = 0 THEN [next EXCEPT !.hits = Append(@, hit), !.stop = Len(fed.hits) + 1 >= q.max]
              ELSE [next EXCEPT !.pending = Append(@, hit)]
    BY <1>5, <2>1 DEF ScanLine
  <2>6. Len(fed.hits) \in Nat /\ Len(acc.hits) \in Nat /\ fed.hits \in Seq(HitRec) /\ fed.pending \in Seq(HitRec)
    BY <2>1, <2>2 DEF Collected
  <2> DEFINE A == fed.hits
             B == fed.pending
  <2> HIDE DEF new, t, n, c, hit, fed, A, B
  <2>7. CASE P
    <3>1. new = [n |-> n + 1, ring |-> acc.ring, hits |-> A, pending |-> B, stop |-> TRUE] BY <2>5, <2>7 DEF A, B
    <3>2. c # 0
      <4>1. Len(acc.pending) \in Nat \ {0} /\ acc.pending \in Seq(HitRec) BY <2>1, <2>7 DEF Collected
      <4>2. 1 \in 1..Len(acc.pending) BY <4>1
      <4>3. Waiting(q, s, n, n, acc.pending[1]) BY <2>1, <4>2 DEF Collected
      <4>4. acc.pending[1].line \in 1..n /\ n < acc.pending[1].line + c BY <4>3 DEF Waiting, Found, c
      <4> QED BY <1>1, <4>4
    <3>3. Len(A) = q.max BY <1>3, <2>1, <2>2, <2>6, <2>7 DEF A
    <3>4. Seen(q, new) = n BY <1>1, <3>1, <3>2 DEF Seen, c
    <3>5. n + 1 \in Nat /\ n + 1 <= Len(t) /\ n + 1 >= 1 BY <1>1
    <3> QED BY <2>2, <3>1, <3>3, <3>4, <3>5 DEF ScannedIs, A, B
  <2>8. CASE ~P
    <3>1. Len(A) < q.max BY <1>3, <2>1, <2>2, <2>6, <2>8 DEF A
    <3>2. n + 1 \in Nat /\ n + 1 <= Len(t) /\ n + 1 >= 1 /\ Len(t) > 0 BY <1>1
    <3>3. CASE ~Matches(x, q)
      <4>1. new = [n |-> n + 1, ring |-> Push(acc.ring, c, x), hits |-> A, pending |-> B, stop |-> FALSE]
        BY <2>5, <2>8, <3>3 DEF A, B
      <4>2. Collected(q, t, n + 1, n + 1, A, B) BY <1>1, <2>2, <3>3, CollectedPassed DEF A, B
      <4>3. Seen(q, new) = n + 1 BY <4>1 DEF Seen
      <4> QED BY <1>1, <2>3, <3>1, <3>2, <4>1, <4>2, <4>3 DEF ScannedIs, c
    <3>4. CASE Matches(x, q)
      <4>1. /\ hit \in HitRec
            /\ c = 0 => Collected(q, t, n + 1, n + 1, Append(A, hit), B)
            /\ c # 0 => Collected(q, t, n + 1, n + 1, A, Append(B, hit))
        <5>1. Collected(q, t, n, n + 1, A, B) BY <2>2 DEF A, B
        <5> QED BY <1>1, <2>4, <3>2, <3>4, <5>1, CollectedHit DEF c
      <4>2. CASE c = 0
        <5>1. new = [n |-> n + 1, ring |-> Push(acc.ring, c, x), hits |-> Append(A, hit), pending |-> B, stop |-> Len(A) + 1 >= q.max]
          BY <2>5, <2>8, <3>4, <4>2 DEF A, B
        <5>2. Len(Append(A, hit)) = Len(A) + 1 BY <2>6, <4>1 DEF A
        <5>3. Seen(q, new) = n + 1 BY <4>2, <5>1 DEF Seen, c
        <5>4. CASE Len(A) + 1 >= q.max
          <6>1. new.stop = TRUE BY <5>1, <5>4
          <6>2. Len(A) + 1 = q.max BY <1>3, <2>6, <3>1, <5>4 DEF A
          <6> QED BY <3>2, <4>1, <4>2, <5>1, <5>2, <5>3, <6>1, <6>2 DEF ScannedIs
        <5>5. CASE ~(Len(A) + 1 >= q.max)
          <6>1. new.stop = FALSE
            <7>1. (Len(A) + 1 >= q.max) = FALSE BY <5>5
            <7>2. new.stop = (Len(A) + 1 >= q.max) BY <5>1
            <7> QED BY <7>1, <7>2
          <6>2. Len(A) + 1 < q.max BY <1>3, <2>6, <3>1, <5>5 DEF A
          <6> QED BY <1>1, <2>3, <3>2, <4>1, <4>2, <5>1, <5>2, <5>3, <6>1, <6>2 DEF ScannedIs, c
        <5> QED BY <5>4, <5>5
      <4>3. CASE c # 0
        <5>1. new = [n |-> n + 1, ring |-> Push(acc.ring, c, x), hits |-> A, pending |-> Append(B, hit), stop |-> FALSE]
          BY <2>5, <2>8, <3>4, <4>3 DEF A, B
        <5>2. Seen(q, new) = n + 1 BY <5>1 DEF Seen
        <5> QED BY <1>1, <2>3, <3>1, <3>2, <4>1, <4>3, <5>1, <5>2 DEF ScannedIs, c
      <4> QED BY <4>2, <4>3
    <3> QED BY <3>3, <3>4
  <2> QED BY <2>7, <2>8
<1> QED BY <1>2, <1>4, <1>5

\* What a scan has collected when it ends.
LEMMA ScanIs == ASSUME NEW q \in Query, NEW s \in Page PROVE ScannedIs(q, s, Scanned(s, q))
<1> DEFINE base == NothingScanned(q)
<1>1. ScannedIs(q, << >>, base)
  <2>1. base = [n |-> 0, ring |-> NewRing(q.context), hits |-> << >>, pending |-> << >>, stop |-> FALSE] BY DEF NothingScanned
  <2>2. RingOf(NewRing(q.context), q.context, << >>) BY RingNew DEF Query
  <2>3. Collected(q, << >>, 0, 0, << >>, << >>) BY DEF Collected, Rising
  <2>4. Seen(q, base) = 0 BY <2>1 DEF Seen
  <2>5. 0 < q.max /\ Len(<< >>) = 0 BY DEF Query
  <2> HIDE DEF base
  <2> QED BY <2>1, <2>2, <2>3, <2>4, <2>5 DEF ScannedIs
<1>2. \A a \in Seq(Content), x \in Content : \A acc : ScannedIs(q, a, acc) => ScannedIs(q, Append(a, x), ScansLine(q, acc, x))
  BY ScanOne DEF ScansLine, Page
<1>3. ScannedIs(q, s, Scanning!Fold(q, base, s)) BY <1>1, <1>2, Scanning!FoldKeeps DEF Page
<1>4. Scanned(s, q) = Scanning!Fold(q, base, s) BY ScannedIsFold
<1> HIDE DEF base
<1> QED BY <1>3, <1>4

\* Rising whole numbers between a and b are no more than b - a.
LEMMA RisingBound ==
  ASSUME NEW hits \in Seq(HitRec), Rising(hits), NEW a \in Int, NEW b \in Int, a <= b,
         \A i \in 1..Len(hits) : a < hits[i].line /\ hits[i].line <= b
  PROVE  Len(hits) <= b - a
<1> DEFINE L == Len(hits)
           Bad == {i \in Nat : i \in 1..L /\ hits[i].line < a + i}
<1>1. L \in Nat /\ \A i \in 1..L : hits[i].line \in Nat
  <2>1. \A h \in HitRec : h.line \in Nat BY DEF HitRec
  <2> QED BY <2>1
<1>2. Bad = {}
  <2> SUFFICES ASSUME Bad # {} PROVE FALSE OBVIOUS
  <2>1. PICK m \in Bad : \A k \in Bad : m <= k
    <3>1. Bad \in SUBSET Nat OBVIOUS
    <3> HIDE DEF Bad
    <3> QED BY <3>1, Scanning!Smallest
  <2>2. m \in 1..L /\ m \in Nat /\ hits[m].line < a + m OBVIOUS
  <2>3. m # 1 BY <1>1, <2>2
  <2>4. m - 1 \in 1..L /\ m - 1 \in Nat /\ m - 1 < m BY <1>1, <2>2, <2>3
  <2>5. hits[m - 1].line < hits[m].line BY <2>2, <2>4 DEF Rising
  <2>6. hits[m - 1].line < a + (m - 1) BY SMTT(40), <1>1, <2>2, <2>4, <2>5
  <2>7. m - 1 \in Bad BY <2>4, <2>6
  <2>8. m <= m - 1 BY <2>1, <2>7
  <2> QED BY <2>2, <2>8
<1>3. CASE L = 0 BY <1>3
<1>4. CASE L # 0
  <2>1. L \in 1..L /\ L \in Nat BY <1>1, <1>4
  <2>2. ~(hits[L].line < a + L) BY <1>2, <2>1
  <2>3. hits[L].line <= b /\ hits[L].line \in Nat BY <1>1, <2>1
  <2> HIDE DEF L
  <2>4. L <= b - a BY <1>1, <2>2, <2>3
  <2> QED BY <2>4 DEF L
<1> QED BY <1>3, <1>4

\* A part is the start of a longer part from the same place.
LEMMA PrefixOf ==
  ASSUME NEW s \in Page, NEW a \in Nat \ {0}, NEW n \in Nat, NEW e \in Nat, n <= e, e <= Len(s), a <= n + 1
  PROVE  IsPrefix(SubSeq(s, a, n), SubSeq(s, a, e))
<1> DEFINE x == SubSeq(s, a, n)
           y == SubSeq(s, a, e)
<1>1. Len(s) \in Nat /\ \A i \in 1..Len(s) : s[i] \in Content BY DEF Page
<1>2. (\A i \in a..n : s[i] \in Content) /\ (\A i \in a..e : s[i] \in Content) BY <1>1
<1>3. /\ x \in Seq(Content) /\ Len(x) = IF a <= n THEN n - a + 1 ELSE 0
      /\ \A i \in 1..(n - a + 1) : x[i] = s[a + i - 1]
  BY SMTT(40), <1>2, SubSeqProperties
<1>4. /\ y \in Seq(Content) /\ Len(y) = IF a <= e THEN e - a + 1 ELSE 0
      /\ \A i \in 1..(e - a + 1) : y[i] = s[a + i - 1]
  BY <1>2, SubSeqProperties
<1> HIDE DEF x, y
<1>5. Len(x) = n - a + 1 /\ Len(y) = e - a + 1 /\ Len(x) <= Len(y) /\ Len(x) \in Nat BY <1>3, <1>4
<1>6. /\ SubSeq(y, 1, Len(x)) \in Seq(Content) /\ Len(SubSeq(y, 1, Len(x))) = Len(x)
      /\ \A i \in 1..Len(x) : SubSeq(y, 1, Len(x))[i] = y[i]
  <2>1. \A i \in 1..Len(x) : y[i] \in Content BY <1>4, <1>5
  <2>2. /\ SubSeq(y, 1, Len(x)) \in Seq(Content) /\ Len(SubSeq(y, 1, Len(x))) = IF 1 <= Len(x) THEN Len(x) - 1 + 1 ELSE 0
        /\ \A i \in 1..(Len(x) - 1 + 1) : SubSeq(y, 1, Len(x))[i] = y[1 + i - 1]
    BY <1>5, <2>1, SubSeqProperties
  <2>3. Len(x) - 1 + 1 = Len(x) /\ \A i \in 1..Len(x) : 1 + i - 1 = i BY <1>5
  <2> QED BY <1>5, <2>2, <2>3
<1>7. \A i \in 1..Len(x) : SubSeq(y, 1, Len(x))[i] = x[i]
  <2> TAKE i \in 1..Len(x)
  <2>1. i \in 1..(n - a + 1) /\ i \in 1..(e - a + 1) BY <1>5
  <2> QED BY <1>3, <1>4, <1>6, <2>1
<1>8. SubSeq(y, 1, Len(x)) = x BY <1>3, <1>6, <1>7, SeqEqual
<1>9. SubSeq(x, 1, Len(x)) = x BY <1>3, SubSeqFull
<1> QED BY <1>5, <1>8, <1>9 DEF IsPrefix, x, y

Matching(s, q) == {i \in DOMAIN s : Matches(s[i], q)}

\* What a scan finds, however it ended.
LEMMA ScanFinds ==
  ASSUME NEW q \in Query, NEW s \in Page
  PROVE  LET hits == Scan(s, q).hits IN
         /\ hits \in Seq(HitRec) /\ Rising(hits) /\ Len(hits) <= q.max + q.context
         /\ FirstOf(LineOf(hits), Matching(s, q), q.max)
         /\ \A i \in 1..Len(hits) :
              /\ hits[i].line \in 1..Len(s)
              /\ hits[i].before = LinesBefore(s, hits[i].line, q.context)
              /\ IF i <= q.max
                 THEN hits[i].after = SubSeq(s, hits[i].line + 1, Least(Len(s), hits[i].line + q.context))
                 ELSE IsPrefix(hits[i].after, SubSeq(s, hits[i].line + 1, Least(Len(s), hits[i].line + q.context)))
         /\ q.max > Len(s) => Scan(s, q).total = Len(s) /\ \A k \in Matching(s, q) : \E i \in 1..Len(hits) : hits[i].line = k
<1> DEFINE acc == Scanned(s, q)
           H == acc.hits
           P == acc.pending
           n == acc.n
           N == Len(s)
           c == q.context
           seen == Seen(q, acc)
           hits == H \o P
           ks == LineOf(hits)
           all == Matching(s, q)
<1>1. /\ acc.stop \in BOOLEAN /\ n \in Nat /\ n <= N
      /\ Collected(q, s, seen, n, H, P)
      /\ acc.stop => n >= 1 /\ Len(H) = q.max
      /\ ~acc.stop => n = N /\ Len(H) < q.max
  BY ScanIs DEF ScannedIs
<1>2. Scan(s, q).hits = hits /\ Scan(s, q).total = n BY DEF Scan, ChunkResult
<1>3. seen \in Nat /\ seen <= n /\ (~acc.stop => seen = N) BY <1>1 DEF Seen
<1>4. N \in Nat /\ c \in Nat /\ q.max \in Nat \ {0} /\ DOMAIN s = 1..N BY DEF Page, Query
<1> HIDE DEF acc, H, P, n, N, c, seen
<1>5. /\ H \in Seq(HitRec) /\ P \in Seq(HitRec) /\ Rising(H) /\ Rising(P)
      /\ \A i \in 1..Len(H) : Complete(q, s, seen, n, H[i])
      /\ \A i \in 1..Len(P) : Waiting(q, s, seen, n, P[i])
      /\ \A k \in 1..seen : Matches(s[k], q) =>
            (\E i \in 1..Len(H) : H[i].line = k) \/ (\E i \in 1..Len(P) : P[i].line = k)
  BY <1>1 DEF Collected
<1>6. Len(H) \in Nat /\ Len(P) \in Nat /\ Len(H) <= q.max BY <1>1, <1>4, <1>5
<1>7. /\ hits \in Seq(HitRec) /\ Len(hits) = Len(H) + Len(P)
      /\ \A i \in 1..(Len(H) + Len(P)) : hits[i] = IF i <= Len(H) THEN H[i] ELSE P[i - Len(H)]
  BY <1>5, ConcatProperties
<1> HIDE DEF hits
<1>8. ASSUME NEW i \in 1..Len(hits)
      PROVE  \/ i \in 1..Len(H) /\ hits[i] = H[i] /\ Complete(q, s, seen, n, hits[i])
             \/ i \notin 1..Len(H) /\ i > Len(H) /\ i - Len(H) \in 1..Len(P) /\ hits[i] = P[i - Len(H)] /\ Waiting(q, s, seen, n, hits[i])
  <2>1. CASE i \in 1..Len(H)
    <3>1. hits[i] = H[i] BY <1>6, <1>7, <2>1
    <3> QED BY <1>5, <2>1, <3>1
  <2>2. CASE i \notin 1..Len(H)
    <3>1. i > Len(H) /\ i - Len(H) \in 1..Len(P) BY <1>6, <1>7, <2>2
    <3>2. hits[i] = P[i - Len(H)] BY <1>6, <1>7, <3>1
    <3> QED BY <1>5, <2>2, <3>1, <3>2
  <2> QED BY <2>1, <2>2
<1>9. \A i \in 1..Len(hits) : Found(q, s, seen, hits[i]) BY <1>8 DEF Complete, Waiting
<1>10. Len(hits) \in Nat /\ \A i \in 1..Len(hits) : hits[i].line \in 1..seen /\ hits[i].line \in 1..N /\ hits[i].line \in Nat /\ hits[i].line <= n
  <2>1. Len(hits) \in Nat BY <1>6, <1>7
  <2>2. \A i \in 1..Len(hits) : hits[i].line \in 1..seen BY <1>9 DEF Found
  <2> QED BY <1>1, <1>3, <1>4, <2>1, <2>2
<1>11. Rising(hits)
  <2> SUFFICES ASSUME NEW i \in 1..Len(hits), NEW j \in 1..Len(hits), i < j PROVE hits[i].line < hits[j].line BY DEF Rising
  <2>1. CASE j \in 1..Len(H)
    <3>1. i \in 1..Len(H) BY <1>6, <2>1
    <3>2. H[i].line < H[j].line BY <1>5, <2>1, <3>1 DEF Rising
    <3>3. hits[i] = H[i] /\ hits[j] = H[j] BY <1>8, <2>1, <3>1
    <3> QED BY <3>2, <3>3
  <2>2. CASE j \notin 1..Len(H) /\ i \in 1..Len(H)
    <3>1. hits[i].line + c <= n /\ n < hits[j].line + c BY <1>8, <2>2 DEF Complete, Waiting, c
    <3> QED BY <1>1, <1>4, <1>10, <3>1
  <2>3. CASE j \notin 1..Len(H) /\ i \notin 1..Len(H)
    <3>1. /\ i - Len(H) \in 1..Len(P) /\ hits[i] = P[i - Len(H)]
          /\ j - Len(H) \in 1..Len(P) /\ hits[j] = P[j - Len(H)]
      BY <1>8, <2>3
    <3>2. i - Len(H) < j - Len(H) BY <1>6
    <3>3. P[i - Len(H)].line < P[j - Len(H)].line BY <1>5, <3>1, <3>2 DEF Rising
    <3> QED BY <3>1, <3>3
  <2> QED BY <2>1, <2>2, <2>3
<1>12. Len(hits) <= q.max + c
  <2>1. Len(P) <= n - (n - c)
    <3>1. ASSUME NEW i \in 1..Len(P) PROVE n - c < P[i].line /\ P[i].line <= n
      <4>1. P[i].line \in 1..seen /\ n < P[i].line + c BY <1>5 DEF Waiting, Found, c
      <4> QED BY <1>1, <1>3, <1>4, <4>1
    <3>2. n - c \in Int /\ n \in Int /\ n - c <= n BY <1>1, <1>4
    <3> QED BY <1>5, <3>1, <3>2, RisingBound
  <2> QED BY <1>1, <1>4, <1>6, <1>7, <2>1
<1>13. DOMAIN hits = 1..Len(hits) /\ ks = [i \in 1..Len(hits) |-> hits[i].line] /\ Len(ks) = Len(hits) /\ DOMAIN ks = 1..Len(hits)
       /\ \A i \in 1..Len(hits) : ks[i] = hits[i].line
  <2>1. DOMAIN hits = 1..Len(hits) BY <1>7
  <2>2. ks = [i \in 1..Len(hits) |-> hits[i].line] BY <2>1 DEF LineOf
  <2> QED BY <1>10, <2>1, <2>2
<1> HIDE DEF ks
<1>14. ASSUME NEW k \in all, k <= seen PROVE \E i \in 1..Len(hits) : hits[i].line = k
  <2>1. k \in 1..seen /\ Matches(s[k], q) BY <1>3, <1>4, <1>14 DEF Matching
  <2>2. (\E i \in 1..Len(H) : H[i].line = k) \/ (\E i \in 1..Len(P) : P[i].line = k) BY <1>5, <2>1
  <2>3. ASSUME NEW i \in 1..Len(H), H[i].line = k PROVE \E j \in 1..Len(hits) : hits[j].line = k
    <3>1. i \in 1..Len(hits) /\ hits[i] = H[i] BY <1>6, <1>7
    <3> QED BY <2>3, <3>1
  <2>4. ASSUME NEW i \in 1..Len(P), P[i].line = k PROVE \E j \in 1..Len(hits) : hits[j].line = k
    <3>1. Len(H) + i \in 1..Len(hits) /\ Len(H) + i - Len(H) = i /\ ~(Len(H) + i <= Len(H)) BY <1>6, <1>7
    <3>2. hits[Len(H) + i] = P[i] BY <1>6, <1>7, <3>1
    <3> QED BY <2>4, <3>1, <3>2
  <2> QED BY <2>2, <2>3, <2>4
<1>15. FirstOf(ks, all, q.max)
  <2>1. ToSet(ks) \subseteq all
    <3> SUFFICES ASSUME NEW i \in 1..Len(hits) PROVE hits[i].line \in all BY <1>13 DEF ToSet
    <3> QED BY <1>4, <1>9, <1>10 DEF Found, Matching
  <2>2. \A i, j \in DOMAIN ks : i < j => ks[i] < ks[j] BY <1>11, <1>13 DEF Rising
  <2>3. ASSUME NEW k \in all \ ToSet(ks) PROVE Len(ks) >= q.max /\ \A i \in DOMAIN ks : ks[i] < k
    <3>1. k \in 1..N BY <1>4 DEF Matching
    <3>2. k > seen
      <4> SUFFICES ASSUME ~(k > seen) PROVE FALSE OBVIOUS
      <4>1. k <= seen BY <1>3, <1>4, <3>1
      <4>2. PICK i \in 1..Len(hits) : hits[i].line = k BY <1>14, <4>1
      <4>3. ks[i] = k /\ i \in DOMAIN ks BY <1>13, <4>2
      <4> QED BY <4>3 DEF ToSet
    <3>3. acc.stop BY <1>3, <1>4, <3>1, <3>2
    <3>4. Len(hits) >= q.max BY <1>1, <1>4, <1>6, <1>7, <3>3
    <3>5. \A i \in DOMAIN ks : ks[i] < k BY <1>3, <1>4, <1>10, <1>13, <3>1, <3>2
    <3> QED BY <1>13, <3>4, <3>5
  <2> QED BY <2>1, <2>2, <2>3 DEF FirstOf
<1>16. ASSUME NEW i \in 1..Len(hits)
       PROVE  /\ hits[i].before = LinesBefore(s, hits[i].line, c)
              /\ IF i <= q.max
                 THEN hits[i].after = SubSeq(s, hits[i].line + 1, Least(N, hits[i].line + c))
                 ELSE IsPrefix(hits[i].after, SubSeq(s, hits[i].line + 1, Least(N, hits[i].line + c)))
  <2>1. hits[i].before = LinesBefore(s, hits[i].line, c) BY <1>9 DEF Found, c
  <2>2. hits[i].line \in Nat \ {0} /\ hits[i].line <= n /\ hits[i].line + 1 \in Nat \ {0} /\ hits[i].line + 1 <= n + 1
    BY <1>1, <1>10
  <2>3. CASE i \in 1..Len(H)
    <3>1. hits[i].line + c <= n /\ hits[i].after = SubSeq(s, hits[i].line + 1, hits[i].line + c)
      BY <1>8, <2>3 DEF Complete, c
    <3>2. i <= q.max BY <1>4, <1>6, <2>3
    <3>3. ~(N < hits[i].line + c) BY <1>1, <1>4, <2>2, <3>1
    <3>4. Least(N, hits[i].line + c) = hits[i].line + c BY <3>3 DEF Least
    <3> QED BY <2>1, <3>1, <3>2, <3>4
  <2>4. CASE i \notin 1..Len(H)
    <3> DEFINE e == Least(N, hits[i].line + c)
    <3>1. i > Len(H) /\ n < hits[i].line + c /\ hits[i].after = SubSeq(s, hits[i].line + 1, n)
      BY <1>8, <2>4 DEF Waiting, c
    <3>2. n <= e /\ e \in Nat /\ e <= N
      <4>1. e = N \/ (e = hits[i].line + c /\ ~(N < hits[i].line + c)) BY DEF Least
      <4>2. CASE e = N BY <1>1, <1>4, <4>2
      <4>3. CASE e = hits[i].line + c /\ ~(N < hits[i].line + c)
        <5>1. hits[i].line + c \in Nat BY <1>1, <1>4, <2>2
        <5> QED BY <1>1, <1>4, <3>1, <4>3, <5>1
      <4> QED BY <4>1, <4>2, <4>3
    <3>3. i <= q.max => e = n
      <4> HAVE i <= q.max
      <4>1. ~acc.stop BY <1>1, <1>4, <1>6, <3>1
      <4>2. n = N BY <1>1, <4>1
      <4> QED BY <1>4, <3>2, <4>2
    <3> HIDE DEF e
    <3>4. IsPrefix(hits[i].after, SubSeq(s, hits[i].line + 1, e)) BY <1>1, <2>2, <3>1, <3>2, PrefixOf DEF N
    <3> QED BY <2>1, <3>1, <3>3, <3>4 DEF e
  <2> QED BY <2>3, <2>4
<1>17. ASSUME q.max > N PROVE n = N /\ \A k \in all : \E i \in 1..Len(hits) : hits[i].line = k
  <2>1. Len(H) <= N - 0
    <3>1. \A i \in 1..Len(H) : 0 < H[i].line /\ H[i].line <= N
      <4> TAKE i \in 1..Len(H)
      <4>1. H[i].line \in 1..seen BY <1>5 DEF Complete, Found
      <4> QED BY <1>1, <1>3, <1>4, <4>1
    <3>2. 0 \in Int /\ N \in Int /\ 0 <= N BY <1>4
    <3> QED BY <1>5, <3>1, <3>2, RisingBound
  <2>2. ~acc.stop BY <1>1, <1>4, <1>6, <1>17, <2>1
  <2>3. n = N /\ seen = N BY <1>1, <1>3, <2>2
  <2>4. \A k \in all : k <= seen BY <1>4, <2>3 DEF Matching
  <2> QED BY <1>14, <2>3, <2>4
<1> QED BY <1>2, <1>7, <1>10, <1>11, <1>12, <1>15, <1>16, <1>17 DEF hits, ks, all, c, N

(* Chunks *)

\* Chunks between edges, in the order of the file.
Parted(f, cs) ==
  /\ \A i \in 1..Len(cs) : Edge(f, cs[i].start) /\ Edge(f, cs[i].end) /\ cs[i].start <= cs[i].end
  /\ \A i, j \in 1..Len(cs) : i < j => cs[i].end <= cs[j].start

\* Chunks that know their first lines, or follow each other from the start of the file.
Numbered(f, cs) == \A i \in 1..Len(cs) : cs[i].line = LinesTo(f, cs[i].start) + 1
Successive(cs) ==
  /\ \A i \in 1..Len(cs) : cs[i].line = 0 /\ (i = 1 => cs[i].start = 0)
  /\ \A i, j \in 1..Len(cs) : j = i + 1 => cs[j].start = cs[i].end

Within(f, c, k) == LinesTo(f, c.start) < k /\ k <= LinesTo(f, c.end)

JoinsOn(env, acc, c) == Join(env.f, env.q, acc, c)
JoinedIs(env, cs, acc) ==
  Parted(env.f, cs) /\ (Numbered(env.f, cs) \/ Successive(cs)) =>
    /\ acc = [base |-> acc.base, hits |-> acc.hits]
    /\ acc.hits \in Seq(HitRec) /\ Rising(acc.hits) /\ acc.base \in Nat
    /\ \A i \in 1..Len(acc.hits) :
         /\ acc.hits[i].line \in AllHits(env.f, env.q)
         /\ \E j \in 1..Len(cs) : Within(env.f, cs[j], acc.hits[i].line)
    /\ \A k \in AllHits(env.f, env.q) :
         (\E j \in 1..Len(cs) : Within(env.f, cs[j], k)) => \E i \in 1..Len(acc.hits) : acc.hits[i].line = k
    /\ Successive(cs) => acc.base = IF cs = << >> THEN 1 ELSE LinesTo(env.f, cs[Len(cs)].end) + 1

Joining == INSTANCE Folding WITH op <- JoinsOn, Inv <- JoinedIs

\* The chunks' hits are joined by a fold.
LEMMA JoinedIsFold ==
  ASSUME NEW f, NEW cs, NEW q
  PROVE  Joined(f, cs, q) = Joining!Fold([f |-> f, q |-> q], [base |-> 1, hits |-> << >>], cs)
BY DEF Joined, Joining!Fold, Joining!Folds, Joining!Top, JoinsOn, FoldLeft, MapThenFoldSet, Max

\* What holds of chunks holds of all but the last, and the last comes after them.
LEMMA PartedPrefix ==
  ASSUME NEW f, NEW S, NEW cs \in Seq(S), NEW c \in S, Parted(f, Append(cs, c))
  PROVE  /\ Parted(f, cs) /\ Edge(f, c.start) /\ Edge(f, c.end) /\ c.start <= c.end
         /\ \A i \in 1..Len(cs) : cs[i].end <= c.start
         /\ Numbered(f, Append(cs, c)) => Numbered(f, cs) /\ c.line = LinesTo(f, c.start) + 1
         /\ Successive(Append(cs, c)) => /\ Successive(cs) /\ c.line = 0
                                         /\ c.start = IF cs = << >> THEN 0 ELSE cs[Len(cs)].end
<1> DEFINE t == Append(cs, c)
           n == Len(cs)
<1>1. n \in Nat /\ Len(t) = n + 1 /\ (\A i \in 1..n : t[i] = cs[i] /\ i \in 1..(n + 1)) /\ t[n + 1] = c /\ n + 1 \in 1..(n + 1)
      /\ \A i \in 1..n : i < n + 1
  OBVIOUS
<1>2. n = 0 <=> cs = << >> OBVIOUS
<1> HIDE DEF t, n
<1>3. /\ \A i \in 1..(n + 1) : Edge(f, t[i].start) /\ Edge(f, t[i].end) /\ t[i].start <= t[i].end
      /\ \A i, j \in 1..(n + 1) : i < j => t[i].end <= t[j].start
  BY <1>1 DEF Parted, t
<1>4. Parted(f, cs) BY <1>1, <1>3 DEF Parted, n
<1>5. Edge(f, c.start) /\ Edge(f, c.end) /\ c.start <= c.end /\ \A i \in 1..n : cs[i].end <= c.start BY <1>1, <1>3
<1>6. Numbered(f, t) => Numbered(f, cs) /\ c.line = LinesTo(f, c.start) + 1 BY <1>1 DEF Numbered, n
<1>7. ASSUME Successive(t)
      PROVE  Successive(cs) /\ c.line = 0 /\ c.start = IF cs = << >> THEN 0 ELSE cs[n].end
  <2>1. /\ \A i \in 1..(n + 1) : t[i].line = 0 /\ (i = 1 => t[i].start = 0)
        /\ \A i, j \in 1..(n + 1) : j = i + 1 => t[j].start = t[i].end
    BY <1>1, <1>7 DEF Successive
  <2>2. Successive(cs) BY <1>1, <2>1 DEF Successive, n
  <2>3. c.line = 0 /\ (n = 0 => c.start = 0) BY <1>1, <2>1
  <2>4. n # 0 => c.start = cs[n].end
    <3> HAVE n # 0
    <3>1. n \in 1..n BY <1>1
    <3> QED BY <1>1, <2>1, <3>1
  <2> QED BY <1>2, <2>2, <2>3, <2>4
<1> QED BY <1>4, <1>5, <1>6, <1>7 DEF t, n

\* How many hits are asked for does not matter to whether a line matches.
LEMMA MatchesAs == ASSUME NEW q \in Query, NEW m, NEW s PROVE Matches(s, [q EXCEPT !.max = m]) = Matches(s, q)
<1>1. [q EXCEPT !.max = m].kw = q.kw /\ [q EXCEPT !.max = m].whole = q.whole BY DEF Query
<1> QED BY <1>1 DEF Matches

\* The scan of a chunk, and its hits with their numbers in the file.
ChunkScan(f, q, a, b) == Scan(Lines(Section(f, a, b)), [q EXCEPT !.max = Len(f) + 1])
ChunkMarks(f, q, a, b) ==
  LET hits == ChunkScan(f, q, a, b).hits IN [i \in DOMAIN hits |-> [hits[i] EXCEPT !.line = LinesTo(f, a) + 1 + @ - 1]]

\* The scan of a chunk finds the matching lines of the file that lie in it, at their numbers.
LEMMA ChunkHits ==
  ASSUME NEW f \in Content, NEW q \in Query, NEW a, NEW b, Edge(f, a), Edge(f, b), a <= b
  PROVE  LET M == ChunkMarks(f, q, a, b) IN
         /\ ChunkScan(f, q, a, b).total = LinesTo(f, b) - LinesTo(f, a)
         /\ M \in Seq(HitRec) /\ Rising(M)
         /\ \A i \in 1..Len(M) : M[i].line \in AllHits(f, q) /\ LinesTo(f, a) < M[i].line /\ M[i].line <= LinesTo(f, b)
         /\ \A k \in AllHits(f, q) : LinesTo(f, a) < k /\ k <= LinesTo(f, b) => \E i \in 1..Len(M) : M[i].line = k
<1> DEFINE all == Lines(f)
           A == LinesTo(f, a)
           B == LinesTo(f, b)
           L == Lines(Section(f, a, b))
           r == [q EXCEPT !.max = Len(f) + 1]
           res == Scan(L, r)
           hits == res.hits
           M == [i \in DOMAIN hits |-> [hits[i] EXCEPT !.line = A + 1 + @ - 1]]
<1>1. /\ A \in Nat /\ B \in Nat /\ A <= B /\ B <= Len(all) /\ L \in Page /\ Len(L) = B - A
      /\ \A i \in 1..(B - A) : L[i] = all[A + i]
  BY LinesBetween
<1>2. Len(f) \in Nat /\ Len(all) \in Nat /\ Len(all) <= Len(f) /\ DOMAIN all = 1..Len(all) /\ DOMAIN L = 1..Len(L)
  BY <1>1, LinesType DEF Content, Page
<1>3. r \in Query /\ r.max = Len(f) + 1 BY <1>2 DEF Query
<1>4. \A x : Matches(x, r) = Matches(x, q) BY MatchesAs
<1> HIDE DEF all, A, B, L, r, res, hits, M
<1>5. r.max > Len(L) BY <1>1, <1>2, <1>3
<1>6. /\ hits \in Seq(HitRec) /\ Rising(hits)
      /\ FirstOf(LineOf(hits), Matching(L, r), r.max)
      /\ \A i \in 1..Len(hits) : hits[i].line \in 1..Len(L)
      /\ res.total = Len(L) /\ \A k \in Matching(L, r) : \E i \in 1..Len(hits) : hits[i].line = k
  BY <1>1, <1>3, <1>5, ScanFinds DEF res, hits
<1>7. DOMAIN hits = 1..Len(hits) /\ Len(hits) \in Nat BY <1>6
<1>8. ASSUME NEW i \in 1..Len(hits)
      PROVE  /\ hits[i].line \in 1..(B - A) /\ Matches(all[A + hits[i].line], q)
             /\ [hits[i] EXCEPT !.line = A + 1 + @ - 1] \in HitRec
             /\ [hits[i] EXCEPT !.line = A + 1 + @ - 1].line = A + hits[i].line
  <2>1. hits[i].line \in 1..Len(L) /\ hits[i] \in HitRec BY <1>6
  <2>2. hits[i].line \in Matching(L, r)
    <3>1. LineOf(hits)[i] = hits[i].line /\ i \in DOMAIN LineOf(hits) BY <1>7 DEF LineOf
    <3>2. hits[i].line \in ToSet(LineOf(hits)) BY <3>1, Zenon DEF ToSet
    <3> QED BY <1>6, <3>2 DEF FirstOf
  <2>3. Matches(L[hits[i].line], q) BY <1>4, <2>2 DEF Matching
  <2>4. hits[i].line \in 1..(B - A) BY <1>1, <2>1
  <2>5. Matches(all[A + hits[i].line], q) BY <1>1, <2>3, <2>4
  <2> DEFINE g == [hits[i] EXCEPT !.line = A + 1 + @ - 1]
  <2>6. g = [line |-> A + 1 + hits[i].line - 1, before |-> hits[i].before, after |-> hits[i].after] BY <2>1 DEF HitRec
  <2>7. A + 1 + hits[i].line - 1 = A + hits[i].line /\ A + hits[i].line \in Nat \ {0} BY SMTT(40), <1>1, <2>4
  <2>8. hits[i].before \in Page /\ hits[i].after \in Page BY <2>1 DEF HitRec
  <2> HIDE DEF g
  <2>9. g \in HitRec /\ g.line = A + hits[i].line BY <2>6, <2>7, <2>8 DEF HitRec
  <2> QED BY <2>4, <2>5, <2>9 DEF g
<1>9. /\ M \in Seq(HitRec) /\ Len(M) = Len(hits) /\ \A i \in 1..Len(hits) : M[i].line = A + hits[i].line
  <2>1. M = [i \in 1..Len(hits) |-> [hits[i] EXCEPT !.line = A + 1 + @ - 1]] BY <1>7 DEF M
  <2>2. \A i \in 1..Len(hits) : M[i] = [hits[i] EXCEPT !.line = A + 1 + @ - 1] BY <2>1
  <2>3. \A i \in 1..Len(hits) : M[i] \in HitRec /\ M[i].line = A + hits[i].line BY <1>8, <2>2
  <2>4. M = [i \in 1..Len(hits) |-> M[i]] BY <2>1
  <2> HIDE DEF M
  <2>5. M \in [1..Len(hits) -> HitRec] BY <2>3, <2>4
  <2>6. M \in Seq(HitRec) /\ Len(M) = Len(hits) BY <1>7, <2>5
  <2> QED BY <2>3, <2>6
<1>10. Rising(M)
  <2> SUFFICES ASSUME NEW i \in 1..Len(M), NEW j \in 1..Len(M), i < j PROVE M[i].line < M[j].line BY DEF Rising
  <2>1. i \in 1..Len(hits) /\ j \in 1..Len(hits) BY <1>9
  <2>2. hits[i].line < hits[j].line BY <1>6, <2>1 DEF Rising
  <2>3. hits[i].line \in Nat /\ hits[j].line \in Nat
    <3>1. \A h \in 1..(B - A) : h \in Nat BY <1>1
    <3> QED BY <1>8, <2>1, <3>1
  <2>4. M[i].line = A + hits[i].line /\ M[j].line = A + hits[j].line BY <1>9, <2>1
  <2> QED BY SMTT(40), <1>1, <2>2, <2>3, <2>4
<1>11. ASSUME NEW i \in 1..Len(M) PROVE M[i].line \in AllHits(f, q) /\ A < M[i].line /\ M[i].line <= B
  <2>1. i \in 1..Len(hits) BY <1>9
  <2>2. M[i].line = A + hits[i].line /\ hits[i].line \in 1..(B - A) /\ Matches(all[M[i].line], q) BY <1>8, <1>9, <2>1
  <2>3. M[i].line \in 1..Len(all) /\ A < M[i].line /\ M[i].line <= B
    <3>1. \A h \in 1..(B - A) : A + h \in 1..Len(all) /\ A < A + h /\ A + h <= B BY <1>1, <1>2
    <3> QED BY <2>2, <3>1
  <2> QED BY <1>2, <2>2, <2>3 DEF AllHits, all
<1>12. ASSUME NEW k \in AllHits(f, q), A < k, k <= B PROVE \E i \in 1..Len(M) : M[i].line = k
  <2>1. k \in 1..Len(all) /\ Matches(all[k], q) BY <1>2 DEF AllHits, all
  <2>2. k - A \in 1..(B - A) /\ A + (k - A) = k BY <1>1, <1>2, <1>12, <2>1
  <2>3. L[k - A] = all[k] BY <1>1, <2>2
  <2>4. k - A \in Matching(L, r) BY <1>1, <1>2, <1>4, <2>1, <2>2, <2>3 DEF Matching
  <2>5. PICK i \in 1..Len(hits) : hits[i].line = k - A BY <1>6, <2>4
  <2>6. M[i].line = k /\ i \in 1..Len(M) BY <1>9, <2>2, <2>5
  <2> QED BY <2>6
<1>13. res.total = B - A BY <1>1, <1>6
<1>14. ChunkScan(f, q, a, b) = res /\ ChunkMarks(f, q, a, b) = M BY DEF ChunkScan, ChunkMarks, M, hits, res, r, L, A
<1> QED BY <1>9, <1>10, <1>11, <1>12, <1>13, <1>14 DEF A, B

Job == [f : Content, q : Query]

\* What is claimed of the joined hits stands with one chunk more.
LEMMA JoinOne ==
  ASSUME NEW env \in Job, NEW S, NEW cs \in Seq(S), NEW c \in S, NEW acc, JoinedIs(env, cs, acc)
  PROVE  JoinedIs(env, Append(cs, c), JoinsOn(env, acc, c))
<1> DEFINE f == env.f
           q == env.q
           t == Append(cs, c)
           n == Len(cs)
           A == LinesTo(f, c.start)
           B == LinesTo(f, c.end)
           res == ChunkScan(f, q, c.start, c.end)
           M == ChunkMarks(f, q, c.start, c.end)
           H == acc.hits
           new == JoinsOn(env, acc, c)
           G == new.hits
<1>1. f \in Content /\ q \in Query BY DEF Job
<1> HIDE DEF f, q
<1> SUFFICES ASSUME Parted(f, t), Numbered(f, t) \/ Successive(t)
             PROVE  /\ new = [base |-> new.base, hits |-> G]
                    /\ G \in Seq(HitRec) /\ Rising(G) /\ new.base \in Nat
                    /\ \A i \in 1..Len(G) : G[i].line \in AllHits(f, q) /\ \E j \in 1..Len(t) : Within(f, t[j], G[i].line)
                    /\ \A k \in AllHits(f, q) :
                         (\E j \in 1..Len(t) : Within(f, t[j], k)) => \E i \in 1..Len(G) : G[i].line = k
                    /\ Successive(t) => new.base = IF t = << >> THEN 1 ELSE LinesTo(f, t[Len(t)].end) + 1
  BY DEF JoinedIs, f, q
<1>2. /\ Parted(f, cs) /\ Edge(f, c.start) /\ Edge(f, c.end) /\ c.start <= c.end
      /\ \A i \in 1..n : cs[i].end <= c.start
      /\ Numbered(f, t) => Numbered(f, cs) /\ c.line = A + 1
      /\ Successive(t) => Successive(cs) /\ c.line = 0 /\ c.start = IF cs = << >> THEN 0 ELSE cs[n].end
  BY <1>1, PartedPrefix
<1>3. /\ acc = [base |-> acc.base, hits |-> H]
      /\ H \in Seq(HitRec) /\ Rising(H) /\ acc.base \in Nat
      /\ \A i \in 1..Len(H) : H[i].line \in AllHits(f, q) /\ \E j \in 1..n : Within(f, cs[j], H[i].line)
      /\ \A k \in AllHits(f, q) : (\E j \in 1..n : Within(f, cs[j], k)) => \E i \in 1..Len(H) : H[i].line = k
      /\ Successive(cs) => acc.base = IF cs = << >> THEN 1 ELSE LinesTo(f, cs[n].end) + 1
  BY <1>2 DEF JoinedIs, f, q
<1>4. A \in Nat /\ B \in Nat /\ A <= B BY <1>1, <1>2, LinesBetween
<1>5. /\ res.total = B - A /\ M \in Seq(HitRec) /\ Rising(M)
      /\ \A i \in 1..Len(M) : M[i].line \in AllHits(f, q) /\ A < M[i].line /\ M[i].line <= B
      /\ \A k \in AllHits(f, q) : A < k /\ k <= B => \E i \in 1..Len(M) : M[i].line = k
  BY <1>1, <1>2, ChunkHits
<1>6. \A k \in AllHits(f, q) : k \in Nat
  <2>1. DOMAIN Lines(f) \in SUBSET Nat BY <1>1, LinesType DEF Page
  <2> QED BY <2>1 DEF AllHits
<1>7. ASSUME Successive(t) PROVE acc.base = A + 1
  <2>1. CASE cs = << >> BY <1>1, <1>2, <1>3, <1>7, <2>1, LinesToEnds
  <2>2. CASE cs # << >> BY <1>2, <1>3, <1>7, <2>2
  <2> QED BY <2>1, <2>2
<1>8. (IF c.line > 0 THEN c.line ELSE acc.base) = A + 1
  <2>1. CASE Numbered(f, t)
    <3>1. c.line = A + 1 /\ c.line > 0 BY <1>2, <1>4, <2>1
    <3> QED BY <3>1
  <2>2. CASE Successive(t)
    <3>1. c.line = 0 /\ acc.base = A + 1 BY <1>2, <1>7, <2>2
    <3> QED BY <3>1
  <2> QED BY <2>1, <2>2
<1>9. new = [base |-> acc.base + (B - A), hits |-> H \o M]
  <2>1. new = [base |-> acc.base + res.total,
               hits |-> H \o [i \in DOMAIN res.hits |-> [res.hits[i] EXCEPT !.line = (IF c.line > 0 THEN c.line ELSE acc.base) + @ - 1]]]
    BY DEF JoinsOn, Join, ChunkScan, f, q
  <2>2. M = [i \in DOMAIN res.hits |-> [res.hits[i] EXCEPT !.line = A + 1 + @ - 1]] BY DEF ChunkMarks
  <2> HIDE DEF new, M, res, A
  <2> QED BY <1>5, <1>8, <2>1, <2>2
<1>10. Len(t) = n + 1 /\ n \in Nat /\ (\A i \in 1..n : t[i] = cs[i] /\ i \in 1..(n + 1)) /\ t[n + 1] = c /\ n + 1 \in 1..(n + 1)
       /\ (\A i \in 1..(n + 1) : i \in 1..n \/ i = n + 1) /\ t # << >>
  OBVIOUS
<1> HIDE DEF t, n, A, B, res, M, H, new
<1>11. Len(H) \in Nat /\ Len(M) \in Nat BY <1>3, <1>5
<1>12. /\ G \in Seq(HitRec) /\ Len(G) = Len(H) + Len(M)
       /\ \A i \in 1..(Len(H) + Len(M)) : G[i] = IF i <= Len(H) THEN H[i] ELSE M[i - Len(H)]
  <2>1. G = H \o M BY <1>9
  <2> QED BY <1>3, <1>5, <2>1, ConcatProperties
<1> HIDE DEF G
<1>13. ASSUME NEW i \in 1..Len(G)
       PROVE  \/ i \in 1..Len(H) /\ G[i] = H[i]
              \/ i \notin 1..Len(H) /\ i - Len(H) \in 1..Len(M) /\ G[i] = M[i - Len(H)]
  <2>1. CASE i \in 1..Len(H) BY <1>11, <1>12, <2>1
  <2>2. CASE i \notin 1..Len(H)
    <3>1. ~(i <= Len(H)) /\ i - Len(H) \in 1..Len(M) /\ i \in 1..(Len(H) + Len(M)) BY <1>11, <1>12, <2>2
    <3> QED BY <1>12, <2>2, <3>1
  <2> QED BY <2>1, <2>2
<1>14. \A i \in 1..Len(H) : i \in 1..Len(G) /\ G[i] = H[i] BY <1>11, <1>12
<1>15. \A i \in 1..Len(M) : \E j \in 1..Len(G) : G[j] = M[i]
  <2> TAKE i \in 1..Len(M)
  <2>1. Len(H) + i \in 1..Len(G) /\ ~(Len(H) + i <= Len(H)) /\ Len(H) + i - Len(H) = i BY <1>11, <1>12
  <2>2. G[Len(H) + i] = M[i] BY <1>12, <2>1
  <2> QED BY <2>1, <2>2
<1>16. \A i \in 1..Len(H) : H[i].line <= A /\ H[i].line \in Nat
  <2> TAKE i \in 1..Len(H)
  <2>1. PICK j \in 1..n : Within(f, cs[j], H[i].line) BY <1>3
  <2>2. Edge(f, cs[j].end) /\ cs[j].end <= c.start BY <1>2, <2>1 DEF Parted, n
  <2>3. LinesTo(f, cs[j].end) <= A /\ LinesTo(f, cs[j].end) \in Nat BY <1>1, <1>2, <2>2, LinesBetween DEF A
  <2>4. H[i].line <= LinesTo(f, cs[j].end) /\ H[i].line \in Nat BY <1>3, <1>6, <2>1 DEF Within
  <2> QED BY <1>4, <2>3, <2>4
<1>17. Rising(G)
  <2> SUFFICES ASSUME NEW i \in 1..Len(G), NEW j \in 1..Len(G), i < j PROVE G[i].line < G[j].line BY DEF Rising
  <2>1. CASE j \in 1..Len(H)
    <3>1. i \in 1..Len(H) BY <1>11, <2>1
    <3> QED BY <1>3, <1>14, <2>1, <3>1 DEF Rising
  <2>2. CASE j \notin 1..Len(H) /\ i \in 1..Len(H)
    <3>1. G[i] = H[i] /\ G[j] = M[j - Len(H)] /\ j - Len(H) \in 1..Len(M) BY <1>13, <2>2
    <3>2. H[i].line <= A /\ H[i].line \in Nat /\ A < M[j - Len(H)].line BY <1>5, <1>16, <2>2, <3>1
    <3>3. M[j - Len(H)].line \in Nat BY <1>5, <1>6, <3>1
    <3> QED BY SMTT(40), <1>4, <3>1, <3>2, <3>3
  <2>3. CASE j \notin 1..Len(H) /\ i \notin 1..Len(H)
    <3>1. /\ G[i] = M[i - Len(H)] /\ i - Len(H) \in 1..Len(M)
          /\ G[j] = M[j - Len(H)] /\ j - Len(H) \in 1..Len(M)
      BY <1>13, <2>3
    <3>2. i - Len(H) < j - Len(H) BY <1>11
    <3> QED BY <1>5, <3>1, <3>2 DEF Rising
  <2> QED BY <2>1, <2>2, <2>3
<1>18. ASSUME NEW i \in 1..Len(G) PROVE G[i].line \in AllHits(f, q) /\ \E j \in 1..Len(t) : Within(f, t[j], G[i].line)
  <2>1. CASE i \in 1..Len(H)
    <3>1. PICK j \in 1..n : Within(f, cs[j], H[i].line) BY <1>3, <2>1
    <3>2. j \in 1..Len(t) /\ t[j] = cs[j] BY <1>10
    <3> QED BY <1>3, <1>14, <2>1, <3>1, <3>2
  <2>2. CASE i \notin 1..Len(H)
    <3>1. i - Len(H) \in 1..Len(M) /\ G[i] = M[i - Len(H)] BY <1>13, <2>2
    <3>2. G[i].line \in AllHits(f, q) /\ A < G[i].line /\ G[i].line <= B BY <1>5, <3>1
    <3>3. Within(f, t[n + 1], G[i].line) BY <1>10, <3>2 DEF Within, A, B
    <3> QED BY <1>10, <3>2, <3>3
  <2> QED BY <2>1, <2>2
<1>19. ASSUME NEW k \in AllHits(f, q), NEW j \in 1..Len(t), Within(f, t[j], k) PROVE \E i \in 1..Len(G) : G[i].line = k
  <2>1. CASE j \in 1..n
    <3>1. Within(f, cs[j], k) BY <1>10, <1>19, <2>1
    <3>2. PICK i \in 1..Len(H) : H[i].line = k BY <1>3, <2>1, <3>1
    <3> QED BY <1>14, <3>2
  <2>2. CASE j = n + 1
    <3>1. A < k /\ k <= B BY <1>10, <1>19, <2>2 DEF Within, A, B
    <3>2. PICK i \in 1..Len(M) : M[i].line = k BY <1>5, <3>1
    <3> QED BY <1>15, <3>2
  <2> QED BY <1>10, <2>1, <2>2
<1>20. Successive(t) => new.base = LinesTo(f, t[Len(t)].end) + 1
  <2> HAVE Successive(t)
  <2>1. acc.base = A + 1 /\ new.base = acc.base + (B - A) BY <1>7, <1>9
  <2>2. t[Len(t)].end = c.end BY <1>10
  <2> QED BY <1>4, <2>1, <2>2 DEF B
<1>21. new.base \in Nat /\ new = [base |-> new.base, hits |-> G]
  <2>1. new.base = acc.base + (B - A) BY <1>9
  <2>2. new.base \in Nat BY <1>3, <1>4, <2>1
  <2> QED BY <1>9, <2>2 DEF G
<1> QED BY <1>10, <1>12, <1>17, <1>18, <1>19, <1>20, <1>21

\* The joined hits of chunks are the matching lines in them, in the order of the file.
LEMMA JoinedAre ==
  ASSUME NEW f \in Content, NEW q \in Query, NEW S, NEW cs \in Seq(S), Parted(f, cs), Numbered(f, cs) \/ Successive(cs)
  PROVE  LET hits == Joined(f, cs, q).hits IN
         /\ hits \in Seq(HitRec) /\ Rising(hits)
         /\ \A i \in 1..Len(hits) : hits[i].line \in AllHits(f, q) /\ \E j \in 1..Len(cs) : Within(f, cs[j], hits[i].line)
         /\ \A k \in AllHits(f, q) : (\E j \in 1..Len(cs) : Within(f, cs[j], k)) => \E i \in 1..Len(hits) : hits[i].line = k
<1> DEFINE env == [f |-> f, q |-> q]
           base == [base |-> 1, hits |-> << >>]
<1>1. env \in Job /\ env.f = f /\ env.q = q BY DEF Job
<1>2. base.base = 1 /\ base.hits = << >> /\ base = [base |-> base.base, hits |-> base.hits] OBVIOUS
<1> HIDE DEF env, base
<1>3. JoinedIs(env, << >>, base)
  <2>1. << >> \in Seq(HitRec) /\ Rising(<< >>) /\ 1..Len(<< >>) = {} BY DEF Rising
  <2> QED BY <1>2, <2>1 DEF JoinedIs
<1>4. \A a \in Seq(S), c \in S : \A acc : JoinedIs(env, a, acc) => JoinedIs(env, Append(a, c), JoinsOn(env, acc, c))
  BY <1>1, JoinOne
<1>5. JoinedIs(env, cs, Joining!Fold(env, base, cs)) BY <1>3, <1>4, Joining!FoldKeeps
<1>6. JoinedIs(env, cs, Joined(f, cs, q)) BY <1>5, JoinedIsFold DEF env, base
<1> QED BY <1>1, <1>6 DEF JoinedIs

\* The first of all, or all, of hits that are in order.
LEMMA CutFirst ==
  ASSUME NEW hits \in Seq(HitRec), Rising(hits), NEW m \in Nat, NEW all,
         \A i \in 1..Len(hits) : hits[i].line \in all,
         \A k \in all : \E i \in 1..Len(hits) : hits[i].line = k
  PROVE  LET cut == SubSeq(hits, 1, IF Len(hits) < m THEN Len(hits) ELSE m) IN
         /\ FirstOf(LineOf(cut), all, m) /\ Len(cut) <= m
         /\ Len(hits) <= m => ToSet(LineOf(cut)) = all
<1> DEFINE L == Len(hits)
           n == IF L < m THEN L ELSE m
           cut == SubSeq(hits, 1, n)
           ks == LineOf(cut)
<1>1. L \in Nat /\ n \in Nat /\ n <= L /\ n <= m /\ (n < L => n = m) OBVIOUS
<1> HIDE DEF L, n
<1>2. cut \in Seq(HitRec) /\ Len(cut) = n /\ \A i \in 1..n : cut[i] = hits[i]
  <2>1. \A i \in 1..n : hits[i] \in HitRec BY <1>1 DEF L
  <2>2. /\ cut \in Seq(HitRec) /\ Len(cut) = IF 1 <= n THEN n - 1 + 1 ELSE 0
        /\ \A i \in 1..(n - 1 + 1) : cut[i] = hits[1 + i - 1]
    BY <1>1, <2>1, SubSeqProperties
  <2> HIDE DEF cut
  <2>3. n - 1 + 1 = n /\ \A i \in 1..n : 1 + i - 1 = i BY <1>1
  <2> QED BY <1>1, <2>2, <2>3
<1> HIDE DEF cut
<1>3. DOMAIN ks = 1..n /\ Len(ks) = n /\ \A i \in 1..n : ks[i] = hits[i].line
  <2>1. DOMAIN cut = 1..n BY <1>2
  <2>2. ks = [i \in 1..n |-> cut[i].line] BY <2>1 DEF LineOf
  <2> QED BY <1>1, <1>2, <2>2
<1> HIDE DEF ks
<1>4. \A i \in 1..n : i \in 1..L BY <1>1
<1>5. ToSet(ks) \subseteq all BY <1>3, <1>4 DEF ToSet, L
<1>6. \A i, j \in DOMAIN ks : i < j => ks[i] < ks[j] BY <1>3, <1>4 DEF Rising, L
<1>7. ASSUME NEW k \in all \ ToSet(ks)
      PROVE  n < L /\ Len(ks) >= m /\ \A i \in DOMAIN ks : ks[i] < k
  <2>1. PICK i \in 1..L : hits[i].line = k BY DEF L
  <2>2. i \notin 1..n
    <3> SUFFICES ASSUME i \in 1..n PROVE FALSE OBVIOUS
    <3>1. ks[i] = k /\ i \in DOMAIN ks BY <1>3, <2>1
    <3> QED BY <3>1 DEF ToSet
  <2>3. n < i /\ n < L BY <1>1, <2>2
  <2>4. ASSUME NEW j \in DOMAIN ks PROVE ks[j] < k
    <3>1. j \in 1..n /\ j \in 1..L /\ j < i /\ ks[j] = hits[j].line BY <1>1, <1>3, <2>3
    <3>2. hits[j].line < hits[i].line BY <3>1 DEF Rising, L
    <3> QED BY <2>1, <3>1, <3>2
  <2> QED BY <1>1, <1>3, <2>3, <2>4
<1>8. FirstOf(ks, all, m) BY <1>5, <1>6, <1>7 DEF FirstOf
<1>9. L <= m => ToSet(ks) = all
  <2> HAVE L <= m
  <2>1. ~(n < L) BY <1>1
  <2> QED BY <1>5, <1>7, <2>1
<1> QED BY <1>1, <1>2, <1>8, <1>9 DEF ks, cut, n, L

\* A merge is the first of them, at most as many as asked for.
LEMMA MergeIs ==
  ASSUME NEW f \in Content, NEW q \in Query, NEW S, NEW cs \in Seq(S), Parted(f, cs), Numbered(f, cs) \/ Successive(cs)
  PROVE  LET all == {k \in AllHits(f, q) : \E j \in 1..Len(cs) : Within(f, cs[j], k)} IN
         /\ FirstOf(LineOf(Merge(f, cs, q)), all, q.max) /\ Len(Merge(f, cs, q)) <= q.max
         /\ q.max > Len(f) => ToSet(LineOf(Merge(f, cs, q))) = all
<1> DEFINE hits == Joined(f, cs, q).hits
           all == {k \in AllHits(f, q) : \E j \in 1..Len(cs) : Within(f, cs[j], k)}
<1>1. /\ hits \in Seq(HitRec) /\ Rising(hits)
      /\ \A i \in 1..Len(hits) : hits[i].line \in all
      /\ \A k \in all : \E i \in 1..Len(hits) : hits[i].line = k
  BY JoinedAre
<1>2. Merge(f, cs, q) = SubSeq(hits, 1, IF Len(hits) < q.max THEN Len(hits) ELSE q.max) BY DEF Merge, FirstHits
<1>3. \A k \in all : k \in 1..Len(Lines(f))
  <2>1. DOMAIN Lines(f) = 1..Len(Lines(f)) BY LinesType DEF Page
  <2> QED BY <2>1 DEF AllHits
<1> HIDE DEF hits, all
<1>4. q.max \in Nat BY DEF Query
<1>5. /\ FirstOf(LineOf(Merge(f, cs, q)), all, q.max) /\ Len(Merge(f, cs, q)) <= q.max
      /\ Len(hits) <= q.max => ToSet(LineOf(Merge(f, cs, q))) = all
  BY <1>1, <1>2, <1>4, CutFirst
<1>6. Len(hits) <= Len(Lines(f)) - 0
  <2>1. Len(Lines(f)) \in Nat BY LinesType DEF Content
  <2>2. \A i \in 1..Len(hits) : 0 < hits[i].line /\ hits[i].line <= Len(Lines(f)) BY <1>1, <1>3, <2>1
  <2>3. 0 \in Int /\ Len(Lines(f)) \in Int /\ 0 <= Len(Lines(f)) BY <2>1
  <2> QED BY <1>1, <2>2, <2>3, RisingBound
<1>7. q.max > Len(f) => Len(hits) <= q.max
  <2>1. Len(Lines(f)) \in 0..Len(f) /\ Len(f) \in Nat /\ Len(hits) \in Nat BY <1>1, LinesType DEF Content
  <2> QED BY <1>4, <1>6, <2>1
<1> QED BY <1>5, <1>7 DEF all

Chained(cs) == \A i, j \in 1..Len(cs) : (i = 1 => cs[i].start = 0) /\ (j = i + 1 => cs[j].start = cs[i].end)

\* Chunks without numbers follow each other.
LEMMA SuccessiveChained == ASSUME NEW cs, Successive(cs) PROVE Chained(cs)
BY DEF Successive, Chained

\* Chunks that follow each other have every line up to their end.
LEMMA ChainCovers ==
  ASSUME NEW f \in Content, NEW S, NEW cs \in Seq(S), cs # << >>, Parted(f, cs), Chained(cs),
         NEW k \in Nat \ {0}, k <= LinesTo(f, cs[Len(cs)].end)
  PROVE  \E i \in 1..Len(cs) : Within(f, cs[i], k)
<1> DEFINE T == {i \in Nat : i \in 1..Len(cs) /\ k <= LinesTo(f, cs[i].end)}
<1>1. Len(cs) \in Nat \ {0} OBVIOUS
<1>2. Len(cs) \in T BY <1>1
<1>3. PICK i \in T : \A j \in T : i <= j
  <2>1. T \in SUBSET Nat OBVIOUS
  <2> HIDE DEF T
  <2> QED BY <1>2, <2>1, Joining!Smallest
<1>4. i \in 1..Len(cs) /\ i \in Nat /\ k <= LinesTo(f, cs[i].end) OBVIOUS
<1>5. LinesTo(f, cs[i].start) < k
  <2>1. CASE i = 1
    <3>1. cs[i].start = 0 BY <1>4, <2>1 DEF Chained
    <3> QED BY <3>1, LinesToEnds
  <2>2. CASE i # 1
    <3>1. i - 1 \in 1..Len(cs) /\ i - 1 \in Nat /\ i = (i - 1) + 1 /\ ~(i <= i - 1) BY <1>1, <1>4, <2>2
    <3>2. cs[i].start = cs[i - 1].end BY <1>4, <3>1 DEF Chained
    <3>3. i - 1 \notin T BY <1>3, <3>1
    <3>4. ~(k <= LinesTo(f, cs[i - 1].end)) BY <3>1, <3>3
    <3>5. LinesTo(f, cs[i].start) \in Nat
      <4>1. Edge(f, cs[i].start) /\ Edge(f, cs[i].end) /\ cs[i].start <= cs[i].end BY <1>4 DEF Parted
      <4> QED BY <4>1, LinesBetween
    <3> QED BY <3>2, <3>4, <3>5
  <2> QED BY <2>1, <2>2
<1> QED BY <1>4, <1>5 DEF Within

\* A chunk that starts where the last one ends keeps chunks apart and chained.
LEMMA PartedAppend ==
  ASSUME NEW f \in Content, NEW S, NEW cs \in Seq(S), NEW c \in S, Parted(f, cs), Chained(cs),
         Edge(f, c.start), Edge(f, c.end), c.start <= c.end,
         c.start = IF cs = << >> THEN 0 ELSE cs[Len(cs)].end
  PROVE  Parted(f, Append(cs, c)) /\ Chained(Append(cs, c))
<1> DEFINE t == Append(cs, c)
           n == Len(cs)
<1>1. n \in Nat /\ Len(t) = n + 1 /\ (\A i \in 1..n : t[i] = cs[i]) /\ t[n + 1] = c
      /\ (\A i \in 1..(n + 1) : i \in 1..n \/ i = n + 1) /\ (n = 0 <=> cs = << >>)
  OBVIOUS
<1>2. \A i \in 1..n : Edge(f, cs[i].start) /\ Edge(f, cs[i].end) /\ cs[i].start <= cs[i].end
      /\ cs[i].start \in Nat /\ cs[i].end \in Nat
  <2>1. \A a : Edge(f, a) => a \in Nat BY DEF Edge, Content
  <2> QED BY <2>1 DEF Parted, n
<1>3. \A i, j \in 1..n : i < j => cs[i].end <= cs[j].start BY DEF Parted, n
<1>4. c.start = IF n = 0 THEN 0 ELSE cs[n].end BY <1>1
<1> HIDE DEF t, n
<1>5. ASSUME NEW i \in 1..n PROVE cs[i].end <= c.start
  <2>1. n \in 1..n /\ c.start = cs[n].end BY <1>1, <1>4
  <2>2. CASE i = n BY <1>2, <2>1, <2>2
  <2>3. CASE i # n
    <3>1. i < n BY <1>1, <2>3
    <3>2. cs[i].end <= cs[n].start BY <1>3, <2>1, <3>1
    <3> QED BY <1>2, <2>1, <3>2
  <2> QED BY <2>2, <2>3
<1>6. \A i \in 1..Len(t) : Edge(f, t[i].start) /\ Edge(f, t[i].end) /\ t[i].start <= t[i].end BY <1>1, <1>2
<1>7. ASSUME NEW i \in 1..Len(t), NEW j \in 1..Len(t), i < j PROVE t[i].end <= t[j].start
  <2>1. i \in 1..n BY <1>1, <1>7
  <2>2. CASE j \in 1..n BY <1>1, <1>3, <1>7, <2>1, <2>2
  <2>3. CASE j = n + 1 BY <1>1, <1>5, <2>1, <2>3
  <2> QED BY <1>1, <2>2, <2>3
<1>8. ASSUME NEW i \in 1..Len(t), NEW j \in 1..Len(t)
      PROVE  (i = 1 => t[i].start = 0) /\ (j = i + 1 => t[j].start = t[i].end)
  <2>1. i = 1 => t[i].start = 0
    <3>1. CASE i \in 1..n BY <1>1, <3>1 DEF Chained, n
    <3>2. CASE i = n + 1 BY <1>1, <1>4, <3>2
    <3> QED BY <1>1, <3>1, <3>2
  <2>2. ASSUME j = i + 1 PROVE t[j].start = t[i].end
    <3>1. i \in 1..n BY <1>1, <2>2
    <3>2. CASE j \in 1..n BY <1>1, <2>2, <3>1, <3>2 DEF Chained, n
    <3>3. CASE j = n + 1
      <4>1. i = n /\ n # 0 BY <1>1, <2>2, <3>1, <3>3
      <4> QED BY <1>1, <1>4, <3>1, <3>3, <4>1
    <3> QED BY <1>1, <3>2, <3>3
  <2> QED BY <2>1, <2>2
<1> QED BY <1>6, <1>7, <1>8 DEF Parted, Chained, t

\* The next line is after the first line's end from an offset on, or at the end of the file.
LEMMA NextLineIs ==
  ASSUME NEW f \in Content, NEW off \in 0..Len(f)
  PROVE  /\ NextLine(f, off) \in off..Len(f) /\ Edge(f, NextLine(f, off))
         /\ \A i \in (off + 1)..Len(f) : f[i] = NL => NextLine(f, off) <= i
         /\ NextLine(f, off) = Len(f) \/ (NextLine(f, off) \in (off + 1)..Len(f) /\ f[NextLine(f, off)] = NL)
<1> DEFINE ends == {i \in (off + 1)..Len(f) : f[i] = NL}
<1>1. Len(f) \in Nat BY DEF Content
<1>2. CASE ends = {}
  <2>1. NextLine(f, off) = Len(f) BY <1>2 DEF NextLine
  <2>2. Edge(f, Len(f)) BY <1>1 DEF Edge
  <2> QED BY <1>1, <1>2, <2>1, <2>2
<1>3. CASE ends # {}
  <2> DEFINE m == CHOOSE i \in ends : \A j \in ends : i <= j
  <2>1. \E i \in ends : \A j \in ends : i <= j
    <3>1. ends \in SUBSET Nat BY <1>1
    <3> HIDE DEF ends
    <3> QED BY <1>3, <3>1, Joining!Smallest
  <2>2. m \in ends /\ \A j \in ends : m <= j
    <3> HIDE DEF ends
    <3> QED BY <2>1
  <2>3. NextLine(f, off) = m BY <1>3 DEF NextLine
  <2> HIDE DEF m
  <2>4. m \in (off + 1)..Len(f) /\ f[m] = NL /\ \A j \in (off + 1)..Len(f) : f[j] = NL => m <= j BY <2>2
  <2>5. Edge(f, m) BY <1>1, <2>4 DEF Edge
  <2>6. m \in off..Len(f) BY <1>1, <2>4
  <2> QED BY <2>3, <2>4, <2>5, <2>6
<1> QED BY <1>2, <1>3

\* The next line from a later offset is no earlier.
LEMMA NextLineMonotone ==
  ASSUME NEW f \in Content, NEW a \in 0..Len(f), NEW b \in a..Len(f)
  PROVE  NextLine(f, a) <= NextLine(f, b)
<1> DEFINE x == NextLine(f, a)
           y == NextLine(f, b)
<1>1. Len(f) \in Nat /\ a \in Nat /\ b \in 0..Len(f) BY DEF Content
<1> SUFFICES x <= y OBVIOUS
<1>2. x \in a..Len(f) /\ \A i \in (a + 1)..Len(f) : f[i] = NL => x <= i BY NextLineIs
<1>3. y = Len(f) \/ (y \in (b + 1)..Len(f) /\ f[y] = NL) BY <1>1, NextLineIs
<1> HIDE DEF x, y
<1>4. CASE y = Len(f)
  <2>1. x <= Len(f) BY <1>1, <1>2
  <2> QED BY <1>4, <2>1
<1>5. CASE y \in (b + 1)..Len(f) /\ f[y] = NL
  <2>1. y \in (a + 1)..Len(f) BY <1>1, <1>5
  <2> QED BY <1>2, <1>5, <2>1
<1> QED BY <1>3, <1>4, <1>5

\* The borders of the parts are edges in their order, from the start of the file to its end.
LEMMA BorderIs ==
  ASSUME NEW f \in Content, NEW n \in Nat \ {0}, NEW i \in 1..n
  PROVE  /\ Edge(f, Border(f, n, i - 1)) /\ Edge(f, Border(f, n, i)) /\ Border(f, n, i - 1) <= Border(f, n, i)
         /\ Border(f, n, 0) = 0 /\ Border(f, n, n) = Len(f)
<1> DEFINE size == Len(f) \div n
           low == (i - 1) * size
           high == i * size
<1>1. Len(f) \in Nat /\ size \in Nat BY DEF Content
<1> HIDE DEF size
<1>2. low \in Nat /\ high \in Nat /\ low <= high BY <1>1
<1>3. Edge(f, 0) /\ Edge(f, Len(f)) BY <1>1 DEF Edge
<1>4. Border(f, n, i - 1) = IF i - 1 = 0 THEN 0 ELSE IF i - 1 = n \/ low >= Len(f) THEN Len(f) ELSE NextLine(f, low)
  BY DEF Border, size
<1>5. Border(f, n, i) = IF i = 0 THEN 0 ELSE IF i = n \/ high >= Len(f) THEN Len(f) ELSE NextLine(f, high)
  BY DEF Border, size
<1>6. Border(f, n, 0) = 0 /\ Border(f, n, n) = Len(f) BY DEF Border
<1> HIDE DEF low, high
<1>7. low < Len(f) => low \in 0..Len(f) /\ NextLine(f, low) \in low..Len(f) /\ Edge(f, NextLine(f, low))
  <2> HAVE low < Len(f)
  <2>1. low \in 0..Len(f) BY <1>1, <1>2
  <2> QED BY <2>1, NextLineIs
<1>8. high < Len(f) => high \in low..Len(f) /\ NextLine(f, high) \in high..Len(f) /\ Edge(f, NextLine(f, high))
  <2> HAVE high < Len(f)
  <2>1. high \in 0..Len(f) /\ high \in low..Len(f) BY <1>1, <1>2
  <2> QED BY <2>1, NextLineIs
<1>9. Edge(f, Border(f, n, i - 1)) /\ Border(f, n, i - 1) <= Len(f)
  <2>1. CASE i - 1 = 0 BY <1>1, <1>3, <1>4, <2>1
  <2>2. CASE i - 1 # 0 /\ low >= Len(f) BY <1>1, <1>3, <1>4, <2>2
  <2>3. CASE i - 1 # 0 /\ ~(low >= Len(f)) BY <1>1, <1>2, <1>4, <1>7, <2>3
  <2> QED BY <2>1, <2>2, <2>3
<1>10. CASE i = n \/ high >= Len(f)
  <2>1. Border(f, n, i) = Len(f) BY <1>5, <1>10
  <2> QED BY <1>3, <1>6, <1>9, <2>1
<1>11. CASE i # n /\ ~(high >= Len(f))
  <2>1. high < Len(f) /\ low < Len(f) BY <1>1, <1>2, <1>11
  <2>2. Border(f, n, i) = NextLine(f, high) /\ Edge(f, NextLine(f, high)) BY <1>5, <1>8, <1>11, <2>1
  <2>3. CASE i - 1 = 0
    <3>1. Border(f, n, i - 1) = 0 BY <1>4, <2>3
    <3>2. 0 <= NextLine(f, high) BY <1>1, <1>2, <1>8, <2>1
    <3> QED BY <1>6, <1>9, <2>2, <3>1, <3>2
  <2>4. CASE i - 1 # 0
    <3>1. i - 1 # n /\ ~(low >= Len(f)) BY <1>1, <1>2, <2>1
    <3>3. Border(f, n, i - 1) = NextLine(f, low) BY <1>4, <2>4, <3>1
    <3>2. NextLine(f, low) <= NextLine(f, high) BY <1>7, <1>8, <2>1, NextLineMonotone
    <3> QED BY <1>6, <1>9, <2>2, <3>3, <3>2
  <2> QED BY <2>3, <2>4
<1> QED BY <1>10, <1>11

Piece == [start : Nat, end : Nat, line : {0}]

AddsChunk(env, chunks, i) == AddChunk(env.f, env.n, chunks, i)
ChunksAre(env, is, chunks) ==
  Len(is) <= env.n /\ (\A i \in 1..Len(is) : is[i] = i) =>
    /\ chunks \in Seq(Piece) /\ Parted(env.f, chunks) /\ Chained(chunks)
    /\ Border(env.f, env.n, Len(is)) = IF chunks = << >> THEN 0 ELSE chunks[Len(chunks)].end

Adding == INSTANCE Folding WITH op <- AddsChunk, Inv <- ChunksAre

\* The parts of a file are computed by a fold.
LEMMA ChunksAreFold ==
  ASSUME NEW f, NEW n
  PROVE  CalculateFileChunks(f, n) = Adding!Fold([f |-> f, n |-> n], << >>, [i \in 1..n |-> i])
BY DEF CalculateFileChunks, Adding!Fold, Adding!Folds, Adding!Top, AddsChunk, FoldLeft, MapThenFoldSet, Max

Splitting == [f : Content, n : Nat \ {0}]

\* What is claimed of the parts stands with one part more.
LEMMA AddOne ==
  ASSUME NEW env \in Splitting, NEW is \in Seq(Nat), NEW i \in Nat, NEW chunks, ChunksAre(env, is, chunks)
  PROVE  ChunksAre(env, Append(is, i), AddsChunk(env, chunks, i))
<1> DEFINE f == env.f
           n == env.n
           t == Append(is, i)
           new == AddsChunk(env, chunks, i)
           m == Len(is)
<1>1. f \in Content /\ n \in Nat \ {0} BY DEF Splitting
<1>2. m \in Nat /\ Len(t) = m + 1 /\ (\A j \in 1..m : t[j] = is[j] /\ j \in 1..(m + 1)) /\ t[m + 1] = i /\ m + 1 \in 1..(m + 1)
  OBVIOUS
<1> HIDE DEF f, n, t, new, m
<1> SUFFICES ASSUME m + 1 <= n, \A j \in 1..(m + 1) : t[j] = j
             PROVE  /\ new \in Seq(Piece) /\ Parted(f, new) /\ Chained(new)
                    /\ Border(f, n, m + 1) = IF new = << >> THEN 0 ELSE new[Len(new)].end
  BY <1>2 DEF ChunksAre, f, n, t, new
<1>3. i = m + 1 /\ i \in 1..n /\ i - 1 = m BY <1>1, <1>2
<1>4. /\ chunks \in Seq(Piece) /\ Parted(f, chunks) /\ Chained(chunks)
      /\ Border(f, n, m) = IF chunks = << >> THEN 0 ELSE chunks[Len(chunks)].end
  <2>1. m <= n BY <1>1, <1>2
  <2>2. \A j \in 1..m : is[j] = j BY <1>2
  <2> QED BY <2>1, <2>2 DEF ChunksAre, f, n, m
<1> DEFINE a == Border(f, n, m)
           b == Border(f, n, m + 1)
           c == [start |-> a, end |-> b, line |-> 0]
<1>5. Edge(f, a) /\ Edge(f, b) /\ a <= b BY <1>1, <1>3, BorderIs
<1>6. a \in Nat /\ b \in Nat
  <2>1. \A x : Edge(f, x) => x \in Nat BY <1>1 DEF Edge, Content
  <2> QED BY <1>5, <2>1
<1>7. new = IF c.start < c.end THEN Append(chunks, c) ELSE chunks BY <1>3 DEF AddsChunk, AddChunk, new, f, n
<1> HIDE DEF a, b
<1>8. CASE a < b
  <2>1. new = Append(chunks, c) BY <1>7, <1>8
  <2>2. c \in Piece /\ c.start = a /\ c.end = b BY <1>6 DEF Piece
  <2> HIDE DEF c
  <2>3. Parted(f, new) /\ Chained(new) BY <1>1, <1>4, <1>5, <2>1, <2>2, PartedAppend DEF a
  <2>4. new \in Seq(Piece) /\ new # << >> /\ new[Len(new)] = c BY <1>4, <2>1, <2>2
  <2> QED BY <2>2, <2>3, <2>4 DEF b
<1>9. CASE ~(a < b)
  <2>1. new = chunks /\ a = b BY <1>5, <1>6, <1>7, <1>9
  <2> QED BY <1>4, <2>1 DEF a, b
<1> QED BY <1>8, <1>9

\* The parts of a file follow each other and have all its lines.
LEMMA ChunksCover ==
  ASSUME NEW f \in Content, NEW n \in Nat \ {0}
  PROVE  LET cs == CalculateFileChunks(f, n) IN
         /\ cs \in Seq(Piece) /\ Parted(f, cs) /\ Successive(cs)
         /\ \A k \in 1..Len(Lines(f)) : \E i \in 1..Len(cs) : Within(f, cs[i], k)
<1> DEFINE env == [f |-> f, n |-> n]
           is == [i \in 1..n |-> i]
           cs == CalculateFileChunks(f, n)
<1>1. env \in Splitting /\ env.f = f /\ env.n = n BY DEF Splitting
<1>2. is \in Seq(Nat) /\ Len(is) = n /\ \A i \in 1..n : is[i] = i
  <2>1. is \in [1..n -> Nat] OBVIOUS
  <2>2. is \in Seq(Nat) /\ Len(is) = n BY <2>1
  <2> QED BY <2>2
<1> HIDE DEF env, is
<1>3. ChunksAre(env, << >>, << >>)
  <2>1. << >> \in Seq(Piece) /\ Parted(f, << >>) /\ Chained(<< >>) /\ Len(<< >>) = 0 BY DEF Parted, Chained
  <2>2. Border(f, n, 0) = 0 BY DEF Border
  <2> QED BY <1>1, <2>1, <2>2 DEF ChunksAre
<1>4. \A s \in Seq(Nat), i \in Nat : \A acc : ChunksAre(env, s, acc) => ChunksAre(env, Append(s, i), AddsChunk(env, acc, i))
  BY <1>1, AddOne
<1>5. ChunksAre(env, is, Adding!Fold(env, << >>, is)) BY <1>2, <1>3, <1>4, Adding!FoldKeeps
<1>6. ChunksAre(env, is, cs) BY <1>5, ChunksAreFold DEF env, is
<1> HIDE DEF cs
<1>7. /\ cs \in Seq(Piece) /\ Parted(f, cs) /\ Chained(cs)
      /\ Border(f, n, n) = IF cs = << >> THEN 0 ELSE cs[Len(cs)].end
  BY <1>1, <1>2, <1>6 DEF ChunksAre
<1>8. Len(f) = IF cs = << >> THEN 0 ELSE cs[Len(cs)].end
  <2>1. Border(f, n, n) = Len(f) BY DEF Border
  <2> QED BY <1>7, <2>1
<1>9. Successive(cs)
  <2>1. \A i \in 1..Len(cs) : cs[i].line = 0
    <3>1. \A c \in Piece : c.line = 0 BY DEF Piece
    <3> QED BY <1>7, <3>1
  <2>2. \A i, j \in 1..Len(cs) : (i = 1 => cs[i].start = 0) /\ (j = i + 1 => cs[j].start = cs[i].end) BY <1>7 DEF Chained
  <2>3. \A i \in 1..Len(cs) : i = 1 => cs[i].start = 0 BY <2>2
  <2> QED BY <2>1, <2>2, <2>3 DEF Successive
<1>10. ASSUME NEW k \in 1..Len(Lines(f)) PROVE \E i \in 1..Len(cs) : Within(f, cs[i], k)
  <2>1. Len(Lines(f)) \in 0..Len(f) /\ Len(f) \in Nat BY LinesType DEF Content
  <2>2. cs # << >>
    <3> SUFFICES ASSUME cs = << >> PROVE FALSE OBVIOUS
    <3>1. Len(f) = 0 BY <1>8
    <3> QED BY <2>1, <3>1
  <2>3. LinesTo(f, cs[Len(cs)].end) = Len(Lines(f)) BY <1>8, <2>2, LinesToEnds
  <2>4. k \in Nat \ {0} /\ k <= LinesTo(f, cs[Len(cs)].end) BY <2>1, <2>3
  <2> QED BY <1>7, <2>2, <2>4, ChainCovers
<1> QED BY <1>7, <1>9, <1>10 DEF cs

\* A search in parts finds the first matches of the file.
LEMMA ChunksSearch ==
  ASSUME NEW f \in Content, NEW q \in Query, NEW n \in Nat \ {0}
  PROVE  LET hits == Merge(f, CalculateFileChunks(f, n), q) IN
         FirstOf(LineOf(hits), AllHits(f, q), q.max) /\ Len(hits) <= q.max
<1> DEFINE cs == CalculateFileChunks(f, n)
           all == {k \in AllHits(f, q) : \E j \in 1..Len(cs) : Within(f, cs[j], k)}
<1>1. /\ cs \in Seq(Piece) /\ Parted(f, cs) /\ Successive(cs)
      /\ \A k \in 1..Len(Lines(f)) : \E i \in 1..Len(cs) : Within(f, cs[i], k)
  BY ChunksCover
<1>2. \A k \in AllHits(f, q) : k \in 1..Len(Lines(f))
  <2>1. DOMAIN Lines(f) = 1..Len(Lines(f)) BY LinesType DEF Page
  <2> QED BY <2>1 DEF AllHits
<1> HIDE DEF cs
<1>3. all = AllHits(f, q) BY <1>1, <1>2
<1>4. FirstOf(LineOf(Merge(f, cs, q)), all, q.max) /\ Len(Merge(f, cs, q)) <= q.max BY ZenonT(60), <1>1, MergeIs
<1> QED BY <1>3, <1>4 DEF cs

(* The chunks of the Bloom index *)

Part == [start : Nat, end : Nat, line : Nat, filter : SUBSET Content]

\* Chunks whose borders stay borders when the file grows.
Settled(f, cs) == \A i \in 1..Len(cs) : Start(f, cs[i].start) /\ Start(f, cs[i].end)

\* Tokens are texts.
LEMMA TokensType == ASSUME NEW s \in Content PROVE Tokens(s) \in SUBSET Content
<1> DEFINE places == {q \in (1..Len(s)) \X (1..Len(s)) :
        /\ q[2] > q[1]
        /\ \A x \in q[1]..q[2] : s[x] \in TokenChars
        /\ q[1] > 1 => s[q[1] - 1] \notin TokenChars
        /\ q[2] < Len(s) => s[q[2] + 1] \notin TokenChars}
<1>1. Tokens(s) = {SubSeq(s, p[1], p[2]) : p \in places} BY DEF Tokens
<1>2. ASSUME NEW a \in 1..Len(s), NEW b \in 1..Len(s) PROVE SubSeq(s, a, b) \in Content
  <2>1. a \in Int /\ b \in Int /\ Len(s) \in Nat BY DEF Content
  <2>2. \A i \in a..b : s[i] \in Chars BY <2>1 DEF Content
  <2> QED BY <2>1, <2>2, SubSeqProperties DEF Content
<1>3. \A p \in places : p[1] \in 1..Len(s) /\ p[2] \in 1..Len(s) OBVIOUS
<1> HIDE DEF places
<1> QED BY <1>1, <1>2, <1>3

\* A chunk after all others keeps chunks apart.
LEMMA PartedNext ==
  ASSUME NEW f, NEW S, NEW cs \in Seq(S), NEW c \in S, Parted(f, cs), \A i \in 1..Len(cs) : cs[i].end <= c.start,
         Edge(f, c.start), Edge(f, c.end), c.start <= c.end
  PROVE  Parted(f, Append(cs, c))
<1> DEFINE t == Append(cs, c)
           n == Len(cs)
<1>1. n \in Nat /\ Len(t) = n + 1 /\ (\A i \in 1..n : t[i] = cs[i]) /\ t[n + 1] = c OBVIOUS
<1> HIDE DEF t
<1>2. \A i \in 1..n : Edge(f, cs[i].start) /\ Edge(f, cs[i].end) /\ cs[i].start <= cs[i].end BY DEF Parted
<1>3. \A i, j \in 1..n : i < j => cs[i].end <= cs[j].start BY DEF Parted
<1> SUFFICES Parted(f, t) BY DEF t
<1>4. \A i \in 1..n : cs[i].end <= c.start OBVIOUS
<1> HIDE DEF n
<1>5. \A i \in 1..(n + 1) : i \in 1..n \/ i = n + 1 BY <1>1
<1>6. ASSUME NEW i \in 1..(n + 1) PROVE Edge(f, t[i].start) /\ Edge(f, t[i].end) /\ t[i].start <= t[i].end
  BY <1>1, <1>2, <1>5
<1>7. ASSUME NEW i \in 1..(n + 1), NEW j \in 1..(n + 1), i < j PROVE t[i].end <= t[j].start
  <2>1. i \in 1..n /\ t[i] = cs[i] BY <1>1, <1>7
  <2>2. CASE j \in 1..n BY <1>1, <1>3, <1>7, <2>1, <2>2
  <2>3. CASE j = n + 1 BY <1>1, <1>4, <2>1, <2>3
  <2> QED BY <1>5, <2>2, <2>3
<1> QED BY <1>1, <1>6, <1>7 DEF Parted

\* A chunk with the number of its first line keeps chunks numbered.
LEMMA NumberedNext ==
  ASSUME NEW f, NEW S, NEW cs \in Seq(S), NEW c \in S, Numbered(f, cs), c.line = LinesTo(f, c.start) + 1
  PROVE  Numbered(f, Append(cs, c))
<1> DEFINE t == Append(cs, c)
           n == Len(cs)
<1>1. n \in Nat /\ Len(t) = n + 1 /\ (\A i \in 1..n : t[i] = cs[i]) /\ t[n + 1] = c OBVIOUS
<1> HIDE DEF t
<1>2. \A i \in 1..n : cs[i].line = LinesTo(f, cs[i].start) + 1 BY DEF Numbered
<1>3. \A i \in 1..(n + 1) : i \in 1..n \/ i = n + 1 BY <1>1
<1> HIDE DEF n
<1>4. \A i \in 1..(n + 1) : t[i].line = LinesTo(f, t[i].start) + 1 BY <1>1, <1>2, <1>3
<1> SUFFICES Numbered(f, t) BY DEF t
<1> QED BY <1>1, <1>4 DEF Numbered

\* A chunk between lines' ends keeps chunks settled.
LEMMA SettledNext ==
  ASSUME NEW f, NEW S, NEW cs \in Seq(S), NEW c \in S, Settled(f, cs), Start(f, c.start), Start(f, c.end)
  PROVE  Settled(f, Append(cs, c))
<1> DEFINE t == Append(cs, c)
           n == Len(cs)
<1>1. n \in Nat /\ Len(t) = n + 1 /\ (\A i \in 1..n : t[i] = cs[i]) /\ t[n + 1] = c OBVIOUS
<1> HIDE DEF t
<1>2. \A i \in 1..n : Start(f, cs[i].start) /\ Start(f, cs[i].end) BY DEF Settled
<1>3. \A i \in 1..(n + 1) : i \in 1..n \/ i = n + 1 BY <1>1
<1> HIDE DEF n
<1>4. \A i \in 1..(n + 1) : Start(f, t[i].start) /\ Start(f, t[i].end) BY <1>1, <1>2, <1>3
<1> SUFFICES Settled(f, t) BY DEF t
<1> QED BY <1>1, <1>4 DEF Settled

\* Settled chunks stay where they are when the file grows.
LEMMA SettledStays ==
  ASSUME NEW f \in Content, NEW c \in Chars, NEW cs, Settled(f, cs), Parted(f, cs), Numbered(f, cs)
  PROVE  Settled(Append(f, c), cs) /\ Parted(Append(f, c), cs) /\ Numbered(Append(f, c), cs)
<1> DEFINE g == Append(f, c)
           N == Len(cs)
<1>1. ASSUME NEW a, Start(f, a) PROVE Start(g, a) /\ Edge(g, a) /\ LinesTo(g, a) = LinesTo(f, a)
  <2>1. a \in 0..Len(f) BY <1>1 DEF Start
  <2> QED BY <1>1, <2>1, StartStays, StartIsEdge
<1> HIDE DEF g, N
<1>2. \A i \in 1..N : Start(f, cs[i].start) /\ Start(f, cs[i].end) BY DEF Settled, N
<1>3. \A i \in 1..N : cs[i].start <= cs[i].end BY DEF Parted, N
<1>4. \A i, j \in 1..N : i < j => cs[i].end <= cs[j].start BY DEF Parted, N
<1>5. \A i \in 1..N : cs[i].line = LinesTo(f, cs[i].start) + 1 BY DEF Numbered, N
<1>6. Settled(g, cs) BY <1>1, <1>2 DEF Settled, N
<1>7. Parted(g, cs)
  <2>1. \A i \in 1..N : Edge(g, cs[i].start) /\ Edge(g, cs[i].end) /\ cs[i].start <= cs[i].end BY <1>1, <1>2, <1>3
  <2> QED BY <1>4, <2>1 DEF Parted, N
<1>8. Numbered(g, cs)
  <2>1. \A i \in 1..N : cs[i].line = LinesTo(g, cs[i].start) + 1 BY <1>1, <1>2, <1>5
  <2> QED BY <2>1 DEF Numbered, N
<1> QED BY <1>6, <1>7, <1>8 DEF g

Indexer == [chunks : Seq(Part), start : Nat, line : Nat, count : Nat, filter : SUBSET Content, part : Content, off : Nat]

\* The chunks and the lines after them.
BloomShape(g, acc) ==
  /\ Settled(g, acc.chunks) /\ Parted(g, acc.chunks) /\ Numbered(g, acc.chunks) /\ Chained(acc.chunks)
  /\ Start(g, acc.start) /\ acc.start = IF acc.chunks = << >> THEN 0 ELSE acc.chunks[Len(acc.chunks)].end
  /\ acc.line = LinesTo(g, acc.start) + 1
  /\ acc.line - 1 + acc.count = Len(Taken(g).lines)

\* A text read in one piece: every filter has the tokens of the ended lines of its chunk.
BloomHolds(g, acc) ==
  /\ acc.part = Taken(g).rest
  /\ \A i \in 1..Len(acc.chunks), k \in 1..Len(Taken(g).lines) :
       Within(g, acc.chunks[i], k) => Tokens(Taken(g).lines[k]) \subseteq acc.chunks[i].filter
  /\ \A k \in 1..Len(Taken(g).lines) : acc.line <= k => Tokens(Taken(g).lines[k]) \subseteq acc.filter

Reader == [buf : Nat \ {0}, lines : Nat \ {0}]

BloomIs(env, g, acc) ==
  /\ acc \in Indexer /\ acc.off = Len(g) /\ BloomShape(g, acc)
  /\ env.buf > Len(g) => BloomHolds(g, acc)

FeedsOn(env, acc, c) == Feed(env.buf, env.lines, acc, c)

Indexing == INSTANCE Folding WITH op <- FeedsOn, Inv <- BloomIs

NewIndexer == [chunks |-> << >>, start |-> 0, line |-> 1, count |-> 0, filter |-> {}, part |-> << >>, off |-> 0]

\* The Bloom index is built by a fold.
LEMMA IndexIsFold ==
  ASSUME NEW f, NEW buf, NEW per
  PROVE  FedIndex(f, buf, per) = Indexing!Fold([buf |-> buf, lines |-> per], NewIndexer, f)
BY DEF FedIndex, NewIndexer, Indexing!Fold, Indexing!Folds, Indexing!Top, FeedsOn, FoldLeft, MapThenFoldSet, Max

\* Ranges of what the index is described with.
LEMMA StartsType ==
  ASSUME NEW g \in Content
  PROVE  /\ Len(g) \in Nat /\ Len(Taken(g).lines) \in Nat /\ Taken(g).lines \in Seq(Content) /\ Taken(g).rest \in Content
         /\ \A a : Start(g, a) => a \in 0..Len(g) /\ LinesTo(g, a) \in Nat
<1>1. Len(g) \in Nat BY DEF Content
<1>2. Taken(g).lines \in Seq(Content) /\ Taken(g).rest \in Content BY TakenType DEF Page
<1>3. ASSUME NEW a, Start(g, a) PROVE a \in 0..Len(g) /\ LinesTo(g, a) \in Nat
  <2>1. a \in 0..Len(g) BY <1>3 DEF Start
  <2>2. Edge(g, a) /\ Edge(g, Len(g)) /\ a <= Len(g) BY <1>1, <1>3, <2>1, StartIsEdge DEF Edge
  <2> QED BY <2>1, <2>2, LinesBetween
<1> QED BY <1>1, <1>2, <1>3

\* The shape stands when a character is read that ends no chunk.
LEMMA ShapeStays ==
  ASSUME NEW g \in Content, NEW c \in Chars, NEW acc \in Indexer, BloomShape(g, acc), NEW new \in Indexer,
         new.chunks = acc.chunks, new.start = acc.start, new.line = acc.line,
         new.count = IF c = NL THEN acc.count + 1 ELSE acc.count
  PROVE  BloomShape(Append(g, c), new)
<1> DEFINE t == Append(g, c)
<1>1. /\ Settled(g, acc.chunks) /\ Parted(g, acc.chunks) /\ Numbered(g, acc.chunks) /\ Chained(acc.chunks)
      /\ Start(g, acc.start) /\ acc.start = IF acc.chunks = << >> THEN 0 ELSE acc.chunks[Len(acc.chunks)].end
      /\ acc.line = LinesTo(g, acc.start) + 1 /\ acc.line - 1 + acc.count = Len(Taken(g).lines)
  BY DEF BloomShape
<1>2. Settled(t, acc.chunks) /\ Parted(t, acc.chunks) /\ Numbered(t, acc.chunks) BY <1>1, SettledStays
<1>3. Start(t, acc.start) /\ LinesTo(t, acc.start) = LinesTo(g, acc.start)
  <2>1. acc.start \in 0..Len(g) BY <1>1 DEF Start
  <2> QED BY <1>1, <2>1, StartStays
<1>4. Len(Taken(t).lines) = IF c = NL THEN Len(Taken(g).lines) + 1 ELSE Len(Taken(g).lines)
  <2>1. CASE c = NL
    <3>1. Taken(t).lines = Append(Taken(g).lines, Taken(g).rest) BY <2>1, LineEnds
    <3> QED BY <2>1, <3>1, StartsType
  <2>2. CASE c # NL
    <3>1. Taken(t).lines = Taken(g).lines BY <2>2, LineEnds
    <3> QED BY <2>2, <3>1
  <2> QED BY <2>1, <2>2
<1>5. acc.line \in Nat /\ acc.count \in Nat /\ Len(Taken(g).lines) \in Nat BY StartsType DEF Indexer
<1> HIDE DEF t
<1>6. new.line - 1 + new.count = Len(Taken(t).lines) BY SMTT(40), <1>1, <1>4, <1>5
<1>7. BloomShape(t, new) BY <1>1, <1>2, <1>3, <1>6 DEF BloomShape
<1> QED BY <1>7 DEF t

\* The same with a chunk ended.
LEMMA ShapeCut ==
  ASSUME NEW g \in Content, NEW acc \in Indexer, BloomShape(g, acc), NEW new \in Indexer, NEW filter \in SUBSET Content,
         new.chunks = Append(acc.chunks, [start |-> acc.start, end |-> Len(g) + 1, line |-> acc.line, filter |-> filter]),
         new.start = Len(g) + 1, new.line = acc.line + acc.count + 1, new.count = 0
  PROVE  BloomShape(Append(g, NL), new)
<1> DEFINE t == Append(g, NL)
           c == [start |-> acc.start, end |-> Len(g) + 1, line |-> acc.line, filter |-> filter]
           n == Len(Taken(g).lines)
<1>1. /\ Settled(g, acc.chunks) /\ Parted(g, acc.chunks) /\ Numbered(g, acc.chunks) /\ Chained(acc.chunks)
      /\ Start(g, acc.start) /\ acc.start = IF acc.chunks = << >> THEN 0 ELSE acc.chunks[Len(acc.chunks)].end
      /\ acc.line = LinesTo(g, acc.start) + 1 /\ acc.line - 1 + acc.count = n
  BY DEF BloomShape
<1>2. NL \in Chars BY DEF Chars
<1>3. Settled(t, acc.chunks) /\ Parted(t, acc.chunks) /\ Numbered(t, acc.chunks) BY <1>1, <1>2, SettledStays
<1>4. acc.start \in 0..Len(g) /\ Start(t, acc.start) /\ LinesTo(t, acc.start) = LinesTo(g, acc.start)
  <2>1. acc.start \in 0..Len(g) BY <1>1 DEF Start
  <2> QED BY <1>1, <1>2, <2>1, StartStays
<1>5. /\ Taken(t).lines = Append(Taken(g).lines, Taken(g).rest) /\ Start(t, Len(g) + 1)
      /\ LinesTo(t, Len(g) + 1) = n + 1
  BY <1>2, LineEnds
<1>6. n \in Nat /\ Len(g) \in Nat /\ Taken(g).lines \in Seq(Content) /\ Taken(g).rest \in Content BY StartsType
<1>7. Len(Taken(t).lines) = n + 1 BY <1>5, <1>6
<1>8. acc.chunks \in Seq(Part) /\ acc.line \in Nat /\ acc.count \in Nat /\ acc.start \in Nat BY DEF Indexer
<1>9. c \in Part /\ c.start = acc.start /\ c.end = Len(g) + 1 /\ c.line = acc.line BY <1>6, <1>8 DEF Part
<1>10. new.chunks = Append(acc.chunks, c) OBVIOUS
<1>11. Edge(t, acc.start) /\ Edge(t, Len(g) + 1) /\ acc.start <= Len(g) + 1 BY <1>4, <1>5, <1>6, StartIsEdge
<1>12. t \in Content BY <1>2 DEF Content
<1> HIDE DEF t, c, n
<1>13. Parted(t, new.chunks) /\ Chained(new.chunks) BY <1>1, <1>3, <1>8, <1>9, <1>10, <1>11, <1>12, PartedAppend
<1>14. Numbered(t, new.chunks) BY <1>1, <1>3, <1>4, <1>8, <1>9, <1>10, NumberedNext
<1>15. Settled(t, new.chunks) BY <1>3, <1>4, <1>5, <1>8, <1>9, <1>10, SettledNext
<1>16. new.chunks # << >> /\ new.chunks[Len(new.chunks)] = c BY SMTT(40), <1>8, <1>9, <1>10
<1>17. new.line = LinesTo(t, new.start) + 1 /\ new.line - 1 + new.count = Len(Taken(t).lines)
  BY <1>1, <1>5, <1>6, <1>7, <1>8
<1>18. Start(t, new.start) /\ new.start = IF new.chunks = << >> THEN 0 ELSE new.chunks[Len(new.chunks)].end
  BY <1>5, <1>9, <1>16
<1>19. BloomShape(t, new) BY <1>13, <1>14, <1>15, <1>17, <1>18 DEF BloomShape
<1> QED BY <1>19 DEF t

\* Every chunk ends at or before the lines that are in none yet.
LEMMA EndsBelow ==
  ASSUME NEW g \in Content, NEW acc \in Indexer, BloomShape(g, acc), NEW i \in 1..Len(acc.chunks)
  PROVE  LinesTo(g, acc.chunks[i].end) <= Len(Taken(g).lines)
<1> DEFINE cs == acc.chunks
           n == Len(cs)
           e == cs[i].end
<1>1. cs \in Seq(Part) /\ acc.line \in Nat /\ acc.count \in Nat BY DEF Indexer
<1>2. n \in Nat /\ n \in 1..n /\ cs # << >> BY <1>1
<1>3. /\ \A j \in 1..n : Edge(g, cs[j].start) /\ Edge(g, cs[j].end) /\ cs[j].start <= cs[j].end
      /\ \A j, k \in 1..n : j < k => cs[j].end <= cs[k].start
  BY DEF BloomShape, Parted
<1>4. /\ acc.start = cs[n].end /\ acc.line = LinesTo(g, acc.start) + 1 /\ acc.line - 1 + acc.count = Len(Taken(g).lines)
      /\ Start(g, acc.start)
  BY <1>2 DEF BloomShape
<1>5. \A j \in 1..n : cs[j].start \in Nat /\ cs[j].end \in Nat
  <2>1. \A c \in Part : c.start \in Nat /\ c.end \in Nat BY DEF Part
  <2> QED BY <1>1, <2>1
<1>6. e <= acc.start
  <2>1. CASE i = n BY <1>2, <1>4, <1>5, <2>1
  <2>2. CASE i # n
    <3>1. i < n BY <1>2, <2>2
    <3>2. cs[i].end <= cs[n].start BY <1>2, <1>3, <3>1
    <3>3. cs[n].start <= cs[n].end BY <1>2, <1>3
    <3>4. cs[i].end \in Nat /\ cs[n].start \in Nat /\ cs[n].end \in Nat BY <1>2, <1>5
    <3> QED BY <1>4, <3>2, <3>3, <3>4
  <2> QED BY <2>1, <2>2
<1>7. Edge(g, e) /\ Edge(g, acc.start) BY <1>3, <1>4, StartIsEdge
<1>8. LinesTo(g, e) <= LinesTo(g, acc.start) /\ LinesTo(g, e) \in Nat /\ LinesTo(g, acc.start) \in Nat
  <2> HIDE DEF e
  <2> QED BY <1>6, <1>7, LinesBetween
<1> HIDE DEF e, n, cs
<1>9. Len(Taken(g).lines) \in Nat BY StartsType
<1>10. LinesTo(g, e) <= Len(Taken(g).lines) BY <1>1, <1>4, <1>8, <1>9
<1> QED BY <1>10 DEF e, cs

\* What the filters of ended chunks hold stays enough.
LEMMA EndedHold ==
  ASSUME NEW g \in Content, NEW c \in Chars, NEW acc \in Indexer, BloomShape(g, acc), BloomHolds(g, acc),
         NEW i \in 1..Len(acc.chunks), NEW k \in 1..Len(Taken(Append(g, c)).lines), Within(Append(g, c), acc.chunks[i], k)
  PROVE  Tokens(Taken(Append(g, c)).lines[k]) \subseteq acc.chunks[i].filter
<1> DEFINE t == Append(g, c)
           d == acc.chunks[i]
           n == Len(Taken(g).lines)
<1>1. Start(g, d.start) /\ Start(g, d.end) BY DEF BloomShape, Settled
<1>2. LinesTo(t, d.start) = LinesTo(g, d.start) /\ LinesTo(t, d.end) = LinesTo(g, d.end)
  <2>1. d.start \in 0..Len(g) /\ d.end \in 0..Len(g) BY <1>1 DEF Start
  <2> QED BY <2>1, StartStays
<1>3. LinesTo(g, d.end) <= n /\ LinesTo(g, d.end) \in Nat /\ n \in Nat /\ Taken(g).lines \in Seq(Content) /\ Taken(g).rest \in Content
  BY <1>1, EndsBelow, StartsType
<1>4. Within(g, d, k) BY <1>2 DEF Within
<1>5. k \in 1..n
  <2>1. k <= LinesTo(g, d.end) BY <1>4 DEF Within
  <2>2. k \in Nat /\ 1 <= k OBVIOUS
  <2> HIDE DEF d, n
  <2> QED BY <1>3, <2>1, <2>2
<1>6. Taken(t).lines[k] = Taken(g).lines[k]
  <2>1. CASE c = NL
    <3>1. Taken(t).lines = Append(Taken(g).lines, Taken(g).rest) BY <2>1, LineEnds
    <3> HIDE DEF t
    <3> QED BY <1>3, <1>5, <3>1
  <2>2. CASE c # NL
    <3>1. Taken(t).lines = Taken(g).lines BY <2>2, LineEnds
    <3> QED BY <3>1
  <2> QED BY <2>1, <2>2
<1>7. Tokens(Taken(g).lines[k]) \subseteq d.filter BY <1>4, <1>5 DEF BloomHolds
<1> QED BY <1>6, <1>7

\* What Feed makes of the fields when it ends no chunk.
Kept(acc, new) == new \in Indexer /\ new.chunks = acc.chunks /\ new.start = acc.start /\ new.line = acc.line
Stepped(env, acc, c, new) ==
  /\ c # NL => /\ Kept(acc, new) /\ new.count = acc.count /\ new.off = acc.off + 1
               /\ (acc.off + 1) % env.buf # 0 => new.part = Append(acc.part, c) /\ new.filter = acc.filter
  /\ c = NL /\ acc.count + 1 < env.lines =>
       /\ Kept(acc, new) /\ new.count = acc.count + 1 /\ new.off = acc.off + 1
       /\ new.part = << >> /\ new.filter = acc.filter \cup Tokens(acc.part)

\* A character that ends no chunk changes only the part of a line, the filter and the counts.
LEMMA FeedOf == ASSUME NEW env, NEW acc \in Indexer, NEW c \in Chars PROVE Stepped(env, acc, c, FeedsOn(env, acc, c))
<1> DEFINE new == FeedsOn(env, acc, c)
           more == Append(acc.part, c)
           off == acc.off + 1
           count == acc.count + 1
           filter == acc.filter \cup Tokens(acc.part)
           cutfilter == acc.filter \cup Tokens(more)
<1>1. acc.part \in Content /\ acc.filter \in SUBSET Content /\ off \in Nat /\ count \in Nat BY DEF Indexer
<1>2. more \in Content /\ << >> \in Content BY <1>1 DEF Content
<1> HIDE DEF more
<1>3. filter \in SUBSET Content /\ cutfilter \in SUBSET Content BY <1>1, <1>2, TokensType
<1>4. c # NL /\ off % env.buf # 0 => new = [acc EXCEPT !.part = more, !.off = off] BY DEF FeedsOn, Feed, more
<1>5. c # NL /\ ~(off % env.buf # 0) => new = [acc EXCEPT !.filter = cutfilter, !.part = << >>, !.off = off]
  BY DEF FeedsOn, Feed, more
<1>6. c = NL /\ count < env.lines => new = [acc EXCEPT !.filter = filter, !.part = << >>, !.off = off, !.count = count]
  BY DEF FeedsOn, Feed
<1> SUFFICES Stepped(env, acc, c, new) OBVIOUS
<1>7. Stepped(env, acc, c, new) <=>
       /\ c # NL => /\ Kept(acc, new) /\ new.count = acc.count /\ new.off = off
                    /\ off % env.buf # 0 => new.part = more /\ new.filter = acc.filter
       /\ c = NL /\ count < env.lines =>
            Kept(acc, new) /\ new.count = count /\ new.off = off /\ new.part = << >> /\ new.filter = filter
  BY DEF Stepped, more
<1> HIDE DEF new, off, count, filter, cutfilter
<1>8. CASE c # NL /\ off % env.buf # 0
  <2>1. new = [acc EXCEPT !.part = more, !.off = off] BY <1>4, <1>8
  <2>2. new \in Indexer BY <1>1, <1>2, <2>1 DEF Indexer
  <2>3. /\ new.chunks = acc.chunks /\ new.start = acc.start /\ new.line = acc.line /\ new.count = acc.count
        /\ new.off = off /\ new.part = more /\ new.filter = acc.filter
    BY <2>1 DEF Indexer
  <2> QED BY <1>7, <1>8, <2>2, <2>3 DEF Kept
<1>9. CASE c # NL /\ ~(off % env.buf # 0)
  <2>1. new = [acc EXCEPT !.filter = cutfilter, !.part = << >>, !.off = off] BY <1>5, <1>9
  <2>2. new \in Indexer BY <1>1, <1>2, <1>3, <2>1 DEF Indexer
  <2>3. new.chunks = acc.chunks /\ new.start = acc.start /\ new.line = acc.line /\ new.count = acc.count /\ new.off = off
    BY <2>1 DEF Indexer
  <2> QED BY <1>7, <1>9, <2>2, <2>3 DEF Kept
<1>10. CASE c = NL /\ count < env.lines
  <2>1. new = [acc EXCEPT !.filter = filter, !.part = << >>, !.off = off, !.count = count] BY <1>6, <1>10
  <2>2. new \in Indexer BY <1>1, <1>2, <1>3, <2>1 DEF Indexer
  <2>3. /\ new.chunks = acc.chunks /\ new.start = acc.start /\ new.line = acc.line /\ new.count = count /\ new.off = off
        /\ new.part = << >> /\ new.filter = filter
    BY <2>1 DEF Indexer
  <2> QED BY <1>7, <1>10, <2>2, <2>3 DEF Kept
<1>11. CASE c = NL /\ ~(count < env.lines) BY <1>7, <1>11
<1> QED BY <1>8, <1>9, <1>10, <1>11

\* What is claimed of the Bloom index stands with one character more.
LEMMA IndexOne ==
  ASSUME NEW env \in Reader, NEW g \in Content, NEW c \in Chars, NEW acc, BloomIs(env, g, acc)
  PROVE  BloomIs(env, Append(g, c), FeedsOn(env, acc, c))
<1> DEFINE t == Append(g, c)
           new == FeedsOn(env, acc, c)
           off == acc.off + 1
           n == Len(Taken(g).lines)
<1>1. acc \in Indexer /\ acc.off = Len(g) /\ BloomShape(g, acc) /\ (env.buf > Len(g) => BloomHolds(g, acc)) BY DEF BloomIs
<1>2. /\ Len(g) \in Nat /\ n \in Nat /\ Taken(g).lines \in Seq(Content) /\ Taken(g).rest \in Content
      /\ Len(t) = Len(g) + 1 /\ off = Len(t) /\ off \in Nat
  BY <1>1, StartsType DEF Content
<1>3. /\ acc.chunks \in Seq(Part) /\ acc.start \in Nat /\ acc.line \in Nat /\ acc.count \in Nat
      /\ acc.filter \in SUBSET Content /\ acc.part \in Content /\ acc.off \in Nat
      /\ Append(acc.part, c) \in Content
  BY <1>1 DEF Indexer, Content
<1>4. Tokens(acc.part) \in SUBSET Content /\ Tokens(Append(acc.part, c)) \in SUBSET Content /\ << >> \in Content
  <2>1. << >> \in Content BY DEF Content
  <2> QED BY <1>3, <2>1, TokensType
<1>5. env.buf \in Nat \ {0} BY DEF Reader
<1>6. ASSUME env.buf > Len(t) PROVE BloomHolds(g, acc) /\ off % env.buf # 0
  <2>1. env.buf > Len(g) BY <1>2, <1>5, <1>6
  <2>2. off \in 0..(2 * env.buf - 1) /\ off < env.buf /\ off # 0 BY <1>2, <1>5, <1>6
  <2>3. off % env.buf = off
    <3>1. \A x \in 0..(2 * env.buf - 1) : x % env.buf = IF x < env.buf THEN x ELSE x - env.buf BY <1>5, ModSmall
    <3> HIDE DEF off
    <3> QED BY <2>2, <3>1
  <2> QED BY <1>1, <2>1, <2>2, <2>3
<1> SUFFICES new \in Indexer /\ new.off = off /\ BloomShape(t, new) /\ (env.buf > Len(t) => BloomHolds(t, new))
  BY <1>2 DEF BloomIs
<1>7. \A i \in 1..Len(acc.chunks), k \in 1..Len(Taken(t).lines) :
        env.buf > Len(t) => (Within(t, acc.chunks[i], k) => Tokens(Taken(t).lines[k]) \subseteq acc.chunks[i].filter)
  BY <1>1, <1>6, EndedHold
<1>8. CASE c # NL
  <2>1. Taken(t).lines = Taken(g).lines /\ Taken(t).rest = Append(Taken(g).rest, c) BY <1>8, LineEnds
  <2>2. /\ Kept(acc, new) /\ new.count = acc.count /\ new.off = off
        /\ off % env.buf # 0 => new.part = Append(acc.part, c) /\ new.filter = acc.filter
    BY <1>1, <1>8, FeedOf DEF Stepped
  <2> HIDE DEF new, off
  <2>3. /\ new \in Indexer /\ new.off = off /\ new.chunks = acc.chunks /\ new.start = acc.start /\ new.line = acc.line
        /\ new.count = acc.count
    BY <2>2 DEF Kept
  <2>4. BloomShape(t, new) BY <1>1, <1>8, <2>3, ShapeStays
  <2>5. ASSUME env.buf > Len(t) PROVE BloomHolds(t, new)
    <3>1. BloomHolds(g, acc) /\ off % env.buf # 0 BY <1>6, <2>5
    <3>2. new.part = Append(acc.part, c) /\ new.filter = acc.filter BY <2>2, <3>1
    <3> HIDE DEF t
    <3> QED BY <1>7, <2>1, <2>3, <2>5, <3>1, <3>2 DEF BloomHolds
  <2> QED BY <2>3, <2>4, <2>5
<1>9. CASE c = NL /\ acc.count + 1 < env.lines
  <2>1. Taken(t).lines = Append(Taken(g).lines, Taken(g).rest) /\ Taken(t).rest = << >> BY <1>9, LineEnds
  <2>2. /\ Kept(acc, new) /\ new.count = acc.count + 1 /\ new.off = off
        /\ new.part = << >> /\ new.filter = acc.filter \cup Tokens(acc.part)
    BY <1>1, <1>9, FeedOf DEF Stepped
  <2> HIDE DEF new, off
  <2>3. /\ new \in Indexer /\ new.off = off /\ new.chunks = acc.chunks /\ new.start = acc.start /\ new.line = acc.line
        /\ new.count = acc.count + 1
    BY <2>2 DEF Kept
  <2>4. BloomShape(t, new) BY <1>1, <1>9, <2>3, ShapeStays
  <2>5. ASSUME env.buf > Len(t) PROVE BloomHolds(t, new)
    <3>1. BloomHolds(g, acc) BY <1>6, <2>5
    <3>2. new.part = << >> /\ new.filter = acc.filter \cup Tokens(acc.part) BY <2>2
    <3>3. ASSUME NEW k \in 1..Len(Taken(t).lines), new.line <= k PROVE Tokens(Taken(t).lines[k]) \subseteq new.filter
      <4> HIDE DEF t, n
      <4>1. Len(Taken(t).lines) = n + 1 /\ (\A j \in 1..n : Taken(t).lines[j] = Taken(g).lines[j]) /\ Taken(t).lines[n + 1] = Taken(g).rest
        BY <1>2, <2>1 DEF n
      <4>2. CASE k \in 1..n
        <5>1. Tokens(Taken(g).lines[k]) \subseteq acc.filter BY <2>3, <3>1, <3>3, <4>2 DEF BloomHolds, n
        <5> QED BY <3>2, <4>1, <4>2, <5>1
      <4>3. CASE k = n + 1
        <5>1. Taken(g).rest = acc.part BY <3>1 DEF BloomHolds
        <5> QED BY <3>2, <4>1, <4>3, <5>1
      <4>4. k \in 1..n \/ k = n + 1 BY <1>2, <4>1
      <4> QED BY <4>2, <4>3, <4>4
    <3> HIDE DEF t
    <3> QED BY <1>7, <2>1, <2>3, <2>5, <3>2, <3>3 DEF BloomHolds
  <2> QED BY <2>3, <2>4, <2>5
<1>10. CASE c = NL /\ ~(acc.count + 1 < env.lines)
  <2> DEFINE filter == acc.filter \cup Tokens(acc.part)
             d == [start |-> acc.start, end |-> off, line |-> acc.line, filter |-> filter]
  <2>1. Taken(t).lines = Append(Taken(g).lines, Taken(g).rest) /\ Taken(t).rest = << >> BY <1>10, LineEnds
  <2>2. new = [chunks |-> Append(acc.chunks, d), start |-> off, line |-> acc.line + acc.count + 1, count |-> 0, filter |-> {},
               part |-> << >>, off |-> off]
    BY <1>10 DEF FeedsOn, Feed
  <2>3. filter \in SUBSET Content BY <1>3, <1>4
  <2>4. off = Len(g) + 1 BY <1>1
  <2> HIDE DEF new, off, filter
  <2>5. d \in Part /\ d.start = acc.start /\ d.end = off /\ d.filter = filter BY <1>2, <1>3, <2>3 DEF Part
  <2>6. /\ new.off = off /\ new.chunks = Append(acc.chunks, d) /\ new.start = off /\ new.line = acc.line + acc.count + 1
        /\ new.count = 0 /\ new.filter = {} /\ new.part = << >>
    BY <2>2
  <2>7. new \in Indexer
    <3> HIDE DEF d
    <3>1. Append(acc.chunks, d) \in Seq(Part) /\ acc.line + acc.count + 1 \in Nat BY <1>3, <2>5
    <3> QED BY <1>2, <1>4, <2>2, <3>1 DEF Indexer
  <2>8. BloomShape(Append(g, NL), new) BY <1>1, <2>3, <2>4, <2>6, <2>7, ShapeCut
  <2>9. ASSUME env.buf > Len(t) PROVE BloomHolds(t, new)
    <3>1. BloomHolds(g, acc) BY <1>6, <2>9
    <3>2. acc.line - 1 + acc.count = n /\ acc.line = LinesTo(g, acc.start) + 1 /\ Start(g, acc.start) BY <1>1 DEF BloomShape
    <3>3. LinesTo(t, acc.start) = LinesTo(g, acc.start)
      <4>1. acc.start \in 0..Len(g) BY <3>2 DEF Start
      <4> QED BY <4>1, StartStays
    <3>4. Len(Taken(t).lines) = n + 1 /\ (\A j \in 1..n : Taken(t).lines[j] = Taken(g).lines[j]) /\ Taken(t).lines[n + 1] = Taken(g).rest
      <4> HIDE DEF t
      <4> QED BY <1>2, <2>1
    <3> DEFINE m == Len(acc.chunks)
               cs == new.chunks
    <3>5. m \in Nat /\ Len(cs) = m + 1 /\ (\A i \in 1..m : cs[i] = acc.chunks[i]) /\ cs[m + 1] = d BY <1>3, <2>5, <2>6
    <3> HIDE DEF t, n, d, m, cs
    <3>6. ASSUME NEW k \in 1..(n + 1), LinesTo(t, d.start) < k PROVE Tokens(Taken(t).lines[k]) \subseteq d.filter
      <4>1. k \in Nat /\ acc.line <= k BY SMTT(40), <1>2, <1>3, <2>5, <3>2, <3>3, <3>6, StartsType
      <4>2. CASE k \in 1..n
        <5>1. Tokens(Taken(g).lines[k]) \subseteq acc.filter BY <3>1, <4>1, <4>2 DEF BloomHolds, n
        <5> QED BY <2>5, <3>4, <4>2, <5>1 DEF filter
      <4>3. CASE k = n + 1
        <5>1. Taken(g).rest = acc.part BY <3>1 DEF BloomHolds
        <5> QED BY <2>5, <3>4, <4>3, <5>1 DEF filter
      <4>4. k \in 1..n \/ k = n + 1 BY <1>2
      <4> QED BY <4>2, <4>3, <4>4
    <3>7. ASSUME NEW i \in 1..(m + 1), NEW k \in 1..(n + 1), Within(t, cs[i], k) PROVE Tokens(Taken(t).lines[k]) \subseteq cs[i].filter
      <4>1. CASE i \in 1..m
        <5>1. i \in 1..Len(acc.chunks) BY <4>1 DEF m
        <5>2. Within(t, acc.chunks[i], k) /\ cs[i] = acc.chunks[i] BY <3>5, <3>7, <4>1
        <5>3. k \in 1..Len(Taken(t).lines) BY <3>4
        <5> QED BY <1>7, <2>9, <5>1, <5>2, <5>3
      <4>2. CASE i = m + 1
        <5>1. LinesTo(t, d.start) < k /\ cs[i] = d BY SMTT(40), <3>5, <3>7, <4>2 DEF Within
        <5> QED BY <3>6, <5>1
      <4>3. i \in 1..m \/ i = m + 1 BY <3>5
      <4> QED BY <4>1, <4>2, <4>3
    <3>8. \A k \in 1..(n + 1) : ~(new.line <= k) BY SMTT(40), <1>2, <1>3, <2>6, <3>2
    <3>9. new.part = Taken(t).rest BY <2>1, <2>6
    <3>10. \A i \in 1..Len(cs), k \in 1..Len(Taken(t).lines) : Within(t, cs[i], k) => Tokens(Taken(t).lines[k]) \subseteq cs[i].filter
      BY <3>4, <3>5, <3>7
    <3>11. \A k \in 1..Len(Taken(t).lines) : ~(new.line <= k) BY <3>4, <3>8
    <3> QED BY <3>9, <3>10, <3>11 DEF BloomHolds, cs
  <2> QED BY <1>10, <2>6, <2>7, <2>8, <2>9
<1> QED BY <1>8, <1>9, <1>10

\* What the reading of a whole file has built.
LEMMA IndexerIs ==
  ASSUME NEW f \in Content, NEW buf \in Nat \ {0}, NEW per \in Nat \ {0}
  PROVE  BloomIs([buf |-> buf, lines |-> per], f, FedIndex(f, buf, per))
<1> DEFINE env == [buf |-> buf, lines |-> per]
<1>1. env \in Reader BY DEF Reader
<1>2. BloomIs(env, << >>, NewIndexer)
  <2>1. NewIndexer \in Indexer /\ NewIndexer.off = 0 /\ NewIndexer.chunks = << >> /\ NewIndexer.start = 0 /\ NewIndexer.line = 1
        /\ NewIndexer.count = 0 /\ NewIndexer.part = << >>
    <3>1. << >> \in Content /\ << >> \in Seq(Part) BY DEF Content
    <3> QED BY <3>1 DEF NewIndexer, Indexer
  <2>2. Taken(<< >>).lines = << >> /\ Taken(<< >>).rest = << >> /\ Len(<< >>) = 0 BY TakenEmpty DEF Empty
  <2>3. << >> \in Content /\ LinesTo(<< >>, 0) = 0
    <3>1. << >> \in Content BY DEF Content
    <3> QED BY <3>1, LinesToEnds
  <2>4. BloomShape(<< >>, NewIndexer)
    <3>1. Settled(<< >>, << >>) /\ Parted(<< >>, << >>) /\ Numbered(<< >>, << >>) /\ Chained(<< >>)
      BY <2>2 DEF Settled, Parted, Numbered, Chained
    <3>2. Start(<< >>, 0) BY <2>2 DEF Start
    <3> QED BY <2>1, <2>2, <2>3, <3>1, <3>2 DEF BloomShape
  <2>5. BloomHolds(<< >>, NewIndexer) BY <2>1, <2>2 DEF BloomHolds
  <2> QED BY <2>1, <2>2, <2>4, <2>5 DEF BloomIs
<1>3. \A s \in Seq(Chars), c \in Chars : \A acc : BloomIs(env, s, acc) => BloomIs(env, Append(s, c), FeedsOn(env, acc, c))
  <2> HIDE DEF env
  <2> QED BY <1>1, IndexOne DEF Content
<1>4. f \in Seq(Chars) BY DEF Content
<1> HIDE DEF env
<1>5. BloomIs(env, f, Indexing!Fold(env, NewIndexer, f)) BY <1>2, <1>3, <1>4, Indexing!FoldKeeps
<1> QED BY <1>5, IndexIsFold DEF env

\* What a search relies on.
IndexOf(f, cs) == cs \in Seq(Part) /\ Parted(f, cs) /\ Numbered(f, cs)
IndexFinds(f, cs) ==
  /\ \A k \in 1..Len(Lines(f)) : \E i \in 1..Len(cs) : Within(f, cs[i], k)
  /\ \A i \in 1..Len(cs), k \in 1..Len(Lines(f)) : Within(f, cs[i], k) => Tokens(Lines(f)[k]) \subseteq cs[i].filter

\* The chunks of the index are between edges and numbered; of a file of ended lines read in one piece
\* they have every line, and their filters have its tokens.
LEMMA BloomIndexIs ==
  ASSUME NEW f \in Content, NEW buf \in Nat \ {0}, NEW per \in Nat \ {0}
  PROVE  /\ IndexOf(f, BuildBloomIndex(f, buf, per))
         /\ buf > Len(f) /\ Taken(f).rest = << >> => IndexFinds(f, BuildBloomIndex(f, buf, per))
<1> DEFINE acc == FedIndex(f, buf, per)
           cs == acc.chunks
           n == Len(cs)
           last == [start |-> acc.start, end |-> Len(f), line |-> acc.line, filter |-> acc.filter \cup Tokens(acc.part)]
           res == BuildBloomIndex(f, buf, per)
<1>1. BloomIs([buf |-> buf, lines |-> per], f, acc) BY IndexerIs
<1>2. res = IF acc.count > 0 \/ cs = << >> THEN Append(cs, last) ELSE cs BY DEF BuildBloomIndex
<1> HIDE DEF acc, res
<1>3. acc \in Indexer /\ BloomShape(f, acc) /\ (buf > Len(f) => BloomHolds(f, acc)) BY <1>1 DEF BloomIs
<1>4. /\ cs \in Seq(Part) /\ acc.start \in Nat /\ acc.line \in Nat /\ acc.count \in Nat /\ acc.filter \in SUBSET Content
      /\ acc.part \in Content /\ n \in Nat
  BY <1>3 DEF Indexer
<1>5. /\ Parted(f, cs) /\ Numbered(f, cs) /\ Chained(cs) /\ Start(f, acc.start)
      /\ acc.start = IF cs = << >> THEN 0 ELSE cs[n].end
      /\ acc.line = LinesTo(f, acc.start) + 1 /\ acc.line - 1 + acc.count = Len(Taken(f).lines)
  BY <1>3 DEF BloomShape
<1>6. Len(f) \in Nat /\ Len(Taken(f).lines) \in Nat /\ acc.start \in 0..Len(f) /\ LinesTo(f, acc.start) \in Nat BY <1>5, StartsType
<1>7. last \in Part /\ last.start = acc.start /\ last.end = Len(f) /\ last.line = acc.line
      /\ last.filter = acc.filter \cup Tokens(acc.part)
  <2>1. acc.filter \cup Tokens(acc.part) \in SUBSET Content BY <1>4, TokensType
  <2> QED BY <1>4, <1>6, <2>1 DEF Part
<1>8. Edge(f, acc.start) /\ Edge(f, Len(f)) /\ acc.start <= Len(f) BY <1>5, <1>6, StartIsEdge DEF Edge
<1> HIDE DEF last
<1>9. CASE acc.count > 0 \/ cs = << >>
  <2>1. res = Append(cs, last) BY <1>2, <1>9
  <2>2. Parted(f, res) /\ Chained(res) BY <1>4, <1>5, <1>7, <1>8, <2>1, PartedAppend
  <2>3. Numbered(f, res) BY <1>4, <1>5, <1>7, <2>1, NumberedNext
  <2>4. /\ res \in Seq(Part) /\ Len(res) = n + 1 /\ res # << >> /\ (\A i \in 1..n : res[i] = cs[i]) /\ res[n + 1] = last
    BY <1>4, <1>7, <2>1
  <2>5. IndexOf(f, res) BY <2>2, <2>3, <2>4 DEF IndexOf
  <2>6. ASSUME buf > Len(f), Taken(f).rest = << >> PROVE IndexFinds(f, res)
    <3>1. Lines(f) = Taken(f).lines BY <2>6 DEF Lines
    <3> DEFINE m == Len(Lines(f))
    <3>2. m \in Nat /\ LinesTo(f, Len(f)) = m BY <1>6, <3>1, LinesToEnds
    <3>3. BloomHolds(f, acc) BY <1>3, <2>6
    <3>4. ASSUME NEW k \in 1..m PROVE \E i \in 1..Len(res) : Within(f, res[i], k)
      <4>1. k \in Nat \ {0} /\ k <= LinesTo(f, res[Len(res)].end) BY <1>7, <2>4, <3>2
      <4> QED BY <2>2, <2>4, <4>1, ChainCovers
    <3>5. ASSUME NEW i \in 1..n, NEW k \in 1..m, Within(f, cs[i], k) PROVE Tokens(Lines(f)[k]) \subseteq cs[i].filter
      BY <3>1, <3>3, <3>5 DEF BloomHolds
    <3>6. ASSUME NEW k \in 1..m, Within(f, last, k) PROVE Tokens(Lines(f)[k]) \subseteq last.filter
      <4>1. LinesTo(f, acc.start) < k BY <1>7, <3>6 DEF Within
      <4>2. acc.line <= k BY <1>5, <1>6, <3>2, <4>1
      <4>3. Tokens(Lines(f)[k]) \subseteq acc.filter BY <3>1, <3>3, <4>2 DEF BloomHolds
      <4> QED BY <1>7, <4>3
    <3> HIDE DEF m, n, cs
    <3>7. ASSUME NEW i \in 1..(n + 1), NEW k \in 1..m, Within(f, res[i], k) PROVE Tokens(Lines(f)[k]) \subseteq res[i].filter
      <4>1. CASE i \in 1..n BY <2>4, <3>5, <3>7, <4>1
      <4>2. CASE i = n + 1 BY <2>4, <3>6, <3>7, <4>2
      <4>3. i \in 1..n \/ i = n + 1 BY <1>4
      <4> QED BY <4>1, <4>2, <4>3
    <3> QED BY <2>4, <3>4, <3>7 DEF IndexFinds, m
  <2> QED BY <2>5, <2>6 DEF res
<1>10. CASE ~(acc.count > 0 \/ cs = << >>)
  <2>1. res = cs /\ acc.count = 0 /\ cs # << >> BY <1>2, <1>4, <1>10
  <2>2. IndexOf(f, cs) BY <1>4, <1>5 DEF IndexOf
  <2>3. ASSUME buf > Len(f), Taken(f).rest = << >> PROVE IndexFinds(f, cs)
    <3>1. Lines(f) = Taken(f).lines BY <2>3 DEF Lines
    <3>2. BloomHolds(f, acc) BY <1>3, <2>3
    <3>3. ASSUME NEW k \in 1..Len(Lines(f)) PROVE \E i \in 1..n : Within(f, cs[i], k)
      <4>1. k \in Nat \ {0} /\ k <= LinesTo(f, cs[n].end) BY <1>4, <1>5, <1>6, <2>1, <3>1
      <4> QED BY <1>4, <1>5, <2>1, <4>1, ChainCovers
    <3>4. \A i \in 1..n, k \in 1..Len(Lines(f)) : Within(f, cs[i], k) => Tokens(Lines(f)[k]) \subseteq cs[i].filter
      BY <3>1, <3>2 DEF BloomHolds
    <3> QED BY <3>3, <3>4 DEF IndexFinds
  <2> QED BY <2>1, <2>2, <2>3 DEF res
<1> QED BY <1>9, <1>10

(* The chunks a keyword's tokens select *)

Selects(env, chunks, c) == AddIfMay(env.kw, chunks, c)
Selected(env, cs, sel) ==
  IndexOf(env.f, cs) =>
    /\ IndexOf(env.f, sel)
    /\ \A i \in 1..Len(sel) : \E j \in 1..Len(cs) : sel[i] = cs[j]
    /\ \A j \in 1..Len(cs) : MayContainSearchKeyword(cs[j].filter, env.kw) => \E i \in 1..Len(sel) : sel[i] = cs[j]

Selecting == INSTANCE Folding WITH op <- Selects, Inv <- Selected

Chosen(kw, cs) == FoldLeft(LAMBDA chunks, c : AddIfMay(kw, chunks, c), << >>, cs)

\* Chunks are selected by a fold.
LEMMA ChosenIsFold ==
  ASSUME NEW f, NEW kw, NEW cs
  PROVE  Chosen(kw, cs) = Selecting!Fold([f |-> f, kw |-> kw], << >>, cs)
BY DEF Chosen, Selecting!Fold, Selecting!Folds, Selecting!Top, Selects, FoldLeft, MapThenFoldSet, Max

\* What is claimed of the selected chunks stands with one chunk more.
LEMMA SelectOne ==
  ASSUME NEW env, NEW cs \in Seq(Part), NEW c \in Part, NEW sel, Selected(env, cs, sel)
  PROVE  Selected(env, Append(cs, c), Selects(env, sel, c))
<1> DEFINE f == env.f
           t == Append(cs, c)
           n == Len(cs)
           m == Len(sel)
           may == MayContainSearchKeyword(c.filter, env.kw)
           new == Selects(env, sel, c)
<1>1. n \in Nat /\ Len(t) = n + 1 /\ (\A i \in 1..n : t[i] = cs[i]) /\ t[n + 1] = c /\ (\A i \in 1..(n + 1) : i \in 1..n \/ i = n + 1)
      /\ n + 1 \in 1..(n + 1) /\ \A i \in 1..n : i \in 1..(n + 1)
  OBVIOUS
<1>2. new = IF may THEN Append(sel, c) ELSE sel BY DEF Selects, AddIfMay
<1> SUFFICES ASSUME IndexOf(f, t)
             PROVE  /\ IndexOf(f, new)
                    /\ \A i \in 1..Len(new) : \E j \in 1..Len(t) : new[i] = t[j]
                    /\ \A j \in 1..Len(t) : MayContainSearchKeyword(t[j].filter, env.kw) => \E i \in 1..Len(new) : new[i] = t[j]
  BY DEF Selected
<1>3. /\ Parted(f, cs) /\ Edge(f, c.start) /\ Edge(f, c.end) /\ c.start <= c.end
      /\ \A i \in 1..Len(cs) : cs[i].end <= c.start
      /\ Numbered(f, cs) /\ c.line = LinesTo(f, c.start) + 1
  BY PartedPrefix DEF IndexOf
<1>4. /\ IndexOf(f, sel)
      /\ \A i \in 1..m : \E j \in 1..n : sel[i] = cs[j]
      /\ \A j \in 1..n : MayContainSearchKeyword(cs[j].filter, env.kw) => \E i \in 1..m : sel[i] = cs[j]
  BY <1>3 DEF Selected, IndexOf
<1> HIDE DEF t, may, new, f
<1>5. CASE may
  <2>1. new = Append(sel, c) /\ sel \in Seq(Part) BY <1>2, <1>4, <1>5 DEF IndexOf
  <2>2. \A i \in 1..Len(sel) : sel[i].end <= c.start BY <1>3, <1>4
  <2>3. Parted(f, new) BY <1>3, <1>4, <2>1, <2>2, PartedNext DEF IndexOf
  <2>4. Numbered(f, new) BY <1>3, <1>4, <2>1, NumberedNext DEF IndexOf
  <2>5. /\ new \in Seq(Part) /\ m \in Nat /\ Len(new) = m + 1 /\ (\A i \in 1..m : new[i] = sel[i]) /\ new[m + 1] = c
        /\ (\A i \in 1..(m + 1) : i \in 1..m \/ i = m + 1) /\ m + 1 \in 1..(m + 1) /\ \A i \in 1..m : i \in 1..(m + 1)
    BY <2>1
  <2> HIDE DEF n, m
  <2>6. IndexOf(f, new) BY <2>3, <2>4, <2>5 DEF IndexOf
  <2>7. \A i \in 1..(m + 1) : \E j \in 1..(n + 1) : new[i] = t[j] BY <1>1, <1>4, <2>5
  <2>8. \A j \in 1..(n + 1) : MayContainSearchKeyword(t[j].filter, env.kw) => \E i \in 1..(m + 1) : new[i] = t[j]
    BY <1>1, <1>4, <2>5
  <2> QED BY <1>1, <2>5, <2>6, <2>7, <2>8
<1>6. CASE ~may
  <2>1. new = sel BY <1>2, <1>6
  <2> HIDE DEF n, m
  <2>2. \A i \in 1..m : \E j \in 1..(n + 1) : sel[i] = t[j] BY <1>1, <1>4
  <2>3. ASSUME NEW j \in 1..(n + 1), MayContainSearchKeyword(t[j].filter, env.kw) PROVE \E i \in 1..m : sel[i] = t[j]
    BY <1>1, <1>4, <1>6, <2>3 DEF may
  <2> QED BY SMTT(40), <1>1, <1>4, <2>1, <2>2, <2>3 DEF m
<1> QED BY <1>5, <1>6

\* Selected are, in their order, the chunks whose filters may have the keyword.
LEMMA ChosenAre == ASSUME NEW f, NEW kw, NEW cs \in Seq(Part), IndexOf(f, cs) PROVE Selected([f |-> f, kw |-> kw], cs, Chosen(kw, cs))
<1> DEFINE env == [f |-> f, kw |-> kw]
<1>1. Selected(env, << >>, << >>)
  <2>1. IndexOf(env.f, << >>) BY DEF IndexOf, Parted, Numbered
  <2> QED BY <2>1 DEF Selected
<1> HIDE DEF env
<1>2. \A s \in Seq(Part), c \in Part : \A acc : Selected(env, s, acc) => Selected(env, Append(s, c), Selects(env, acc, c))
  BY SelectOne
<1>3. Selected(env, cs, Selecting!Fold(env, << >>, cs)) BY <1>1, <1>2, Selecting!FoldKeeps
<1> QED BY <1>3, ChosenIsFold DEF env

\* A search of the selected chunks finds only matches, and every promised one.
LEMMA SkipFinds ==
  ASSUME NEW f \in Content, NEW q \in Query, q.max > Len(f), NEW buf \in Nat \ {0}, NEW per \in Nat \ {0}
  PROVE  LET got == ToSet(LineOf(SkipScan(f, buf, per, q))) IN
         /\ got \subseteq AllHits(f, q)
         /\ buf > Len(f) /\ Taken(f).rest = << >> =>
              \A k \in AllHits(f, q) :
                Len(q.kw) < 2 \/ (Tokens(q.kw) # {} /\ Tokens(q.kw) \subseteq Tokens(Lines(f)[k])) => k \in got
<1> DEFINE cs == BuildBloomIndex(f, buf, per)
           sel == Chosen(q.kw, cs)
           env == [f |-> f, kw |-> q.kw]
           got == ToSet(LineOf(SkipScan(f, buf, per, q)))
           all == {k \in AllHits(f, q) : \E j \in 1..Len(sel) : Within(f, sel[j], k)}
<1>1. IndexOf(f, cs) /\ (buf > Len(f) /\ Taken(f).rest = << >> => IndexFinds(f, cs)) BY BloomIndexIs
<1>2. SkipScan(f, buf, per, q) = Merge(f, sel, q) BY DEF SkipScan, Chosen
<1> HIDE DEF cs
<1>3. cs \in Seq(Part) BY <1>1 DEF IndexOf
<1>4. Selected(env, cs, sel) BY <1>1, <1>3, ChosenAre
<1>5. /\ IndexOf(f, sel)
      /\ \A j \in 1..Len(cs) : MayContainSearchKeyword(cs[j].filter, q.kw) => \E i \in 1..Len(sel) : sel[i] = cs[j]
  <2> HIDE DEF sel
  <2> QED BY <1>1, <1>4 DEF Selected
<1> HIDE DEF sel, env
<1>6. ToSet(LineOf(Merge(f, sel, q))) = all
  <2>1. sel \in Seq(Part) /\ Parted(f, sel) /\ Numbered(f, sel) BY <1>5 DEF IndexOf
  <2> QED BY ZenonT(60), <2>1, MergeIs
<1>7. got = all BY <1>2, <1>6
<1>8. ASSUME buf > Len(f), Taken(f).rest = << >>, NEW k \in AllHits(f, q),
             Len(q.kw) < 2 \/ (Tokens(q.kw) # {} /\ Tokens(q.kw) \subseteq Tokens(Lines(f)[k]))
      PROVE  k \in all
  <2>1. k \in 1..Len(Lines(f))
    <3>1. DOMAIN Lines(f) = 1..Len(Lines(f)) BY LinesType DEF Page
    <3> QED BY <3>1 DEF AllHits
  <2>2. IndexFinds(f, cs) BY <1>1, <1>8
  <2>3. PICK j \in 1..Len(cs) : Within(f, cs[j], k) BY <2>1, <2>2 DEF IndexFinds
  <2>4. Tokens(Lines(f)[k]) \subseteq cs[j].filter BY <2>1, <2>2, <2>3 DEF IndexFinds
  <2>5. MayContainSearchKeyword(cs[j].filter, q.kw) BY <1>8, <2>4 DEF MayContainSearchKeyword
  <2>6. PICK i \in 1..Len(sel) : sel[i] = cs[j] BY <1>5, <2>5
  <2> QED BY <2>3, <2>6
<1> HIDE DEF got
<1>9. got \subseteq AllHits(f, q) BY <1>7
<1> SUFFICES /\ got \subseteq AllHits(f, q)
             /\ buf > Len(f) /\ Taken(f).rest = << >> =>
                  \A k \in AllHits(f, q) :
                    Len(q.kw) < 2 \/ (Tokens(q.kw) # {} /\ Tokens(q.kw) \subseteq Tokens(Lines(f)[k])) => k \in got
  BY DEF got
<1> HIDE DEF all
<1> QED BY <1>7, <1>8, <1>9

-----------------------------------------------------------------------------
(* The properties of the run *)

\* What is searched for are queries, whatever the bounds.
LEMMA QueriesAre ==
  ASSUME NEW q \in Queries PROVE q \in Query /\ q.context \in Nat /\ q.max \in Nat \ {0}
<1>1. SearchedWords \subseteq Seq(Chars) /\ MaxContext \in Nat /\ MaxHits \in Nat BY FilesAssumption
<1>2. q.context \in Nat /\ q.max \in Nat \ {0} /\ q.kw \in Seq(Chars) /\ q.whole \in BOOLEAN BY <1>1 DEF Queries
<1>3. q = [kw |-> q.kw, whole |-> q.whole, context |-> q.context, max |-> q.max] BY DEF Queries
<1> QED BY <1>2, <1>3 DEF Query

\* A file split in parts is searched as a whole, if it is a text.
LEMMA FindAll == ASSUME file \in Content PROVE ChunksFindAll
<1> SUFFICES ASSUME NEW n \in Splits, NEW q \in Queries
             PROVE  LET hits == Merge(file, CalculateFileChunks(file, n), q) IN
                    FirstOf(LineOf(hits), AllHits(file, q), q.max) /\ Len(hits) <= q.max
  BY DEF ChunksFindAll
<1>1. n \in Nat \ {0} BY FilesAssumption
<1> QED BY <1>1, QueriesAre, ChunksSearch

\* The Bloom index skips nothing that is promised, if the file is a text within its bound.
LEMMA SkipFindsTokens == ASSUME file \in Content, Len(file) <= MaxLen PROVE SkipScanFindsTokens
<1> SUFFICES ASSUME NEW q \in Queries, NEW per \in ChunkLines, NEW buf \in {Buffer, MaxLen + 1}
             PROVE  LET all == AllHits(file, q)
                        some == ToSet(LineOf(SkipScan(file, buf, per, [q EXCEPT !.max = MaxLen + 1])))
                    IN  /\ some \subseteq all
                        /\ buf > Len(file) /\ file # << >> /\ Last(file) = NL =>
                             {k \in all : Len(q.kw) < 2 \/ (Tokens(q.kw) # {} /\ Tokens(q.kw) \subseteq Tokens(Lines(file)[k]))}
                               \subseteq some
  BY DEF SkipScanFindsTokens
<1> DEFINE r == [q EXCEPT !.max = MaxLen + 1]
           some == ToSet(LineOf(SkipScan(file, buf, per, r)))
<1>1. MaxLen \in Nat /\ buf \in Nat \ {0} /\ per \in Nat \ {0} /\ Len(file) \in Nat BY FilesAssumption DEF Content
<1>2. q \in Query BY QueriesAre
<1>3. r \in Query /\ r.max = MaxLen + 1 /\ r.kw = q.kw BY <1>1, <1>2 DEF Query
<1>4. AllHits(file, r) = AllHits(file, q)
  <2>1. \A s : Matches(s, r) <=> Matches(s, q)
    <3>1. \A s : Matches(s, r) = Matches(s, q) BY <1>2, MatchesAs
    <3>2. \A s : Matches(s, r) \in BOOLEAN /\ Matches(s, q) \in BOOLEAN BY DEF Matches
    <3> HIDE DEF r
    <3> QED BY <3>1
  <2> HIDE DEF r
  <2> QED BY <2>1 DEF AllHits
<1> HIDE DEF r
<1>5. r.max > Len(file) BY <1>1, <1>3
<1>6. /\ some \subseteq AllHits(file, r)
      /\ buf > Len(file) /\ Taken(file).rest = << >> =>
           \A k \in AllHits(file, r) :
             Len(r.kw) < 2 \/ (Tokens(r.kw) # {} /\ Tokens(r.kw) \subseteq Tokens(Lines(file)[k])) => k \in some
  BY <1>1, <1>3, <1>5, SkipFinds
<1>7. file # << >> /\ Last(file) = NL => Taken(file).rest = << >> BY TakenType DEF Last
<1> HIDE DEF some
<1>8. some \subseteq AllHits(file, q) BY <1>4, <1>6
<1>9. ASSUME buf > Len(file), file # << >>, Last(file) = NL, NEW k \in AllHits(file, q),
             Len(q.kw) < 2 \/ (Tokens(q.kw) # {} /\ Tokens(q.kw) \subseteq Tokens(Lines(file)[k]))
      PROVE  k \in some
  BY <1>3, <1>4, <1>6, <1>7, <1>9
<1> QED BY <1>8, <1>9 DEF some, r

\* The hits of a scan have their context, if the file is a text.
LEMMA HitsHaveContext == ASSUME file \in Content PROVE HitsKeepContext
<1> DEFINE s == Lines(file)
<1>1. s \in Page BY LinesType
<1> HIDE DEF s
<1> SUFFICES ASSUME NEW q \in Queries
             PROVE  LET hits == Scan(s, q).hits IN
                    /\ FirstOf(LineOf(hits), AllHits(file, q), q.max) /\ Len(hits) <= q.max + q.context
                    /\ \A i \in DOMAIN hits :
                         /\ hits[i].before = SubSeq(s, IF hits[i].line > q.context THEN hits[i].line - q.context ELSE 1, hits[i].line - 1)
                         /\ IF i <= q.max
                            THEN hits[i].after = SubSeq(s, hits[i].line + 1, Least(Len(s), hits[i].line + q.context))
                            ELSE IsPrefix(hits[i].after, SubSeq(s, hits[i].line + 1, Least(Len(s), hits[i].line + q.context)))
  BY DEF HitsKeepContext, s
<1> DEFINE hits == Scan(s, q).hits
<1>2. q \in Query BY QueriesAre
<1>3. /\ hits \in Seq(HitRec) /\ Len(hits) <= q.max + q.context
      /\ FirstOf(LineOf(hits), Matching(s, q), q.max)
      /\ \A i \in 1..Len(hits) :
           /\ hits[i].before = LinesBefore(s, hits[i].line, q.context)
           /\ IF i <= q.max
              THEN hits[i].after = SubSeq(s, hits[i].line + 1, Least(Len(s), hits[i].line + q.context))
              ELSE IsPrefix(hits[i].after, SubSeq(s, hits[i].line + 1, Least(Len(s), hits[i].line + q.context)))
  BY <1>1, <1>2, ScanFinds
<1>4. Matching(s, q) = AllHits(file, q) BY DEF Matching, AllHits, s
<1>5. DOMAIN hits = 1..Len(hits) BY <1>3
<1> HIDE DEF hits
<1>6. \A i \in DOMAIN hits :
        hits[i].before = SubSeq(s, IF hits[i].line > q.context THEN hits[i].line - q.context ELSE 1, hits[i].line - 1)
  BY <1>3, <1>5 DEF LinesBefore
<1> SUFFICES /\ FirstOf(LineOf(hits), AllHits(file, q), q.max) /\ Len(hits) <= q.max + q.context
             /\ \A i \in DOMAIN hits :
                  /\ hits[i].before = SubSeq(s, IF hits[i].line > q.context THEN hits[i].line - q.context ELSE 1, hits[i].line - 1)
                  /\ IF i <= q.max
                     THEN hits[i].after = SubSeq(s, hits[i].line + 1, Least(Len(s), hits[i].line + q.context))
                     ELSE IsPrefix(hits[i].after, SubSeq(s, hits[i].line + 1, Least(Len(s), hits[i].line + q.context)))
  BY DEF hits
<1> QED BY <1>3, <1>4, <1>5, <1>6

\* A window read through the line index is that of the file, if the file is a text.
LEMMA WindowIsExact == ASSUME file \in Content PROVE IndexedReadIsExact
<1> SUFFICES ASSUME NEW step \in Steps, NEW start \in 1..(MaxLen + 1), NEW limit \in 1..MaxHits
             PROVE  ReadFileLines(file, step, start, limit) =
                      [lines |-> SubSeq(Lines(file), start, Least(Len(Lines(file)), start + limit - 1)),
                       more |-> Len(Lines(file)) >= start + limit]
  BY DEF IndexedReadIsExact
<1>1. step \in Nat \ {0} /\ start \in Nat \ {0} /\ limit \in Nat \ {0} BY FilesAssumption
<1> QED BY <1>1, WindowRead

\* The invariant: the file is a text within its bound.
FileInv == file \in Content /\ Len(file) <= MaxLen
FilesInv == unit = "files" => FileInv

\* A file starts as a text within its bound and stays one.
LEMMA FileInvSteps == (FileInit => FileInv) /\ (FileInv /\ FileNext => FileInv')
<1>1. FileInit => FileInv BY FilesAssumption DEF FileInit, FileInv, Content
<1>2. ASSUME FileInv, NEW c \in Chars, Write(c) PROVE FileInv'
  <2>1. Len(file) \in Nat /\ Len(Append(file, c)) = Len(file) + 1 /\ Append(file, c) \in Content BY <1>2 DEF FileInv, Content
  <2>2. MaxLen \in Nat BY FilesAssumption
  <2>3. file' = Append(file, c) /\ Len(file) < MaxLen BY <1>2 DEF Write
  <2>4. file' \in Content BY <2>1, <2>3
  <2> QED BY <2>1, <2>2, <2>3, <2>4 DEF FileInv, Content
<1> QED BY <1>1, <1>2 DEF FileNext

\* What a file that grows by any characters is: a text within its bound.
THEOREM FileTyped == FileSpec => []FileInv
<1>1. FileInit => FileInv BY FileInvSteps
<1>2. FileInv /\ [FileNext]_file => FileInv'
  <2>1. FileInv /\ UNCHANGED file => FileInv' BY DEF FileInv, Content
  <2> QED BY <2>1, FileInvSteps
<1> QED BY <1>1, <1>2, PTL DEF FileSpec

\* A text within its bound is searched and read as the four properties say.
LEMMA FileInvSearched == FileInv => ChunksFindAll /\ SkipScanFindsTokens /\ HitsKeepContext /\ IndexedReadIsExact
BY FindAll, SkipFindsTokens, HitsHaveContext, WindowIsExact DEF FileInv

\* Every run of WorkerFiles is one of WorkerUnits, whose theorems hold of it too.
THEOREM WorkerImplementsUnits == WorkerSpec => UnitSpec
<1>1. WorkerInit => UnitInit BY DEF WorkerInit
<1>2. [WorkerNext]_workerVars => [UnitNext]_unitVars BY DEF WorkerNext, PackageNext, FilesNext, workerVars
<1> QED BY <1>1, <1>2, PTL DEF WorkerSpec, UnitSpec

\* In every run of a worker's parts, a file of any content is searched as one pass over the whole would, the
\* Bloom index loses no line it promises, hits have the lines around them, and a window is that of the file.
THEOREM FileSearched == WorkerSpec => []FileIsSearched
<1>1. WorkerInit => FilesInv BY FileInvSteps DEF WorkerInit, FilesInv
<1>2. FilesInv /\ [WorkerNext]_workerVars => FilesInv'
  <2> SUFFICES ASSUME FilesInv, [WorkerNext]_workerVars PROVE FilesInv' OBVIOUS
  <2>1. CASE UNCHANGED workerVars BY <2>1 DEF workerVars, unitVars, FilesInv, FileInv, Content
  <2>2. CASE PackageNext BY <2>2 DEF PackageNext, unitVars, FilesInv, FileInv, Content
  <2>3. CASE FilesNext
    <3>1. FileInv /\ FileNext BY <2>3 DEF FilesNext, FilesInv
    <3> QED BY <3>1, FileInvSteps DEF FilesInv
  <2>4. CASE UnitNext /\ UNCHANGED <<packageVars, file>>
    <3>1. unit' = unit BY <2>4 DEF UnitNext, IndexNext, RulesNext, DiagnosisNext, TemplatesNext, unitVars
    <3> QED BY <2>4, <3>1 DEF FilesInv, FileInv, Content
  <2> QED BY <2>1, <2>2, <2>3, <2>4 DEF WorkerNext
<1>3. FilesInv => FileIsSearched BY FileInvSearched DEF FilesInv, FileIsSearched
<1> QED BY <1>1, <1>2, <1>3, PTL DEF WorkerSpec

================================================================================
