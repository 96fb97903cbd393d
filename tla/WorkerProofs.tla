------------------------------ MODULE WorkerProofs ------------------------------
(* Proofs about the parts of a worker: Searcher, Diagnosis, IndexCache and Drain. *)
EXTENDS Searcher, WorkerUnits, SequenceTheorems, FiniteSetTheorems, WellFoundedInduction, TLAPS

-----------------------------------------------------------------------------
(* Searches: the invariant *)

Goroutine == [file : Files \cup {"none"}, own : Nat]
Page == [run : Nat, page : Pages, total : Nat, hits : Seq(Files \X Nat)]

Several(r) == Len(TasksOf[r.key]) > 1
InHand(g) == {w \in Workers : g[w].file # "none"}

\* The goroutines that have seen the result full with their own last append.
Over(g) == {w \in Workers : g[w].own >= Cap}

\* The hits of a file lie together in a result, in their order.
Together(hits, n, f, o) ==
    /\ \A j \in DOMAIN hits : hits[j][1] = f <=> j \in (o + 1)..(o + n)
    /\ \A i \in 1..n : o + i \in DOMAIN hits /\ hits[o + i] = <<f, i>>
Segments(hits, sums) == \A f \in Files : \E o \in Nat : Together(hits, sums[f], f, o)

\* A file is in the channel, with one goroutine, or done with.
Handed(r, g) ==
    /\ IsInjective(r.tasks)
    /\ \A f \in ToSet(r.tasks) : r.sums[f] = 0
    /\ \A w \in InHand(g) :
          /\ w \in r.pool /\ g[w].own < Cap
          /\ g[w].file \notin ToSet(r.tasks) /\ r.sums[g[w].file] = 0
          /\ \A v \in InHand(g) \ {w} : g[v].file # g[w].file

\* The lengths that may still be read: the one the list has, and less.
Counted(r) == Len(r.hits) \in r.lens /\ \A n \in r.lens : n <= Len(r.hits)

\* Every goroutine goes beyond the cap once at most.
Bounded(r, g) ==
    Len(r.hits) >= Cap => Len(r.hits) < Cap + (PerFile + Context) * Cardinality(Over(g))

Done(sums, f) == sums[f] = Hits[f] \/ sums[f] >= PerFile

\* Without cancellation and with room left no file is passed over.
Covered(r, g) ==
    \/ r.cancelled
    \/ Len(r.hits) >= Cap
    \/ /\ \A f \in ToSet(TasksOf[r.key]) :
             f \in ToSet(r.tasks) \/ (\E w \in InHand(g) : g[w].file = f) \/ Done(r.sums, f)
       /\ r.pool = Workers \/ r.tasks = <<>>

Alone(r) ==
    /\ r.pool = {} /\ Len(r.hits) <= Cap + Context
    /\ \/ r.tasks = TasksOf[r.key] /\ r.hits = <<>>
       \/ r.tasks = <<>> /\ (r.cancelled \/ Len(r.hits) >= Cap \/ \A f \in ToSet(TasksOf[r.key]) : Done(r.sums, f))

Searching(r, g) ==
    /\ TasksOf[r.key] # <<>>
    /\ Segments(r.hits, r.sums) /\ Handed(r, g)
    /\ Several(r) => Counted(r) /\ Bounded(r, g) /\ Covered(r, g)
    /\ ~Several(r) => Alone(r)

Kept(k, i) ==
    /\ Segments(i.hits, i.sums)
    /\ Len(i.hits) < Cap + Cardinality(Workers) * (PerFile + Context)
    /\ Len(i.hits) >= Cap \/ \A f \in ToSet(TasksOf[k]) : Done(i.sums, f)

Types ==
    /\ req \in [Searches -> Request \cup {None}]
    /\ work \in [Searches -> [Workers -> Goroutine]]
    /\ cache \in [Keys -> Item \cup {None}]
    /\ run \in 0..MaxSearches
    /\ got \subseteq Page

Sound ==
    /\ \A s \in Searches : IF req[s] = None THEN InHand(work[s]) = {} ELSE Searching(req[s], work[s])
    /\ \A k \in Entries(cache) : Kept(k, cache[k])
    /\ IsFiniteSet(Entries(cache)) /\ Cardinality(Entries(cache)) <= CacheCap + 1

\* The number of a search leads to one result, of which all pages are cut.
Cut(n, hits) ==
    /\ \A g \in got : g.run = n => g.total = Len(hits) /\ g.hits = PageOf(hits, g.page)
    /\ \A k \in Entries(cache) : cache[k].run = n => cache[k].hits = hits
OneResult(n) == \E hits \in Seq(Files \X Nat) : IsInjective(hits) /\ Cut(n, hits)

Numbered ==
    /\ \A s \in Searches : req[s] # None =>
          /\ req[s].run \in 1..run
          /\ \A q \in Searches \ {s} : req[q] # None => req[q].run # req[s].run
          /\ \A k \in Entries(cache) : cache[k].run # req[s].run
          /\ \A g \in got : g.run # req[s].run
    /\ \A k \in Entries(cache) : cache[k].run \in 1..run
    /\ \A g \in got : g.run \in 1..run

SInv == Types /\ Sound /\ Numbered /\ \A n \in 1..run : OneResult(n)

-----------------------------------------------------------------------------
(* Searches: lists of hits *)

LEMMA TailOf ==
    ASSUME NEW S, NEW s \in Seq(S), s # <<>>
    PROVE  /\ Head(s) \in S /\ Tail(s) \in Seq(S)
           /\ ToSet(s) = {Head(s)} \cup ToSet(Tail(s))
           /\ IsInjective(s) => IsInjective(Tail(s)) /\ Head(s) \notin ToSet(Tail(s))
<1>1. Len(s) \in Nat \ {0} /\ DOMAIN s = 1..Len(s) /\ Head(s) = s[1] OBVIOUS
<1>2. Head(s) \in S /\ Tail(s) \in Seq(S) OBVIOUS
<1>3. DOMAIN Tail(s) = 1..(Len(s) - 1) /\ \A i \in 1..(Len(s) - 1) : Tail(s)[i] = s[i + 1]
  BY <1>1
<1>4. ToSet(s) = {Head(s)} \cup ToSet(Tail(s))
  <2>1. \A i \in DOMAIN s : i = 1 \/ (i - 1 \in DOMAIN Tail(s) /\ Tail(s)[i - 1] = s[i])
    BY <1>1, <1>3
  <2>2. \A i \in DOMAIN Tail(s) : i + 1 \in DOMAIN s /\ s[i + 1] = Tail(s)[i]
    BY <1>1, <1>3
  <2>3. 1 \in DOMAIN s BY <1>1
  <2>4. ASSUME NEW e \in ToSet(s) PROVE e \in {Head(s)} \cup ToSet(Tail(s))
    <3>1. PICK i \in DOMAIN s : e = s[i] BY DEF ToSet
    <3>2. CASE i = 1 BY <1>1, <3>1, <3>2
    <3>3. CASE i # 1
      <4>1. i - 1 \in DOMAIN Tail(s) /\ Tail(s)[i - 1] = e BY <2>1, <3>1, <3>3
      <4> QED BY <4>1 DEF ToSet
    <3> QED BY <3>2, <3>3
  <2>5. Head(s) \in ToSet(s) BY <1>1, <2>3 DEF ToSet
  <2>6. ToSet(Tail(s)) \subseteq ToSet(s)
    <3>1. ASSUME NEW i \in DOMAIN Tail(s) PROVE Tail(s)[i] \in ToSet(s)
      <4>1. i + 1 \in DOMAIN s /\ s[i + 1] = Tail(s)[i] BY <2>2
      <4> QED BY <4>1 DEF ToSet
    <3> QED BY <3>1 DEF ToSet
  <2> QED BY <2>4, <2>5, <2>6
<1>5. ASSUME IsInjective(s) PROVE IsInjective(Tail(s)) /\ Head(s) \notin ToSet(Tail(s))
  <2>1. \A i, j \in 1..Len(s) : s[i] = s[j] => i = j BY <1>1, <1>5 DEF IsInjective
  <2> QED BY <1>1, <1>3, <2>1 DEF IsInjective, ToSet
<1> QED BY <1>2, <1>4, <1>5

LEMMA HitsOfType ==
    ASSUME NEW f \in Files, NEW n \in Nat
    PROVE  HitsOf(f, n) \in Seq(Files \X Nat) /\ Len(HitsOf(f, n)) = n /\ \A i \in 1..n : HitsOf(f, n)[i] = <<f, i>>
<1>1. \A i \in 1..n : <<f, i>> \in Files \X Nat OBVIOUS
<1> QED BY <1>1 DEF HitsOf

\* The hits of a file that had none are put behind the others.
LEMMA SegmentsGrow ==
    ASSUME NEW hits \in Seq(Files \X Nat), NEW sums \in [Files -> Nat], Segments(hits, sums),
           NEW f \in Files, sums[f] = 0, NEW n \in Nat
    PROVE  Segments(hits \o HitsOf(f, n), [sums EXCEPT ![f] = n])
<1> DEFINE t == hits \o HitsOf(f, n)
<1>1. /\ Len(hits) \in Nat /\ DOMAIN hits = 1..Len(hits) /\ DOMAIN t = 1..(Len(hits) + n)
      /\ \A j \in 1..Len(hits) : t[j] = hits[j]
      /\ \A i \in 1..n : t[Len(hits) + i] = <<f, i>>
  <2>1. PICK h : h = HitsOf(f, n) OBVIOUS
  <2>2. h \in Seq(Files \X Nat) /\ Len(h) = n /\ \A i \in 1..n : h[i] = <<f, i>> BY <2>1, HitsOfType
  <2>3. t = hits \o h BY <2>1
  <2> HIDE DEF t
  <2>4. t \in Seq(Files \X Nat) /\ Len(t) = Len(hits) + n /\ \A j \in 1..Len(hits) : t[j] = hits[j] BY <2>2, <2>3
  <2>6. DOMAIN t = 1..(Len(hits) + n) BY <2>4
  <2>5. \A i \in 1..n : t[Len(hits) + i] = h[i] BY <2>2, <2>3
  <2>7. Len(hits) \in Nat /\ DOMAIN hits = 1..Len(hits) OBVIOUS
  <2>8. \A i \in 1..n : t[Len(hits) + i] = <<f, i>> BY <2>2, <2>5
  <2> QED BY <2>4, <2>6, <2>7, <2>8
<1> HIDE DEF t
<1>2. \A j \in 1..Len(hits) : hits[j][1] # f
  <2>1. PICK o \in Nat : Together(hits, 0, f, o) BY DEF Segments
  <2>2. (o + 1)..(o + 0) = {} OBVIOUS
  <2> QED BY <1>1, <2>1, <2>2 DEF Together
<1>3. \A j \in (Len(hits) + 1)..(Len(hits) + n) : t[j] = <<f, j - Len(hits)>>
  <2> SUFFICES ASSUME NEW j \in (Len(hits) + 1)..(Len(hits) + n) PROVE t[j] = <<f, j - Len(hits)>> OBVIOUS
  <2>1. j - Len(hits) \in 1..n /\ Len(hits) + (j - Len(hits)) = j BY <1>1
  <2> QED BY <1>1, <2>1
<1>4. Together(t, n, f, Len(hits))
  <2>1. ASSUME NEW j \in 1..(Len(hits) + n) PROVE t[j][1] = f <=> j \in (Len(hits) + 1)..(Len(hits) + n)
    <3>1. CASE j <= Len(hits) BY <1>1, <1>2, <3>1
    <3>2. CASE j > Len(hits) BY <1>1, <1>3, <3>2
    <3> QED BY <1>1, <3>1, <3>2
  <2>2. \A i \in 1..n : Len(hits) + i \in 1..(Len(hits) + n) BY <1>1
  <2> QED BY <1>1, <2>1, <2>2 DEF Together
<1>5. ASSUME NEW e \in Files, e # f PROVE \E o \in Nat : Together(t, sums[e], e, o)
  <2>1. PICK o \in Nat : Together(hits, sums[e], e, o) BY DEF Segments
  <2>2. sums[e] \in Nat OBVIOUS
  <2>3. ASSUME NEW j \in 1..(Len(hits) + n) PROVE t[j][1] = e <=> j \in (o + 1)..(o + sums[e])
    <3>1. CASE j <= Len(hits)
      <4>1. j \in DOMAIN hits /\ t[j] = hits[j] BY <1>1, <3>1
      <4> QED BY <2>1, <4>1 DEF Together
    <3>2. CASE j > Len(hits)
      <4>1. t[j][1] = f
        <5>1. j \in (Len(hits) + 1)..(Len(hits) + n) BY <1>1, <3>2
        <5>2. t[j] = <<f, j - Len(hits)>> BY <1>3, <5>1
        <5> QED BY <5>2
      <4>2. ASSUME j \in (o + 1)..(o + sums[e]) PROVE FALSE
        <5>1. j - o \in 1..sums[e] /\ o + (j - o) = j BY <1>1, <2>2, <4>2
        <5>2. j \in DOMAIN hits BY <2>1, <5>1 DEF Together
        <5> QED BY <1>1, <3>2, <5>2
      <4> QED BY <1>5, <4>1, <4>2
    <3> QED BY <1>1, <3>1, <3>2
  <2>4. ASSUME NEW i \in 1..sums[e] PROVE o + i \in DOMAIN t /\ t[o + i] = <<e, i>>
    <3>1. o + i \in DOMAIN hits /\ hits[o + i] = <<e, i>> BY <2>1 DEF Together
    <3> QED BY <1>1, <3>1
  <2> QED BY <1>1, <2>3, <2>4 DEF Together
<1>6. [sums EXCEPT ![f] = n][f] = n /\ \A e \in Files \ {f} : [sums EXCEPT ![f] = n][e] = sums[e] OBVIOUS
<1> QED BY <1>1, <1>4, <1>5, <1>6 DEF Segments, t

\* Then the summaries count the hits, and no hit is there twice.
LEMMA SegmentsAddUp ==
    ASSUME NEW hits \in Seq(Files \X Nat), NEW sums \in [Files -> Nat], Segments(hits, sums)
    PROVE  /\ \A f \in Files : sums[f] = Cardinality({j \in DOMAIN hits : hits[j][1] = f})
           /\ IsInjective(hits)
<1>1. ASSUME NEW f \in Files PROVE sums[f] = Cardinality({j \in DOMAIN hits : hits[j][1] = f})
  <2>1. PICK o \in Nat : Together(hits, sums[f], f, o) BY DEF Segments
  <2>2. sums[f] \in Nat OBVIOUS
  <2>3. ASSUME NEW j \in (o + 1)..(o + sums[f]) PROVE j \in DOMAIN hits
    <3>1. j - o \in 1..sums[f] /\ o + (j - o) = j BY <2>2
    <3> QED BY <2>1, <3>1 DEF Together
  <2>4. {j \in DOMAIN hits : hits[j][1] = f} = (o + 1)..(o + sums[f]) BY <2>1, <2>3 DEF Together
  <2>5. PICK a \in Int, b \in Int : a = o + 1 /\ b = o + sums[f] BY <2>2
  <2>6. Cardinality(a..b) = IF a > b THEN 0 ELSE b - a + 1 BY FS_Interval
  <2>7. Cardinality((o + 1)..(o + sums[f])) = sums[f] BY <2>2, <2>5, <2>6
  <2> QED BY <2>4, <2>5, <2>7
<1>2. ASSUME NEW i \in DOMAIN hits, NEW j \in DOMAIN hits, hits[i] = hits[j] PROVE i = j
  <2>1. hits[i] \in Files \X Nat OBVIOUS
  <2>2. PICK f \in Files : hits[i][1] = f /\ hits[j][1] = f BY <1>2, <2>1
  <2>3. PICK o \in Nat : Together(hits, sums[f], f, o) BY DEF Segments
  <2>4. i \in (o + 1)..(o + sums[f]) /\ j \in (o + 1)..(o + sums[f]) BY <2>2, <2>3 DEF Together
  <2>5. sums[f] \in Nat OBVIOUS
  <2>6. \A k \in (o + 1)..(o + sums[f]) : k \in Int /\ k - o \in 1..sums[f] /\ o + (k - o) = k BY <2>5
  <2>7. hits[i] = <<f, i - o>> /\ hits[j] = <<f, j - o>>
    <3>1. \A k \in 1..sums[f] : hits[o + k] = <<f, k>> BY <2>3 DEF Together
    <3>2. hits[o + (i - o)] = <<f, i - o>> /\ hits[o + (j - o)] = <<f, j - o>> BY <2>4, <2>6, <3>1
    <3>3. o + (i - o) = i /\ o + (j - o) = j BY <2>4, <2>6
    <3> QED BY <3>2, <3>3
  <2>8. i - o = j - o
    <3>1. <<f, i - o>> = <<f, j - o>> BY <1>2, <2>7
    <3> QED BY <3>1
  <2>9. i \in Int /\ j \in Int BY <2>4, <2>6
  <2> QED BY <2>8, <2>9
<1> QED BY <1>1, <1>2 DEF IsInjective

-----------------------------------------------------------------------------
(* Searches: each step of a search, on the request r and its goroutines g *)

LEMMA OverIsFinite ==
    ASSUME NEW g
    PROVE  IsFiniteSet(Over(g)) /\ Cardinality(Over(g)) \in Nat /\ Cardinality(Over(g)) <= Cardinality(Workers)
           /\ Cardinality(Workers) \in Nat \ {0}
<1>1. Over(g) \subseteq Workers BY DEF Over
<1>2. IsFiniteSet(Over(g)) /\ Cardinality(Over(g)) <= Cardinality(Workers) BY <1>1, WorkersAssumption, FS_Subset
<1>3. Cardinality(Workers) # 0 BY WorkersAssumption, FS_EmptySet
<1> QED BY <1>2, <1>3, WorkersAssumption, FS_CardinalityType

LEMMA BeginSearches ==
    ASSUME NEW k \in Keys, NEW page \in Pages, NEW n \in Nat, TasksOf[k] # <<>>,
           NEW r, r = [key |-> k, page |-> page, tasks |-> TasksOf[k], hits |-> <<>>,
                       sums |-> [f \in Files |-> 0], lens |-> {0}, read |-> 0, cancelled |-> FALSE,
                       pool |-> IF Len(TasksOf[k]) = 1 THEN {} ELSE Workers, run |-> n]
    PROVE  r \in Request /\ Searching(r, Idle)
<1>1. TasksOf[k] \in Seq(Files) /\ IsInjective(TasksOf[k]) /\ Len(TasksOf[k]) \in Nat \ {0}
  BY TasksAssumption
<1>2. r \in Request BY <1>1 DEF Request
<1> DEFINE sums == [f \in Files |-> 0]
           pool == IF Len(TasksOf[k]) = 1 THEN {} ELSE Workers
<1>0. /\ r.key = k /\ r.tasks = TasksOf[k] /\ r.hits = <<>> /\ r.sums = sums /\ r.lens = {0}
      /\ r.pool = pool /\ ~r.cancelled /\ Len(<<>>) = 0
  OBVIOUS
<1>9. ~Several(r) <=> Len(TasksOf[k]) = 1
  <2>1. r.key = k BY <1>0
  <2>2. Several(r) <=> Len(TasksOf[k]) > 1 BY <2>1, Zenon DEF Several
  <2>3. PICK l \in Nat \ {0} : l = Len(TasksOf[k]) BY <1>1
  <2>4. l > 1 <=> l # 1 OBVIOUS
  <2> QED BY <2>2, <2>3, <2>4, Zenon
<1>3. InHand(Idle) = {} BY DEF InHand, Idle
<1>4. Segments(r.hits, r.sums)
  <2>1. \A f \in Files : Together(<<>>, 0, f, 0)
    <3>1. (0 + 1)..(0 + 0) = {} /\ DOMAIN <<>> = {} /\ 1..0 = {} OBVIOUS
    <3> QED BY <3>1 DEF Together
  <2> QED BY <2>1 DEF Segments
<1>5. Handed(r, Idle)
  <2>1. \A f \in ToSet(r.tasks) : r.sums[f] = 0 BY <1>0, <1>1 DEF ToSet
  <2> QED BY <1>0, <1>1, <1>3, <2>1 DEF Handed
<1>6. Several(r) => Counted(r) /\ Bounded(r, Idle) /\ Covered(r, Idle)
  <2>1. Counted(r) BY <1>0 DEF Counted
  <2>2. Bounded(r, Idle)
    <3>1. CASE Cap > 0 BY <1>0, <3>1, LimitsAssumption DEF Bounded
    <3>2. CASE Cap = 0
      <4>1. Over(Idle) = Workers BY <3>2 DEF Over, Idle
      <4>2. (PerFile + Context) \in Nat \ {0} BY LimitsAssumption
      <4>3. Cardinality(Workers) \in Nat \ {0} BY OverIsFinite
      <4>4. \A a, b \in Nat \ {0} : a * b \in Nat /\ a * b > 0 OBVIOUS
      <4>5. PICK x \in Nat \ {0} : x = (PerFile + Context) * Cardinality(Over(Idle)) BY <4>1, <4>2, <4>3, <4>4
      <4>6. Len(r.hits) = 0 /\ 0 < 0 + x BY <1>0, <4>5
      <4> QED BY <3>2, <4>5, <4>6, Zenon DEF Bounded
    <3> QED BY <3>1, <3>2, LimitsAssumption
  <2>3. Several(r) => Covered(r, Idle)
    <3>1. Several(r) => r.pool = Workers BY <1>0, <1>9, Zenon
    <3> QED BY <1>0, <3>1 DEF Covered
  <2> QED BY <2>1, <2>2, <2>3
<1>7. ~Several(r) => Alone(r)
  <2> QED BY <1>0, <1>9, LimitsAssumption DEF Alone
<1> QED BY <1>2, <1>4, <1>5, <1>6, <1>7 DEF Searching

LEMMA CancelSearches ==
    ASSUME NEW r \in Request, NEW g, Searching(r, g), NEW q, q = [r EXCEPT !.cancelled = TRUE]
    PROVE  q \in Request /\ Searching(q, g)
<1>1. q \in Request BY DEF Request
<1>2. /\ q.key = r.key /\ q.tasks = r.tasks /\ q.hits = r.hits /\ q.sums = r.sums /\ q.lens = r.lens
      /\ q.pool = r.pool /\ q.cancelled
  BY DEF Request
<1> QED BY <1>1, <1>2 DEF Searching, Several, Handed, Counted, Bounded, Covered, Alone

LEMMA ScanOnlyFileSearches ==
    ASSUME NEW r \in Request, NEW g, Searching(r, g), Len(TasksOf[r.key]) = 1, r.tasks # <<>>,
           NEW f, f = Head(r.tasks), NEW n \in Found(f, Cap, r.cancelled),
           NEW q, q = [r EXCEPT !.tasks = <<>>, !.hits = HitsOf(f, n), !.sums[f] = n]
    PROVE  q \in Request /\ Searching(q, g)
<1>1. ~Several(r) /\ Alone(r) /\ r.tasks = TasksOf[r.key] /\ r.hits = <<>> /\ r.pool = {}
  BY DEF Several, Searching, Alone
<1>2. f \in Files /\ TasksOf[r.key] \in Seq(Files) /\ ToSet(TasksOf[r.key]) = {f} /\ ToSet(<<>>) = {}
  BY <1>1, TasksAssumption DEF Request, ToSet
<1>3. n \in Nat /\ n <= Cap + Context /\ (r.cancelled \/ n >= Cap \/ n = Hits[f])
  BY <1>2, TasksAssumption DEF Found
<1>4. HitsOf(f, n) \in Seq(Files \X Nat) /\ Len(HitsOf(f, n)) = n BY <1>2, <1>3, HitsOfType
<1>5. /\ q.key = r.key /\ q.tasks = <<>> /\ q.hits = HitsOf(f, n) /\ q.sums = [r.sums EXCEPT ![f] = n]
      /\ q.pool = r.pool /\ q.cancelled = r.cancelled /\ r.sums \in [Files -> Nat]
  BY DEF Request
<1>6. q \in Request
  <2>0. <<>> \in Seq(Files) OBVIOUS
  <2>1. <<>> \in Seq(Files) /\ [r.sums EXCEPT ![f] = n] \in [Files -> Nat]
    <3>1. PICK sums \in [Files -> Nat] : sums = r.sums BY <1>5
    <3>2. [sums EXCEPT ![f] = n] \in [Files -> Nat] BY <1>3
    <3> QED BY <2>0, <3>1, <3>2
  <2> HIDE DEF Found
  <2> QED BY <1>4, <1>5, <2>1 DEF Request
<1>7. Segments(q.hits, q.sums)
  <2>1. Segments(r.hits, r.sums) /\ r.sums[f] = 0 /\ <<>> \in Seq(Files \X Nat)
    BY <1>1, <1>2 DEF Searching, Handed
  <2>2. Segments(<<>> \o HitsOf(f, n), [r.sums EXCEPT ![f] = n]) BY <1>1, <1>2, <1>3, <1>5, <2>1, SegmentsGrow
  <2>3. <<>> \o HitsOf(f, n) = HitsOf(f, n) BY <1>4
  <2> QED BY <1>5, <2>2, <2>3
<1>8. Handed(q, g)
  <2>1. InHand(g) = {} BY <1>1 DEF Searching, Handed
  <2> QED BY <1>2, <1>5, <2>1 DEF Handed, IsInjective
<1>9. Alone(q)
  <2>1. q.sums[f] = n BY <1>2, <1>5
  <2> QED BY <1>1, <1>2, <1>3, <1>4, <1>5, <2>1 DEF Alone, Done
<1> QED BY <1>1, <1>5, <1>6, <1>7, <1>8, <1>9 DEF Searching, Several

\* A goroutine that finds the channel drained, is cancelled or sees enough.
LEMMA LeavesSearches ==
    ASSUME NEW r \in Request, NEW g, Searching(r, g), Several(r), NEW w \in r.pool, g[w].file = "none",
           NEW q \in Request, q.key = r.key, q.hits = r.hits, q.sums = r.sums, q.cancelled = r.cancelled,
           q.pool = r.pool \ {w},
           \/ r.tasks = <<>> /\ q.tasks = <<>> /\ q.lens = r.lens
           \/ r.cancelled /\ r.tasks # <<>> /\ q.tasks = Tail(r.tasks) /\ q.lens = r.lens
           \/ /\ r.tasks # <<>> /\ q.tasks = Tail(r.tasks)
              /\ \E n \in r.lens : Enough(n) /\ q.lens = {m \in r.lens : m >= n}
    PROVE  Searching(q, g)
<1>1. TasksOf[q.key] # <<>> /\ Segments(q.hits, q.sums) /\ Several(q) BY DEF Searching, Several
<1>2. r.tasks \in Seq(Files) /\ r.lens \subseteq Nat /\ Len(r.hits) \in Nat /\ Cap \in Nat
  <2>1. r.hits \in Seq(Files \X Nat) /\ r.tasks \in Seq(Files) /\ r.lens \subseteq Nat BY DEF Request
  <2> QED BY <2>1, LimitsAssumption
<1>3. IsInjective(q.tasks) /\ ToSet(q.tasks) \subseteq ToSet(r.tasks)
  <2>1. CASE q.tasks = r.tasks BY <2>1 DEF Searching, Handed
  <2>2. CASE r.tasks # <<>> /\ q.tasks = Tail(r.tasks) BY <1>2, <2>2, TailOf DEF Searching, Handed
  <2> QED BY <2>1, <2>2
<1>4. Handed(q, g)
  <2>1. \A v \in InHand(g) : v \in r.pool => v \in q.pool BY DEF InHand
  <2> QED BY <1>3, <2>1 DEF Searching, Handed
<1>5. Counted(q) BY <1>2 DEF Searching, Counted
<1>6. Bounded(q, g) BY DEF Searching, Bounded
<1>7. Covered(q, g)
  <2>1. CASE r.tasks = <<>> /\ q.tasks = <<>> BY <2>1 DEF Searching, Covered
  <2>2. CASE r.cancelled BY <2>2 DEF Covered
  <2>3. ASSUME NEW n \in r.lens, Enough(n) PROVE Covered(q, g)
    <3>1. Len(r.hits) >= Cap BY <1>2, <2>3 DEF Searching, Counted, Enough
    <3> QED BY <3>1 DEF Covered
  <2> QED BY <2>1, <2>2, <2>3
<1> QED BY <1>1, <1>4, <1>5, <1>6, <1>7 DEF Searching

\* A goroutine takes the next file of the channel.
Takes(r, g, w, n, q, h) ==
    /\ r \in Request /\ g \in [Workers -> Goroutine] /\ Searching(r, g) /\ Several(r)
    /\ w \in r.pool /\ g[w].file = "none" /\ r.tasks # <<>> /\ n \in Counts(r, g[w].own) /\ ~Enough(n)
    /\ q = [r EXCEPT !.tasks = Tail(@), !.read = n, !.lens = {m \in @ : m >= n}]
    /\ h = [g EXCEPT ![w].file = Head(r.tasks)]

LEMMA TakesFileSearches ==
    ASSUME NEW r, NEW g, NEW w, NEW n, NEW q, NEW h, Takes(r, g, w, n, q, h)
    PROVE  q \in Request /\ h \in [Workers -> Goroutine] /\ Searching(q, h)
<1> DEFINE f == Head(r.tasks)
<1> USE DEF Takes
<1>1. /\ f \in Files /\ Tail(r.tasks) \in Seq(Files) /\ ToSet(r.tasks) = {f} \cup ToSet(Tail(r.tasks))
      /\ IsInjective(Tail(r.tasks)) /\ f \notin ToSet(Tail(r.tasks))
  <2>1. r.tasks \in Seq(Files) BY DEF Request
  <2> QED BY <2>1, TailOf DEF Searching, Handed
<1>2. n \in r.lens /\ r.lens \subseteq Nat /\ n >= g[w].own /\ n < Cap /\ w \in Workers /\ Cap \in Nat /\ g[w].own \in Nat
  BY LimitsAssumption DEF Counts, Enough, Request, Goroutine
<1>3. /\ q.key = r.key /\ q.tasks = Tail(r.tasks) /\ q.hits = r.hits /\ q.sums = r.sums /\ q.pool = r.pool
      /\ q.cancelled = r.cancelled /\ q.lens = {m \in r.lens : m >= n}
  BY DEF Request
<1>4. q \in Request
  <2>1. {m \in r.lens : m >= n} \in SUBSET Nat /\ n \in Nat BY <1>2
  <2> QED BY <1>1, <2>1 DEF Request
<1>5. h \in [Workers -> Goroutine] /\ h[w].file = f /\ h[w].own = g[w].own /\ \A v \in Workers \ {w} : h[v] = g[v]
  BY <1>1, <1>2 DEF Goroutine
<1>6. InHand(h) = InHand(g) \cup {w} /\ w \notin InHand(g)
  BY <1>1, <1>2, <1>5, TasksAssumption DEF InHand
<1>7. Handed(q, h)
  <2>1. r.sums[f] = 0 /\ \A v \in InHand(g) : g[v].file # f BY <1>1 DEF Searching, Handed
  <2>2. h[w].own < Cap BY <1>2, <1>5
  <2>3. \A v \in InHand(g) : h[v] = g[v] /\ v # w BY <1>5, <1>6 DEF InHand
  <2>4. ASSUME NEW v \in InHand(g)
        PROVE  /\ v \in q.pool /\ h[v].own < Cap
               /\ h[v].file \notin ToSet(q.tasks) /\ q.sums[h[v].file] = 0
               /\ \A u \in InHand(h) \ {v} : h[u].file # h[v].file
    <3>1. /\ v \in r.pool /\ g[v].own < Cap /\ g[v].file \notin ToSet(r.tasks) /\ r.sums[g[v].file] = 0
          /\ \A u \in InHand(g) \ {v} : g[u].file # g[v].file
      BY DEF Searching, Handed
    <3>2. h[v] = g[v] /\ g[v].file # f /\ h[w].file = f BY <1>5, <2>1, <2>3
    <3>3. \A u \in InHand(h) \ {v} : h[u].file # h[v].file BY <1>6, <2>3, <3>1, <3>2
    <3> QED BY <1>1, <1>3, <3>1, <3>2, <3>3
  <2>5. /\ w \in q.pool /\ h[w].own < Cap
        /\ h[w].file \notin ToSet(q.tasks) /\ q.sums[h[w].file] = 0
        /\ \A u \in InHand(h) \ {w} : h[u].file # h[w].file
    BY <1>1, <1>3, <1>5, <1>6, <2>1, <2>2, <2>3
  <2>6. IsInjective(q.tasks) /\ \A e \in ToSet(q.tasks) : q.sums[e] = 0
    BY <1>1, <1>3 DEF Searching, Handed
  <2>7. ASSUME NEW v \in InHand(h)
        PROVE  /\ v \in q.pool /\ h[v].own < Cap
               /\ h[v].file \notin ToSet(q.tasks) /\ q.sums[h[v].file] = 0
               /\ \A u \in InHand(h) \ {v} : h[u].file # h[v].file
    BY <1>6, <2>4, <2>5, Zenon
  <2> QED BY <2>6, <2>7, Zenon DEF Handed
<1>8. Counted(q) BY <1>2, <1>3 DEF Searching, Counted
<1>9. Bounded(q, h)
  <2>1. Over(h) = Over(g) BY <1>5 DEF Over
  <2> QED BY <1>3, <2>1 DEF Searching, Bounded
<1>10. Covered(q, h)
  <2> SUFFICES ASSUME ~r.cancelled, ~(Len(r.hits) >= Cap) PROVE Covered(q, h) BY <1>3 DEF Covered
  <2>1. r.pool = Workers BY DEF Searching, Covered
  <2>2. ASSUME NEW e \in ToSet(TasksOf[r.key])
        PROVE  e \in ToSet(q.tasks) \/ (\E v \in InHand(h) : h[v].file = e) \/ Done(q.sums, e)
    <3>1. e \in ToSet(r.tasks) \/ (\E v \in InHand(g) : g[v].file = e) \/ Done(r.sums, e)
      BY DEF Searching, Covered
    <3>2. CASE e = f BY <1>5, <1>6, <3>2
    <3>3. ASSUME NEW v \in InHand(g), g[v].file = e PROVE v \in InHand(h) /\ h[v].file = e
      BY <1>5, <1>6, <3>3 DEF InHand
    <3> QED BY <1>1, <1>3, <3>1, <3>2, <3>3
  <2> QED BY <1>3, <2>1, <2>2 DEF Covered
<1> QED BY <1>3, <1>4, <1>5, <1>7, <1>8, <1>9, <1>10 DEF Searching, Several

\* Appending at most PerFile + Context hits, by a goroutine that has not yet
\* gone beyond the cap.
LEMMA BeyondOnce ==
    ASSUME NEW g \in [Workers -> Goroutine], NEW w \in Workers, g[w].own < Cap, NEW len \in Nat, NEW n \in Nat,
           n <= PerFile + Context,
           len >= Cap => len < Cap + (PerFile + Context) * Cardinality(Over(g)),
           NEW h, h = [g EXCEPT ![w] = [file |-> "none", own |-> len + n]], len + n >= Cap
    PROVE  len + n < Cap + (PerFile + Context) * Cardinality(Over(h))
<1>1. h[w].own = len + n /\ \A v \in Workers \ {w} : h[v] = g[v] OBVIOUS
<1>2. Over(h) = Over(g) \cup {w} /\ w \notin Over(g)
  <2>1. Cap \in Nat /\ g[w].own \in Nat BY LimitsAssumption DEF Goroutine
  <2>2. w \notin Over(g) BY <2>1 DEF Over
  <2>3. w \in Over(h) BY <1>1 DEF Over
  <2> QED BY <1>1, <2>2, <2>3 DEF Over
<1>3. Cardinality(Over(h)) = Cardinality(Over(g)) + 1 BY <1>2, OverIsFinite, FS_AddElement
<1>4. PICK m \in Nat, c \in Nat : m = PerFile + Context /\ c = Cardinality(Over(g))
  BY LimitsAssumption, OverIsFinite
<1>5. m * (c + 1) = m * c + m /\ m * c \in Nat OBVIOUS
<1>6. PICK x \in Nat : x = m * c BY <1>5
<1>7. len >= Cap => len < Cap + x BY <1>4, <1>6
<1>8. len + n < Cap + (x + m) BY <1>4, <1>7, LimitsAssumption
<1> QED BY <1>3, <1>4, <1>5, <1>6, <1>8

\* A goroutine ends its file.
Scans(r, g, w, n, q, h) ==
    /\ r \in Request /\ g \in [Workers -> Goroutine] /\ Searching(r, g) /\ w \in Workers /\ g[w].file # "none"
    /\ n \in Found(g[w].file, PerFile, r.cancelled) /\ q = Collected(r, g[w].file, n)
    /\ h = [g EXCEPT ![w] = [file |-> "none", own |-> IF n = 0 THEN @.own ELSE Len(q.hits)]]

LEMMA ScansFileSearches ==
    ASSUME NEW r, NEW g, NEW w, NEW n, NEW q, NEW h, Scans(r, g, w, n, q, h)
    PROVE  q \in Request /\ h \in [Workers -> Goroutine] /\ Searching(q, h)
<1> DEFINE f == g[w].file
<1> USE DEF Scans
<1>1. f \in Files /\ w \in InHand(g) /\ w \in r.pool /\ r.sums[f] = 0 /\ f \notin ToSet(r.tasks) /\ g[w].own < Cap
  BY DEF Goroutine, InHand, Searching, Handed
<1>2. Several(r) BY <1>1 DEF Searching, Alone
<1>3. n \in Nat /\ n <= PerFile + Context /\ (r.cancelled \/ n >= PerFile \/ n = Hits[f])
  BY <1>1, TasksAssumption DEF Found
<1>4. r.hits \in Seq(Files \X Nat) /\ Len(r.hits) \in Nat /\ r.sums \in [Files -> Nat] /\ r.lens \subseteq Nat
  <2>1. r.hits \in Seq(Files \X Nat) /\ r.sums \in [Files -> Nat] /\ r.lens \subseteq Nat BY DEF Request
  <2> QED BY <2>1
<1>5. /\ q.key = r.key /\ q.tasks = r.tasks /\ q.pool = r.pool /\ q.cancelled = r.cancelled
      /\ n = 0 => q.hits = r.hits /\ q.sums = r.sums /\ q.lens = r.lens
      /\ n # 0 => q.hits = r.hits \o HitsOf(f, n) /\ q.sums = [r.sums EXCEPT ![f] = n]
                  /\ q.lens = r.lens \cup {Len(r.hits) + n}
  BY DEF Collected, Request
<1>6. Len(q.hits) = Len(r.hits) + n /\ q.hits \in Seq(Files \X Nat)
  <2>1. CASE n = 0 BY <1>4, <1>5, <2>1
  <2>2. CASE n # 0
    <3>1. PICK t \in Seq(Files \X Nat) : t = HitsOf(f, n) /\ Len(t) = n BY <1>1, <1>3, HitsOfType
    <3>2. q.hits = r.hits \o t BY <1>5, <2>2, <3>1
    <3>3. r.hits \o t \in Seq(Files \X Nat) /\ Len(r.hits \o t) = Len(r.hits) + Len(t) BY <1>4
    <3> QED BY <3>1, <3>2, <3>3
  <2> QED BY <2>1, <2>2
<1>7. q.sums[f] = n /\ \A e \in Files \ {f} : q.sums[e] = r.sums[e] BY <1>1, <1>4, <1>5
<1>8. q \in Request
  <2>1. CASE n = 0 BY <2>1 DEF Collected
  <2>2. CASE n # 0
    <3>1. [r.sums EXCEPT ![f] = n] \in [Files -> Nat]
      <4>1. PICK sums \in [Files -> Nat] : sums = r.sums BY <1>4
      <4> QED BY <1>3, <4>1
    <3>2. r.lens \cup {Len(r.hits) + n} \in SUBSET Nat BY <1>3, <1>4
    <3>3. r.hits \o HitsOf(f, n) \in Seq(Files \X Nat) BY <1>5, <1>6, <2>2
    <3>4. q = [r EXCEPT !.hits = r.hits \o HitsOf(f, n), !.sums = [r.sums EXCEPT ![f] = n],
                        !.lens = r.lens \cup {Len(r.hits) + n}]
      BY <2>2 DEF Collected
    <3> QED BY <3>1, <3>2, <3>3, <3>4 DEF Request
  <2> QED BY <2>1, <2>2
<1>9. /\ h \in [Workers -> Goroutine] /\ h[w].file = "none" /\ \A v \in Workers \ {w} : h[v] = g[v]
      /\ n = 0 => h[w].own = g[w].own
      /\ n # 0 => h = [g EXCEPT ![w] = [file |-> "none", own |-> Len(r.hits) + n]]
  <2>1. (IF n = 0 THEN g[w].own ELSE Len(q.hits)) \in Nat BY <1>3, <1>4, <1>6 DEF Goroutine
  <2> QED BY <1>6, <2>1 DEF Goroutine
<1>10. InHand(h) = InHand(g) \ {w} BY <1>9 DEF InHand
<1>11. Segments(q.hits, q.sums)
  <2>1. CASE n = 0 BY <1>5, <2>1 DEF Searching
  <2>2. CASE n # 0
    <3>1. Segments(r.hits, r.sums) BY DEF Searching
    <3>2. Segments(r.hits \o HitsOf(f, n), [r.sums EXCEPT ![f] = n]) BY <1>1, <1>3, <1>4, <3>1, SegmentsGrow
    <3> QED BY <1>5, <2>2, <3>2
  <2> QED BY <2>1, <2>2
<1>12. Handed(q, h)
  <2>1. \A e \in ToSet(q.tasks) : e # f /\ e \in Files /\ r.sums[e] = 0
    <3>1. r.tasks \in Seq(Files) BY DEF Request
    <3>2. \A e \in ToSet(r.tasks) : e \in Files BY <3>1 DEF ToSet
    <3> QED BY <1>1, <1>5, <3>2 DEF Searching, Handed
  <2>2. ASSUME NEW v \in InHand(h)
        PROVE  /\ v \in q.pool /\ h[v].own < Cap
               /\ h[v].file \notin ToSet(q.tasks) /\ q.sums[h[v].file] = 0
               /\ \A u \in InHand(h) \ {v} : h[u].file # h[v].file
    <3>1. v \in InHand(g) \ {w} /\ h[v] = g[v] /\ v \in Workers BY <1>9, <1>10 DEF InHand
    <3>2. /\ v \in r.pool /\ g[v].own < Cap /\ g[v].file \notin ToSet(r.tasks) /\ r.sums[g[v].file] = 0
          /\ \A u \in InHand(g) \ {v} : g[u].file # g[v].file
      BY <3>1 DEF Searching, Handed
    <3>3. g[v].file # f /\ g[v].file \in Files BY <1>1, <3>1, <3>2 DEF InHand, Goroutine
    <3>4. \A u \in InHand(h) \ {v} : h[u].file # h[v].file
      <4> SUFFICES ASSUME NEW u \in InHand(h) \ {v} PROVE h[u].file # h[v].file OBVIOUS
      <4>1. u \in InHand(g) \ {v} /\ h[u] = g[u] BY <1>9, <1>10 DEF InHand
      <4> QED BY <3>1, <3>2, <4>1
    <3> QED BY <1>5, <1>7, <3>1, <3>2, <3>3, <3>4
  <2>3. IsInjective(q.tasks) BY <1>5 DEF Searching, Handed
  <2>4. \A e \in ToSet(q.tasks) : q.sums[e] = 0 BY <1>7, <2>1
  <2> QED BY <2>2, <2>3, <2>4 DEF Handed
<1>13. Counted(q)
  <2>1. Len(r.hits) \in r.lens /\ \A m \in r.lens : m \in Nat /\ m <= Len(r.hits)
    BY <1>2, <1>4 DEF Searching, Counted
  <2>2. q.lens = IF n = 0 THEN r.lens ELSE r.lens \cup {Len(r.hits) + n} BY <1>5
  <2>3. PICK l \in Nat : l = Len(r.hits) /\ Len(q.hits) = l + n BY <1>4, <1>6
  <2>4. l + n \in q.lens /\ \A m \in q.lens : m <= l + n BY <1>3, <2>1, <2>2, <2>3
  <2> QED BY <2>3, <2>4 DEF Counted
<1>14. Bounded(q, h)
  <2>1. Bounded(r, g) BY <1>2 DEF Searching
  <2>2. CASE n = 0
    <3>1. Over(h) = Over(g) BY <1>9, <2>2 DEF Over
    <3> QED BY <1>5, <2>1, <2>2, <3>1 DEF Bounded
  <2>3. CASE n # 0
    <3>1. PICK l \in Nat : l = Len(r.hits) /\ Len(q.hits) = l + n BY <1>4, <1>6
    <3>2. l >= Cap => l < Cap + (PerFile + Context) * Cardinality(Over(g)) BY <2>1, <3>1, Zenon DEF Bounded
    <3>3. h = [g EXCEPT ![w] = [file |-> "none", own |-> l + n]] BY <1>9, <2>3, <3>1
    <3>4. l + n >= Cap => l + n < Cap + (PerFile + Context) * Cardinality(Over(h))
      BY <1>1, <1>3, <3>2, <3>3, BeyondOnce
    <3> QED BY <3>1, <3>4, Zenon DEF Bounded
  <2> QED BY <2>2, <2>3
<1>15. Covered(q, h)
  <2> SUFFICES ASSUME ~r.cancelled, ~(Len(q.hits) >= Cap) PROVE Covered(q, h) BY <1>5 DEF Covered
  <2>1. ~(Len(r.hits) >= Cap) BY <1>3, <1>4, <1>6, LimitsAssumption
  <2>2. (r.pool = Workers \/ r.tasks = <<>>) /\ \A e \in ToSet(TasksOf[r.key]) :
           e \in ToSet(r.tasks) \/ (\E v \in InHand(g) : g[v].file = e) \/ Done(r.sums, e)
    BY <1>2, <2>1 DEF Searching, Covered
  <2>3. Done(q.sums, f) BY <1>3, <1>7 DEF Done
  <2>4. ASSUME NEW e \in ToSet(TasksOf[r.key])
        PROVE  e \in ToSet(q.tasks) \/ (\E v \in InHand(h) : h[v].file = e) \/ Done(q.sums, e)
    <3>0. r.key \in Keys BY DEF Request
    <3>1. e \in Files BY <3>0, TasksAssumption DEF ToSet
    <3>2. ASSUME e # f, NEW v \in InHand(g), g[v].file = e PROVE v \in InHand(h) /\ h[v].file = e
      BY <1>9, <1>10, <3>2 DEF InHand
    <3>3. e # f /\ Done(r.sums, e) => Done(q.sums, e) BY <1>7, <3>1 DEF Done
    <3> QED BY <1>5, <2>2, <2>3, <3>2, <3>3
  <2> QED BY <1>5, <2>2, <2>4 DEF Covered
<1> QED BY <1>2, <1>5, <1>8, <1>9, <1>11, <1>12, <1>13, <1>14, <1>15 DEF Searching, Several

\* A search whose goroutines have ended and that was not cancelled.
LEMMA WaitedIsKept ==
    ASSUME NEW r \in Request, NEW g \in [Workers -> Goroutine], Searching(r, g), Waited(r), ~r.cancelled,
           NEW i, i = [hits |-> r.hits, sums |-> r.sums, run |-> r.run, live |-> TRUE]
    PROVE  i \in Item /\ Kept(r.key, i)
<1>1. i \in Item BY DEF Request, Item
<1>2. i.hits = r.hits /\ i.sums = r.sums OBVIOUS
<1>3. TasksOf[r.key] \in Seq(Files) /\ Len(TasksOf[r.key]) \in Nat \ {0}
  <2>1. r.key \in Keys BY DEF Request
  <2>2. TasksOf[r.key] \in Seq(Files) /\ TasksOf[r.key] # <<>> BY <2>1, TasksAssumption DEF Searching
  <2> QED BY <2>2
<1>4. Len(r.hits) \in Nat
  <2>1. r.hits \in Seq(Files \X Nat) BY DEF Request
  <2> QED BY <2>1
<1>5. PICK m \in Nat \ {0}, c \in Nat \ {0}, o \in Nat :
         m = PerFile + Context /\ c = Cardinality(Workers) /\ o = Cardinality(Over(g)) /\ o <= c
  BY LimitsAssumption, OverIsFinite
<1>6. m * o <= c * m /\ m <= c * m /\ m * o \in Nat /\ c * m \in Nat
  <2>1. \A a \in Nat : a <= c => m * a <= m * c OBVIOUS
  <2>2. m * c = c * m /\ m * 1 = m OBVIOUS
  <2> QED BY <1>5, <2>1, <2>2
<1>7. CASE Several(r)
  <2>1. r.pool = {} /\ InHand(g) = {} BY DEF Waited, Searching, Handed
  <2>2. Len(r.hits) < Cap + c * m
    <3>1. PICK x \in Nat, y \in Nat : x = m * o /\ y = c * m /\ x <= y BY <1>6
    <3>2. y > 0 BY <1>5, <1>6, <3>1
    <3>3. Len(r.hits) >= Cap => Len(r.hits) < Cap + x BY <1>5, <1>7, <3>1 DEF Searching, Bounded
    <3>4. Len(r.hits) < Cap + y BY <1>4, <3>1, <3>2, <3>3, LimitsAssumption
    <3> QED BY <3>1, <3>4
  <2>3. Len(r.hits) >= Cap \/ \A f \in ToSet(TasksOf[r.key]) : Done(r.sums, f)
    <3>1. Workers # {} /\ ToSet(<<>>) = {} BY WorkersAssumption DEF ToSet
    <3> QED BY <1>7, <2>1, <3>1 DEF Searching, Covered
  <2> QED BY <1>1, <1>2, <1>5, <2>2, <2>3 DEF Kept, Searching
<1>8. CASE ~Several(r)
  <2>1. Alone(r) BY <1>8 DEF Searching
  <2>2. Len(TasksOf[r.key]) = 1
    <3>1. PICK l \in Nat \ {0} : l = Len(TasksOf[r.key]) BY <1>3
    <3>2. ~(l > 1) BY <1>8, <3>1, Zenon DEF Several
    <3>3. l = 1 BY <3>2
    <3> QED BY <3>1, <3>3
  <2>3. r.tasks = <<>> BY <2>2 DEF Waited
  <2>4. Len(r.hits) >= Cap \/ \A f \in ToSet(TasksOf[r.key]) : Done(r.sums, f)
    BY <2>1, <2>3 DEF Alone, Searching
  <2>5. Len(r.hits) < Cap + c * m
    <3>1. PICK y \in Nat : y = c * m /\ m <= y BY <1>6
    <3>2. Context < m BY <1>5, LimitsAssumption
    <3>3. Len(r.hits) <= Cap + Context BY <2>1 DEF Alone
    <3>4. Len(r.hits) < Cap + y BY <1>4, <3>1, <3>2, <3>3, LimitsAssumption
    <3> QED BY <3>1, <3>4
  <2> QED BY <1>1, <1>2, <1>5, <2>4, <2>5 DEF Kept, Searching
<1> QED BY <1>7, <1>8

-----------------------------------------------------------------------------
(* Searches: every step keeps the invariant *)

\* What a step of one search leaves alone.
LEMMA SearchGoesOn ==
    ASSUME SInv, NEW s \in Searches, req[s] # None, NEW q \in Request, NEW h \in [Workers -> Goroutine],
           Searching(q, h), q.run = req[s].run,
           req' = [req EXCEPT ![s] = q], work' = [work EXCEPT ![s] = h], UNCHANGED <<cache, run, got>>
    PROVE  SInv'
<1>1. q # None /\ req'[s] = q /\ work'[s] = h /\ \A z \in Searches \ {s} : req'[z] = req[z] /\ work'[z] = work[z]
  BY NoRecordAssumption DEF SInv, Types
<1>2. Types' BY DEF SInv, Types
<1>3. Sound'
  <2>1. ASSUME NEW z \in Searches
        PROVE  IF req'[z] = None THEN InHand(work'[z]) = {} ELSE Searching(req'[z], work'[z])
    <3>1. CASE z = s BY <1>1, <3>1
    <3>2. CASE z # s BY <1>1, <3>2 DEF SInv, Sound
    <3> QED BY <3>1, <3>2
  <2>2. Entries(cache') = Entries(cache) OBVIOUS
  <2> QED BY <2>1, <2>2 DEF SInv, Sound
<1>4. Numbered'
  <2>1. \A z \in Searches : (req'[z] # None <=> req[z] # None) /\ (req[z] # None => req'[z].run = req[z].run)
    BY <1>1
  <2> QED BY <2>1 DEF SInv, Numbered
<1>5. ASSUME NEW n \in 1..run PROVE OneResult(n)'
  <2>1. OneResult(n) BY DEF SInv
  <2> QED BY <2>1 DEF OneResult, Cut
<1> QED BY <1>2, <1>3, <1>4, <1>5 DEF SInv

LEMMA SearchOf ==
    ASSUME SInv, NEW s \in Searches, req[s] # None
    PROVE  req[s] \in Request /\ work[s] \in [Workers -> Goroutine] /\ Searching(req[s], work[s])
BY DEF SInv, Types, Sound

LEMMA CancelKeeps == ASSUME SInv, NEW s \in Searches, Cancel(s) PROVE SInv'
<1>1. req[s] # None /\ req' = [req EXCEPT ![s] = [req[s] EXCEPT !.cancelled = TRUE]] /\ UNCHANGED <<work, cache, run, got>>
  BY DEF Cancel, SInv, Types
<1>2. PICK q : q = [req[s] EXCEPT !.cancelled = TRUE] OBVIOUS
<1>3. q \in Request /\ Searching(q, work[s]) BY <1>1, <1>2, SearchOf, CancelSearches
<1>4. q.run = req[s].run BY <1>1, <1>2, SearchOf DEF Request
<1>5. work' = [work EXCEPT ![s] = work[s]] BY <1>1 DEF SInv, Types
<1> QED BY <1>1, <1>2, <1>3, <1>4, <1>5, SearchOf, SearchGoesOn

LEMMA ScanOnlyFileKeeps == ASSUME SInv, NEW s \in Searches, ScanOnlyFile(s) PROVE SInv'
<1>1. /\ req[s] # None /\ Len(TasksOf[req[s].key]) = 1 /\ req[s].tasks # <<>> /\ UNCHANGED <<work, cache, run, got>>
      /\ \E n \in Found(Head(req[s].tasks), Cap, req[s].cancelled) :
           req' = [req EXCEPT ![s].tasks = <<>>, ![s].hits = HitsOf(Head(req[s].tasks), n), ![s].sums[Head(req[s].tasks)] = n]
  BY DEF ScanOnlyFile
<1>2. PICK n \in Found(Head(req[s].tasks), Cap, req[s].cancelled) :
        req' = [req EXCEPT ![s].tasks = <<>>, ![s].hits = HitsOf(Head(req[s].tasks), n), ![s].sums[Head(req[s].tasks)] = n]
  BY <1>1
<1>3. PICK r, f, x : r \in Request /\ r = req[s] /\ f = Head(r.tasks) /\ x = HitsOf(f, n) BY <1>1, SearchOf
<1>4. PICK q : q = [r EXCEPT !.tasks = <<>>, !.hits = HitsOf(f, n), !.sums[f] = n] OBVIOUS
<1>5. req' = [req EXCEPT ![s] = q]
  <2>1. req' = [req EXCEPT ![s].tasks = <<>>, ![s].hits = x, ![s].sums[f] = n] BY <1>2, <1>3
  <2>2. q = [r EXCEPT !.tasks = <<>>, !.hits = x, !.sums[f] = n] BY <1>3, <1>4
  <2> QED BY <1>3, <2>1, <2>2 DEF SInv, Types, Request
<1>6. q \in Request /\ Searching(q, work[s]) BY <1>1, <1>2, <1>3, <1>4, SearchOf, ScanOnlyFileSearches
<1>7. q.run = r.run BY <1>4 DEF Request
<1>8. work' = [work EXCEPT ![s] = work[s]] BY <1>1 DEF SInv, Types
<1> QED BY <1>1, <1>3, <1>5, <1>6, <1>7, <1>8, SearchOf, SearchGoesOn

\* A goroutine of the pool: the search has several files.
LEMMA PoolSearches ==
    ASSUME SInv, NEW s \in Searches, req[s] # None, NEW w \in req[s].pool
    PROVE  Several(req[s]) /\ w \in Workers
<1>1. req[s] \in Request /\ Searching(req[s], work[s]) BY SearchOf
<1> QED BY <1>1 DEF Searching, Alone, Request

LEMMA LeavesKeeps == ASSUME SInv, NEW s \in Searches, NEW w \in Workers, Leaves(s, w) PROVE SInv'
<1>1. /\ req[s] # None /\ w \in req[s].pool /\ work[s][w].file = "none" /\ req[s].tasks = <<>>
      /\ req' = [req EXCEPT ![s] = [req[s] EXCEPT !.pool = @ \ {w}]] /\ UNCHANGED <<work, cache, run, got>>
  BY DEF Leaves, SInv, Types
<1>2. PICK r \in Request : r = req[s] BY <1>1, SearchOf
<1>8. PICK q : q = [r EXCEPT !.pool = @ \ {w}] OBVIOUS
<1>3. /\ q \in Request /\ q.key = r.key /\ q.hits = r.hits /\ q.sums = r.sums /\ q.cancelled = r.cancelled
      /\ q.pool = r.pool \ {w} /\ q.tasks = r.tasks /\ q.lens = r.lens /\ q.run = r.run
  BY <1>8 DEF Request
<1>4. Searching(q, work[s])
  <2>1. Searching(r, work[s]) /\ Several(r) /\ w \in r.pool /\ work[s][w].file = "none"
    BY <1>1, <1>2, SearchOf, PoolSearches
  <2>2. r.tasks = <<>> /\ q.tasks = <<>> /\ q.lens = r.lens BY <1>1, <1>2, <1>3
  <2> QED BY <1>3, <2>1, <2>2, LeavesSearches
<1>5. work' = [work EXCEPT ![s] = work[s]] BY <1>1 DEF SInv, Types
<1> QED BY <1>1, <1>2, <1>3, <1>4, <1>5, <1>8, SearchOf, SearchGoesOn

LEMMA TakesFileKeeps == ASSUME SInv, NEW s \in Searches, NEW w \in Workers, TakesFile(s, w) PROVE SInv'
<1>1. /\ req[s] # None /\ w \in req[s].pool /\ work[s][w].file = "none" /\ req[s].tasks # <<>>
      /\ UNCHANGED <<cache, run, got>>
  BY DEF TakesFile
<1>2. PICK r \in Request, g \in [Workers -> Goroutine] : r = req[s] /\ g = work[s] /\ Searching(r, g)
  BY <1>1, SearchOf
<1>3. /\ Several(r) /\ r.tasks \in Seq(Files) /\ Tail(r.tasks) \in Seq(Files) /\ r.lens \in SUBSET Nat
  BY <1>1, <1>2, PoolSearches, TailOf DEF Request
<1>4. [work EXCEPT ![s] = g] = work BY <1>2 DEF SInv, Types
<1>5. CASE /\ r.cancelled /\ work' = work
           /\ req' = [req EXCEPT ![s] = [r EXCEPT !.tasks = Tail(@), !.pool = @ \ {w}]]
  <2>1. PICK q : q = [r EXCEPT !.tasks = Tail(@), !.pool = @ \ {w}] OBVIOUS
  <2>2. /\ q \in Request /\ q.key = r.key /\ q.hits = r.hits /\ q.sums = r.sums /\ q.cancelled = r.cancelled
        /\ q.pool = r.pool \ {w} /\ q.tasks = Tail(r.tasks) /\ q.lens = r.lens /\ q.run = r.run
    BY <1>3, <2>1 DEF Request
  <2>3. Searching(q, g) BY <1>1, <1>2, <1>3, <1>5, <2>2, LeavesSearches
  <2> QED BY <1>1, <1>2, <1>4, <1>5, <2>1, <2>2, <2>3, SearchGoesOn
<1>6. ASSUME NEW n \in Counts(r, g[w].own), Enough(n), work' = work,
             req' = [req EXCEPT ![s] = [r EXCEPT !.tasks = Tail(@), !.pool = @ \ {w}, !.read = n, !.lens = {m \in @ : m >= n}]]
      PROVE  SInv'
  <2>1. PICK q : q = [r EXCEPT !.tasks = Tail(@), !.pool = @ \ {w}, !.read = n, !.lens = {m \in @ : m >= n}] OBVIOUS
  <2>2. n \in r.lens /\ n \in Nat /\ {m \in r.lens : m >= n} \in SUBSET Nat BY <1>3 DEF Counts
  <2>3. /\ q \in Request /\ q.key = r.key /\ q.hits = r.hits /\ q.sums = r.sums /\ q.cancelled = r.cancelled
        /\ q.pool = r.pool \ {w} /\ q.tasks = Tail(r.tasks) /\ q.lens = {m \in r.lens : m >= n} /\ q.run = r.run
    BY <1>3, <2>1, <2>2 DEF Request
  <2>4. Searching(q, g) BY <1>1, <1>2, <1>3, <1>6, <2>2, <2>3, LeavesSearches
  <2> QED BY <1>1, <1>2, <1>4, <1>6, <2>1, <2>3, <2>4, SearchGoesOn
<1>7. ASSUME NEW n \in Counts(r, g[w].own), ~Enough(n), work' = [work EXCEPT ![s][w].file = Head(r.tasks)],
             req' = [req EXCEPT ![s] = [r EXCEPT !.tasks = Tail(@), !.read = n, !.lens = {m \in @ : m >= n}]]
      PROVE  SInv'
  <2>1. PICK q, h : /\ q = [r EXCEPT !.tasks = Tail(@), !.read = n, !.lens = {m \in @ : m >= n}]
                    /\ h = [g EXCEPT ![w].file = Head(r.tasks)]
    OBVIOUS
  <2>2. q \in Request /\ h \in [Workers -> Goroutine] /\ Searching(q, h)
    <3>1. w \in r.pool /\ g[w].file = "none" /\ r.tasks # <<>> BY <1>1, <1>2
    <3>2. Takes(r, g, w, n, q, h) BY <1>2, <1>3, <1>7, <2>1, <3>1 DEF Takes
    <3> QED BY <3>2, TakesFileSearches
  <2>3. q.run = r.run BY <2>1 DEF Request
  <2>4. PICK f : f = Head(r.tasks) OBVIOUS
  <2>5. work' = [work EXCEPT ![s] = h]
    <3>1. work' = [work EXCEPT ![s][w].file = f] /\ h = [g EXCEPT ![w].file = f] BY <1>7, <2>1, <2>4
    <3> QED BY <1>2, <3>1 DEF SInv, Types
  <2> QED BY <1>1, <1>2, <1>7, <2>1, <2>2, <2>3, <2>5, SearchGoesOn
<1>8. \/ /\ r.cancelled /\ work' = work
         /\ req' = [req EXCEPT ![s] = [r EXCEPT !.tasks = Tail(@), !.pool = @ \ {w}]]
      \/ \E n \in Counts(r, g[w].own) :
           \/ /\ Enough(n) /\ work' = work
              /\ req' = [req EXCEPT ![s] = [r EXCEPT !.tasks = Tail(@), !.pool = @ \ {w}, !.read = n, !.lens = {m \in @ : m >= n}]]
           \/ /\ ~Enough(n) /\ work' = [work EXCEPT ![s][w].file = Head(r.tasks)]
              /\ req' = [req EXCEPT ![s] = [r EXCEPT !.tasks = Tail(@), !.read = n, !.lens = {m \in @ : m >= n}]]
  BY <1>2 DEF TakesFile, Request
<1> QED BY <1>5, <1>6, <1>7, <1>8

LEMMA ScansFileKeeps == ASSUME SInv, NEW s \in Searches, NEW w \in Workers, ScansFile(s, w) PROVE SInv'
<1>1. req[s] # None /\ work[s][w].file # "none" /\ UNCHANGED <<cache, run, got>> BY DEF ScansFile
<1>2. PICK r \in Request, g \in [Workers -> Goroutine] : r = req[s] /\ g = work[s] /\ Searching(r, g)
  BY <1>1, SearchOf
<1>3. PICK n \in Found(g[w].file, PerFile, r.cancelled) : \E q :
        /\ q = Collected(r, g[w].file, n) /\ req' = [req EXCEPT ![s] = q]
        /\ work' = [work EXCEPT ![s][w] = [file |-> "none", own |-> IF n = 0 THEN @.own ELSE Len(q.hits)]]
  BY <1>2 DEF ScansFile
<1>8. PICK q :
        /\ q = Collected(r, g[w].file, n) /\ req' = [req EXCEPT ![s] = q]
        /\ work' = [work EXCEPT ![s][w] = [file |-> "none", own |-> IF n = 0 THEN @.own ELSE Len(q.hits)]]
  BY <1>3
<1>4. PICK h : h = [g EXCEPT ![w] = [file |-> "none", own |-> IF n = 0 THEN @.own ELSE Len(q.hits)]] OBVIOUS
<1>5. q \in Request /\ h \in [Workers -> Goroutine] /\ Searching(q, h)
  <2>1. g[w].file # "none" /\ q = Collected(r, g[w].file, n) BY <1>1, <1>2, <1>8
  <2>2. Scans(r, g, w, n, q, h) BY <1>2, <1>4, <2>1 DEF Scans
  <2> QED BY <2>2, ScansFileSearches
<1>6. q.run = r.run BY <1>8 DEF Collected, Request
<1>7. work' = [work EXCEPT ![s] = h]
  <2>1. PICK l : l = Len(q.hits) OBVIOUS
  <2> QED BY <1>2, <1>8, <1>4, <2>1 DEF SInv, Types
<1> QED BY <1>1, <1>2, <1>8, <1>5, <1>6, <1>7, SearchGoesOn

LEMMA InitSearches == Init => SInv
<1> SUFFICES ASSUME Init PROVE SInv OBVIOUS
<1>1. Idle \in [Workers -> Goroutine] /\ InHand(Idle) = {} BY DEF Idle, Goroutine, InHand
<1>2. Types BY <1>1, LimitsAssumption DEF Init, Types
<1>3. Entries(cache) = {} BY DEF Init, Entries
<1>4. Sound
  <2>1. IsFiniteSet({}) /\ Cardinality({}) = 0 BY FS_EmptySet
  <2> QED BY <1>1, <1>3, <2>1, LimitsAssumption DEF Init, Sound
<1>5. Numbered BY <1>3 DEF Init, Numbered
<1>6. \A n \in 1..run : OneResult(n) BY DEF Init
<1> QED BY <1>2, <1>4, <1>5, <1>6 DEF SInv

LEMMA BeginKeeps == ASSUME SInv, NEW s \in Searches, NEW k \in Keys, NEW page \in Pages, Begin(s, k, page) PROVE SInv'
<1>1. /\ req[s] = None /\ run < MaxSearches /\ TasksOf[k] # <<>> /\ run' = run + 1
      /\ work' = [work EXCEPT ![s] = Idle] /\ UNCHANGED <<cache, got>> /\ run \in Nat
  BY DEF Begin, SInv, Types
<1>2. PICK r : r = [key |-> k, page |-> page, tasks |-> TasksOf[k], hits |-> <<>>,
                    sums |-> [f \in Files |-> 0], lens |-> {0}, read |-> 0, cancelled |-> FALSE,
                    pool |-> IF Len(TasksOf[k]) = 1 THEN {} ELSE Workers, run |-> run + 1]
  OBVIOUS
<1>3. req' = [req EXCEPT ![s] = r] /\ r.run = run + 1 BY <1>2 DEF Begin
<1>4. r \in Request /\ Searching(r, Idle)
  <2>1. run + 1 \in Nat BY <1>1
  <2>2. PICK n \in Nat : n = run + 1 BY <2>1
  <2> QED BY <1>1, <1>2, <2>2, BeginSearches
<1>5. Idle \in [Workers -> Goroutine] BY DEF Idle, Goroutine
<1>6. r # None /\ req'[s] = r /\ work'[s] = Idle /\ \A z \in Searches \ {s} : req'[z] = req[z] /\ work'[z] = work[z]
  BY <1>1, <1>3, <1>4, NoRecordAssumption DEF SInv, Types
<1>7. Types'
  <2>1. run' \in 0..MaxSearches BY <1>1, LimitsAssumption
  <2> QED BY <1>1, <1>3, <1>4, <1>5, <2>1 DEF SInv, Types
<1>8. Entries(cache') = Entries(cache) BY <1>1
<1>9. Sound'
  <2>1. ASSUME NEW z \in Searches
        PROVE  IF req'[z] = None THEN InHand(work'[z]) = {} ELSE Searching(req'[z], work'[z])
    <3>1. CASE z = s BY <1>4, <1>6, <3>1
    <3>2. CASE z # s BY <1>6, <3>2 DEF SInv, Sound
    <3> QED BY <3>1, <3>2
  <2> QED BY <1>1, <1>8, <2>1 DEF SInv, Sound
<1>10. Numbered'
  <2>1. \A x \in 1..run : x \in 1..(run + 1) /\ x # run + 1 BY <1>1
  <2>2. run + 1 \in 1..(run + 1) BY <1>1
  <2>3. /\ \A z \in Searches : req[z] # None => req[z].run \in 1..run
        /\ \A c \in Entries(cache) : cache[c].run \in 1..run
        /\ \A g \in got : g.run \in 1..run
    BY DEF SInv, Numbered
  <2>4. ASSUME NEW z \in Searches, req'[z] # None
        PROVE  /\ req'[z].run \in 1..run'
               /\ \A q \in Searches \ {z} : req'[q] # None => req'[q].run # req'[z].run
               /\ \A c \in Entries(cache)' : cache'[c].run # req'[z].run
               /\ \A g \in got' : g.run # req'[z].run
    <3>1. CASE z = s BY <1>1, <1>3, <1>6, <1>8, <2>1, <2>2, <2>3, <3>1
    <3>2. CASE z # s
      <4>1. req'[z] = req[z] BY <1>6, <3>2
      <4>2. /\ req[z].run \in 1..run /\ \A q \in Searches \ {z} : req[q] # None => req[q].run # req[z].run
            /\ \A c \in Entries(cache) : cache[c].run # req[z].run
            /\ \A g \in got : g.run # req[z].run
        BY <2>4, <4>1 DEF SInv, Numbered
      <4>3. ASSUME NEW q \in Searches \ {z}, req'[q] # None PROVE req'[q].run # req'[z].run
        <5>1. CASE q = s BY <1>3, <1>6, <2>1, <4>1, <4>2, <5>1
        <5>2. CASE q # s BY <1>6, <4>1, <4>2, <4>3, <5>2
        <5> QED BY <5>1, <5>2
      <4> QED BY <1>1, <1>8, <2>1, <4>1, <4>2, <4>3
    <3> QED BY <3>1, <3>2
  <2>5. \A c \in Entries(cache)' : cache'[c].run \in 1..run' BY <1>1, <1>8, <2>1, <2>3
  <2>6. \A g \in got' : g.run \in 1..run' BY <1>1, <2>1, <2>3
  <2> QED BY <2>4, <2>5, <2>6 DEF Numbered
<1>11. ASSUME NEW n \in 1..run' PROVE OneResult(n)'
  <2>1. CASE n \in 1..run
    <3>1. OneResult(n) BY <2>1 DEF SInv
    <3> QED BY <1>1, <1>8, <3>1 DEF OneResult, Cut
  <2>2. CASE n \notin 1..run
    <3>1. (\A g \in got' : g.run # n) /\ (\A c \in Entries(cache)' : cache'[c].run # n)
      BY <1>1, <1>8, <2>2 DEF SInv, Numbered
    <3>2. <<>> \in Seq(Files \X Nat) /\ IsInjective(<<>>) BY DEF IsInjective
    <3> QED BY <3>1, <3>2 DEF OneResult, Cut
  <2> QED BY <2>1, <2>2
<1> QED BY <1>7, <1>9, <1>10, <1>11 DEF SInv

LEMMA PageOfType ==
    ASSUME NEW S, NEW hits \in Seq(S), NEW page \in Pages
    PROVE  PageOf(hits, page) \in Seq(S)
<1> DEFINE a == (page - 1) * PageSize + 1
           b == IF (page - 1) * PageSize + PageSize > Len(hits) THEN Len(hits) ELSE (page - 1) * PageSize + PageSize
<1>1. Len(hits) \in Nat /\ PageSize \in Nat \ {0} /\ page \in {1, 2} BY LimitsAssumption DEF Pages
<1>2. a \in Nat \ {0} /\ b \in Nat /\ b <= Len(hits)
  <2>1. (page - 1) * PageSize \in Nat BY <1>1
  <2> QED BY <1>1, <2>1
<1>3. PageOf(hits, page) = SubSeq(hits, a, b) BY DEF PageOf
<1> HIDE DEF a, b
<1>4. SubSeq(hits, a, b) \in Seq(S) BY <1>1, <1>2
<1> QED BY <1>3, <1>4

LEMMA AnswerFromCacheKeeps ==
    ASSUME SInv, NEW k \in Keys, NEW page \in Pages, AnswerFromCache(k, page) PROVE SInv'
<1>1. /\ cache[k] # None /\ k \in Entries(cache) /\ UNCHANGED <<req, work, cache, run>>
  BY DEF AnswerFromCache, Entries
<1>2. PICK i \in Item : i = cache[k] BY <1>1 DEF SInv, Types
<1>3. PICK g : g = [run |-> i.run, page |-> page, total |-> Len(i.hits), hits |-> PageOf(i.hits, page)] OBVIOUS
<1>4. got' = got \cup {g} BY <1>2, <1>3 DEF AnswerFromCache, Answer
<1>5. i.hits \in Seq(Files \X Nat) /\ i.run \in Nat /\ Len(i.hits) \in Nat
  <2>1. i.hits \in Seq(Files \X Nat) /\ i.run \in Nat BY DEF Item
  <2> QED BY <2>1
<1>6. g \in Page BY <1>3, <1>5, PageOfType DEF Page
<1>7. Types' BY <1>1, <1>4, <1>6 DEF SInv, Types
<1>8. Sound' BY <1>1 DEF SInv, Sound, Entries
<1>9. Numbered' BY <1>1, <1>2, <1>3, <1>4 DEF SInv, Numbered, Entries
<1>10. ASSUME NEW n \in 1..run PROVE OneResult(n)'
  <2>1. PICK hits \in Seq(Files \X Nat) : IsInjective(hits) /\ Cut(n, hits) BY DEF SInv, OneResult
  <2>2. g.run = n => g.total = Len(hits) /\ g.hits = PageOf(hits, g.page)
    BY <1>1, <1>2, <1>3, <2>1 DEF Cut
  <2>3. Entries(cache)' = Entries(cache) BY <1>1 DEF Entries
  <2>4. Cut(n, hits)' BY <1>1, <1>4, <2>1, <2>2, <2>3 DEF Cut
  <2> QED BY <2>1, <2>4 DEF OneResult
<1> QED BY <1>1, <1>7, <1>8, <1>9, <1>10 DEF SInv

LEMMA ExpireKeeps == ASSUME SInv, NEW k \in Keys, Expire(k) PROVE SInv'
<1>1. /\ cache[k] # None /\ UNCHANGED <<req, work, run, got>> /\ cache' = [cache EXCEPT ![k] = [cache[k] EXCEPT !.live = FALSE]]
  BY DEF Expire, SInv, Types
<1>2. PICK i \in Item : i = cache[k] BY <1>1 DEF SInv, Types
<1>3. PICK j : j = [i EXCEPT !.live = FALSE] OBVIOUS
<1>4. j \in Item /\ j.hits = i.hits /\ j.sums = i.sums /\ j.run = i.run /\ j # None BY <1>3, NoRecordAssumption DEF Item
<1>5. cache'[k] = j /\ \A c \in Keys \ {k} : cache'[c] = cache[c] BY <1>1, <1>2, <1>3 DEF SInv, Types
<1>6. Entries(cache') = Entries(cache) BY <1>1, <1>4, <1>5 DEF Entries
<1>7. \A c \in Entries(cache) : cache'[c].hits = cache[c].hits /\ cache'[c].sums = cache[c].sums /\ cache'[c].run = cache[c].run
  BY <1>2, <1>4, <1>5 DEF Entries
<1>8. Types' BY <1>1, <1>2, <1>3, <1>4 DEF SInv, Types
<1>9. Sound'
  <2>1. \A c \in Entries(cache') : Kept(c, cache'[c]) BY <1>6, <1>7 DEF SInv, Sound, Kept
  <2> QED BY <1>1, <1>6, <2>1 DEF SInv, Sound
<1>10. Numbered'
  <2>1. \A z \in Searches : req[z] # None => \A c \in Entries(cache) : cache'[c].run # req[z].run
    BY <1>7 DEF SInv, Numbered
  <2>2. \A c \in Entries(cache) : cache'[c].run \in 1..run BY <1>7 DEF SInv, Numbered
  <2> QED BY <1>1, <1>6, <2>1, <2>2 DEF SInv, Numbered
<1>11. \A n \in 1..run : OneResult(n)' BY <1>1, <1>6, <1>7 DEF SInv, OneResult, Cut
<1> QED BY <1>1, <1>8, <1>9, <1>10, <1>11 DEF SInv

-----------------------------------------------------------------------------
(* Searches: the end of a search *)

LEMMA EvictionsKeep ==
    ASSUME NEW c \in [Keys -> Item \cup {None}], IsFiniteSet(Entries(c)), Cardinality(Entries(c)) <= CacheCap + 1,
           NEW d \in Evictions(c)
    PROVE  /\ d \in [Keys -> Item \cup {None}] /\ \A k \in Keys : d[k] = None \/ d[k] = c[k]
           /\ IsFiniteSet(Entries(d)) /\ Cardinality(Entries(d)) <= CacheCap
<1>1. ASSUME NEW e \in [Keys -> Item \cup {None}], NEW gone, NEW x, x = Without(e, gone)
      PROVE  /\ x \in [Keys -> Item \cup {None}] /\ \A k \in Keys : x[k] = None \/ x[k] = e[k]
             /\ Entries(x) = Entries(e) \ gone
  BY <1>1 DEF Without, Entries
<1>2. PICK fresh : fresh = Without(c, {k \in Entries(c) : ~c[k].live}) OBVIOUS
<1>3. /\ fresh \in [Keys -> Item \cup {None}] /\ \A k \in Keys : fresh[k] = None \/ fresh[k] = c[k]
      /\ Entries(fresh) \subseteq Entries(c)
  BY <1>1, <1>2
<1>4. IsFiniteSet(Entries(fresh)) /\ Cardinality(Entries(fresh)) <= Cardinality(Entries(c)) BY <1>3, FS_Subset
<1>5. Cardinality(Entries(fresh)) \in Nat /\ Cardinality(Entries(c)) \in Nat BY <1>4, FS_CardinalityType
<1>6. CASE Cardinality(Entries(c)) <= CacheCap BY <1>6 DEF Evictions
<1>7. CASE ~(Cardinality(Entries(c)) <= CacheCap) /\ Cardinality(Entries(fresh)) <= CacheCap
  <2>1. d = fresh BY <1>2, <1>7 DEF Evictions
  <2> QED BY <1>3, <1>4, <1>7, <2>1
<1>8. CASE ~(Cardinality(Entries(c)) <= CacheCap) /\ ~(Cardinality(Entries(fresh)) <= CacheCap)
  <2>1. PICK k \in Entries(fresh) : d = Without(fresh, {k}) BY <1>2, <1>8 DEF Evictions
  <2>2. /\ d \in [Keys -> Item \cup {None}] /\ \A j \in Keys : d[j] = None \/ d[j] = fresh[j]
        /\ Entries(d) = Entries(fresh) \ {k}
    BY <1>1, <1>3, <2>1
  <2>3. IsFiniteSet(Entries(d)) /\ Cardinality(Entries(d)) = Cardinality(Entries(fresh)) - 1
    BY <1>4, <2>2, FS_RemoveElement
  <2>4. Cardinality(Entries(d)) <= CacheCap BY <1>4, <1>5, <2>3, LimitsAssumption
  <2> QED BY <1>3, <2>2, <2>3, <2>4
<1> QED BY <1>6, <1>7, <1>8

LEMMA FinishKeeps == ASSUME SInv, NEW s \in Searches, Finish(s) PROVE SInv'
<1>1. /\ req[s] # None /\ Waited(req[s]) /\ req' = [req EXCEPT ![s] = None] /\ work' = [work EXCEPT ![s] = Idle]
      /\ run' = run
  BY DEF Finish
<1>2. PICK r \in Request, g \in [Workers -> Goroutine] : r = req[s] /\ g = work[s] /\ Searching(r, g)
  BY <1>1, SearchOf
<1>3. Idle \in [Workers -> Goroutine] /\ InHand(Idle) = {} BY DEF Idle, Goroutine, InHand
<1>4. req'[s] = None /\ work'[s] = Idle /\ \A z \in Searches \ {s} : req'[z] = req[z] /\ work'[z] = work[z]
  BY <1>1 DEF SInv, Types
<1>5. req' \in [Searches -> Request \cup {None}] /\ work' \in [Searches -> [Workers -> Goroutine]]
  BY <1>1, <1>3 DEF SInv, Types
<1>6. \A z \in Searches : IF req'[z] = None THEN InHand(work'[z]) = {} ELSE Searching(req'[z], work'[z])
  <2> SUFFICES ASSUME NEW z \in Searches
               PROVE  IF req'[z] = None THEN InHand(work'[z]) = {} ELSE Searching(req'[z], work'[z])
    OBVIOUS
  <2>1. CASE z = s BY <1>3, <1>4, <2>1
  <2>2. CASE z # s BY <1>4, <2>2 DEF SInv, Sound
  <2> QED BY <2>1, <2>2
<1>7. /\ \A z \in Searches : req'[z] # None => z # s /\ req'[z] = req[z] /\ req[z] # None
      /\ \A z \in Searches : req'[z] # None => req'[z].run # r.run /\ req'[z].run \in 1..run
      /\ \A z \in Searches, q \in Searches : q # z /\ req'[z] # None /\ req'[q] # None => req'[q].run # req'[z].run
  <2>1. \A z \in Searches : req'[z] # None => z # s /\ req'[z] = req[z] /\ req[z] # None BY <1>4
  <2>2. \A z \in Searches : req'[z] # None => req'[z].run # r.run /\ req'[z].run \in 1..run
    BY <1>1, <1>2, <2>1 DEF SInv, Numbered
  <2>3. \A z \in Searches, q \in Searches : q # z /\ req'[z] # None /\ req'[q] # None => req'[q].run # req'[z].run
    BY <2>1 DEF SInv, Numbered
  <2> QED BY <2>1, <2>2, <2>3
<1>8. CASE ~MayAnswer(r)
  <2>1. UNCHANGED <<cache, got>> BY <1>2, <1>8 DEF Finish
  <2>2. Types' BY <1>1, <1>5, <2>1 DEF SInv, Types
  <2>3. Sound' BY <1>6, <2>1 DEF SInv, Sound
  <2>4. Numbered'
    <3>1. \A z \in Searches : req'[z] # None =>
             (\A k \in Entries(cache) : cache[k].run # req'[z].run) /\ (\A e \in got : e.run # req'[z].run)
      BY <1>7 DEF SInv, Numbered
    <3> QED BY <1>1, <1>7, <2>1, <3>1 DEF SInv, Numbered
  <2>5. \A n \in 1..run : OneResult(n)' BY <2>1 DEF SInv, OneResult, Cut
  <2> QED BY <1>1, <2>2, <2>3, <2>4, <2>5 DEF SInv
<1>9. CASE MayAnswer(r)
  <2>1. PICK i : i = [hits |-> r.hits, sums |-> r.sums, run |-> r.run, live |-> TRUE] OBVIOUS
  <2>2. i \in Item /\ Kept(r.key, i) BY <1>1, <1>2, <1>9, <2>1, WaitedIsKept DEF MayAnswer
  <2>3. i.run = r.run /\ i.hits = r.hits /\ r.key \in Keys /\ r.page \in Pages /\ i # None /\ r.hits \in Seq(Files \X Nat)
        /\ r.sums \in [Files -> Nat] /\ r.run \in 1..run /\ r.run \in Nat
    BY <1>1, <1>2, <2>1, <2>2, NoRecordAssumption DEF Request, SInv, Numbered
  <2>4. PICK a : a = [run |-> i.run, page |-> r.page, total |-> Len(i.hits), hits |-> PageOf(i.hits, r.page)] OBVIOUS
  <2>5. /\ got' = got \cup {a}
        /\ \E c \in Evictions(cache) : cache' = [c EXCEPT ![r.key] = i]
    BY <1>2, <1>9, <2>1, <2>4 DEF Finish, Answer
  <2>6. PICK c \in Evictions(cache) : cache' = [c EXCEPT ![r.key] = i] BY <2>5
  <2>7. /\ c \in [Keys -> Item \cup {None}] /\ \A k \in Keys : c[k] = None \/ c[k] = cache[k]
        /\ IsFiniteSet(Entries(c)) /\ Cardinality(Entries(c)) <= CacheCap
    <3>1. cache \in [Keys -> Item \cup {None}] /\ IsFiniteSet(Entries(cache)) /\ Cardinality(Entries(cache)) <= CacheCap + 1
      BY DEF SInv, Types, Sound
    <3> QED BY <3>1, EvictionsKeep
  <2>8. /\ cache' \in [Keys -> Item \cup {None}] /\ cache'[r.key] = i
        /\ \A k \in Keys \ {r.key} : cache'[k] = c[k]
        /\ Entries(cache') = Entries(c) \cup {r.key}
    BY <2>2, <2>3, <2>6, <2>7 DEF Entries
  <2>9. \A k \in Entries(cache') : k = r.key \/ (k \in Entries(cache) /\ cache'[k] = cache[k])
    BY <2>7, <2>8 DEF Entries
  <2>10. Types'
    <3>1. Len(i.hits) \in Nat BY <2>3
    <3>2. a \in Page BY <2>3, <2>4, <3>1, PageOfType DEF Page
    <3>3. got' \subseteq Page /\ run' \in 0..MaxSearches BY <1>1, <2>5, <3>2 DEF SInv, Types
    <3> QED BY <1>5, <2>8, <3>3 DEF Types
  <2>11. Sound'
    <3>1. \A k \in Entries(cache') : Kept(k, cache'[k]) BY <2>2, <2>8, <2>9 DEF SInv, Sound
    <3>2. IsFiniteSet(Entries(cache')) /\ Cardinality(Entries(cache')) <= Cardinality(Entries(c)) + 1
      <4>1. PICK E : E = Entries(c) OBVIOUS
      <4>2. /\ IsFiniteSet(E \cup {r.key})
            /\ Cardinality(E \cup {r.key}) = IF r.key \in E THEN Cardinality(E) ELSE Cardinality(E) + 1
        BY <2>7, <4>1, FS_AddElement
      <4>3. Cardinality(E) \in Nat BY <2>7, <4>1, FS_CardinalityType
      <4>4. Cardinality(E \cup {r.key}) <= Cardinality(E) + 1 BY <4>2, <4>3
      <4> QED BY <2>8, <4>1, <4>2, <4>4
    <3>3. Cardinality(Entries(c)) \in Nat /\ Cardinality(Entries(cache')) \in Nat BY <2>7, <3>2, FS_CardinalityType
    <3>4. Cardinality(Entries(cache')) <= CacheCap + 1 BY <2>7, <3>2, <3>3, LimitsAssumption
    <3> QED BY <1>6, <3>1, <3>2, <3>4 DEF Sound
  <2>12. Numbered'
    <3>1. ASSUME NEW z \in Searches, req'[z] # None
          PROVE  /\ \A k \in Entries(cache') : cache'[k].run # req'[z].run
                 /\ \A e \in got' : e.run # req'[z].run
      <4>1. req[z] # None /\ req'[z] = req[z] /\ req'[z].run # r.run BY <1>7, <3>1
      <4>2. \A k \in Entries(cache) : cache[k].run # req'[z].run BY <4>1 DEF SInv, Numbered
      <4>3. \A e \in got : e.run # req'[z].run BY <4>1 DEF SInv, Numbered
      <4>4. \A k \in Entries(cache') : cache'[k].run # req'[z].run BY <2>3, <2>8, <2>9, <4>1, <4>2
      <4>5. a.run # req'[z].run BY <2>3, <2>4, <4>1
      <4>6. \A e \in got' : e.run # req'[z].run BY <2>5, <4>3, <4>5
      <4> QED BY <4>4, <4>6
    <3>2. \A k \in Entries(cache') : cache'[k].run \in 1..run
      BY <2>3, <2>8, <2>9 DEF SInv, Numbered
    <3>3. \A e \in got' : e.run \in 1..run BY <2>3, <2>4, <2>5 DEF SInv, Numbered
    <3> QED BY <1>1, <1>7, <3>1, <3>2, <3>3 DEF Numbered
  <2>13. ASSUME NEW n \in 1..run PROVE OneResult(n)'
    <3>1. CASE n = r.run
      <4>1. IsInjective(r.hits) BY <1>2, <2>3, SegmentsAddUp DEF Searching
      <4>2. (\A e \in got : e.run # n) /\ \A k \in Entries(cache) : cache[k].run # n
        BY <1>1, <1>2, <3>1 DEF SInv, Numbered
      <4>3. \A e \in got' : e.run = n => e.total = Len(r.hits) /\ e.hits = PageOf(r.hits, e.page)
        BY <2>3, <2>4, <2>5, <4>2
      <4>4. \A k \in Entries(cache') : cache'[k].run = n => cache'[k].hits = r.hits
        BY <2>3, <2>8, <2>9, <4>2
      <4> QED BY <2>3, <4>1, <4>3, <4>4 DEF OneResult, Cut
    <3>2. CASE n # r.run
      <4>1. PICK hits \in Seq(Files \X Nat) : IsInjective(hits) /\ Cut(n, hits) BY DEF SInv, OneResult
      <4>2. \A e \in got' : e.run = n => e.total = Len(hits) /\ e.hits = PageOf(hits, e.page)
        BY <2>3, <2>4, <2>5, <3>2, <4>1 DEF Cut
      <4>3. \A k \in Entries(cache') : cache'[k].run = n => cache'[k].hits = hits
        BY <2>3, <2>8, <2>9, <3>2, <4>1 DEF Cut
      <4> QED BY <4>1, <4>2, <4>3 DEF OneResult, Cut
    <3> QED BY <3>1, <3>2
  <2> QED BY <1>1, <2>10, <2>11, <2>12, <2>13 DEF SInv
<1> QED BY <1>8, <1>9

LEMMA NextSearches == SInv /\ [Next]_vars => SInv'
<1> SUFFICES ASSUME SInv, [Next]_vars PROVE SInv' OBVIOUS
<1>1. ASSUME NEW s \in Searches, WorkerStep(s) PROVE SInv'
  BY <1>1, ScanOnlyFileKeeps, FinishKeeps, LeavesKeeps, TakesFileKeeps, ScansFileKeeps DEF WorkerStep
<1>2. ASSUME NEW s \in Searches, Cancel(s) PROVE SInv' BY <1>2, CancelKeeps
<1>3. ASSUME NEW s \in Searches, NEW k \in Keys, NEW page \in Pages, Begin(s, k, page) PROVE SInv' BY <1>3, BeginKeeps
<1>4. ASSUME NEW k \in Keys, Expire(k) PROVE SInv' BY <1>4, ExpireKeeps
<1>5. ASSUME NEW k \in Keys, NEW page \in Pages, AnswerFromCache(k, page) PROVE SInv' BY <1>5, AnswerFromCacheKeeps
<1>6. CASE UNCHANGED vars
  <2>1. Entries(cache') = Entries(cache) BY <1>6 DEF vars
  <2>2. UNCHANGED <<req, work, cache, run, got>> BY <1>6 DEF vars
  <2>3. Types' BY <2>2 DEF SInv, Types
  <2>4. Sound' BY <2>1, <2>2 DEF SInv, Sound
  <2>5. Numbered' BY <2>1, <2>2 DEF SInv, Numbered
  <2>6. \A n \in 1..run : OneResult(n)' BY <2>1, <2>2 DEF SInv, OneResult, Cut
  <2> QED BY <2>2, <2>3, <2>4, <2>5, <2>6 DEF SInv
<1> QED BY <1>1, <1>2, <1>3, <1>4, <1>5, <1>6 DEF Next

LEMMA SearchesKeepInvariant == Spec => []SInv
<1>1. SInv /\ [Next]_vars => SInv' BY NextSearches
<1> QED BY <1>1, InitSearches, PTL DEF Spec

-----------------------------------------------------------------------------
(* Searches: what follows from the invariant *)

LEMMA SoundResults == SInv => ResultsAreSound
<1> SUFFICES ASSUME SInv PROVE ResultsAreSound OBVIOUS
<1>1. \A k \in Entries(cache) : cache[k] \in Item /\ Kept(k, cache[k])
  BY DEF SInv, Types, Sound, Entries
<1>2. TypeOK
  <2>1. ASSUME NEW k \in Keys, cache[k] # None PROVE cache[k].live \in BOOLEAN /\ cache[k].run \in 1..run
    <3>1. k \in Entries(cache) BY <2>1 DEF Entries
    <3> QED BY <1>1, <3>1 DEF Item, SInv, Numbered
  <2>2. ASSUME NEW s \in Searches, req[s] # None
        PROVE  /\ req[s].key \in Keys /\ req[s].pool \subseteq Workers
               /\ Len(TasksOf[req[s].key]) > 1 => Len(req[s].hits) = Max(req[s].lens)
    <3>1. PICK r \in Request : r = req[s] /\ Searching(r, work[s]) BY <2>2, SearchOf
    <3>2. r.key \in Keys /\ r.pool \subseteq Workers /\ r.lens \subseteq Nat /\ r.hits \in Seq(Files \X Nat) BY DEF Request
    <3>3. ASSUME Len(TasksOf[r.key]) > 1 PROVE Len(r.hits) = Max(r.lens)
      <4>1. PICK l : l = Len(r.hits) OBVIOUS
      <4>2. l \in r.lens /\ \A n \in r.lens : n \in Nat /\ n <= l
        BY <3>1, <3>2, <3>3, <4>1 DEF Searching, Several, Counted
      <4>3. \A m \in r.lens : (\A n \in r.lens : m >= n) => m = l BY <4>2
      <4>4. \A n \in r.lens : l >= n BY <4>2
      <4>5. (CHOOSE m \in r.lens : \A n \in r.lens : m >= n) = l BY <4>2, <4>3, <4>4
      <4> QED BY <4>1, <4>5 DEF Max
    <3> QED BY <3>1, <3>2, <3>3
  <2>3. ASSUME NEW s \in Searches, NEW w \in Workers, work[s][w].file # "none" PROVE req[s] # None /\ w \in req[s].pool
    <3>1. w \in InHand(work[s]) BY <2>3 DEF InHand
    <3>2. req[s] # None BY <3>1 DEF SInv, Sound
    <3> QED BY <3>1, <3>2, SearchOf DEF Searching, Handed
  <2>4. run \in 0..MaxSearches BY DEF SInv, Types
  <2> QED BY <2>1, <2>2, <2>3, <2>4 DEF TypeOK
<1>3. KeptResultIsWhole BY <1>1 DEF KeptResultIsWhole, Kept, Done, Entries
<1>4. OvershootIsBounded BY <1>1 DEF OvershootIsBounded, Results, Kept
<1>5. SummariesAddUp
  <2>1. \A k \in Entries(cache) :
           cache[k].hits \in Seq(Files \X Nat) /\ cache[k].sums \in [Files -> Nat] /\ Segments(cache[k].hits, cache[k].sums)
    BY <1>1 DEF Item, Kept
  <2>2. ASSUME NEW k \in Entries(cache)
        PROVE  /\ \A f \in Files : cache[k].sums[f] = Cardinality({j \in DOMAIN cache[k].hits : cache[k].hits[j][1] = f})
               /\ IsInjective(cache[k].hits)
    BY <2>1, SegmentsAddUp
  <2> QED BY <2>2 DEF SummariesAddUp, Results
<1>6. CacheIsBounded BY DEF SInv, Sound, CacheIsBounded
<1> QED BY <1>2, <1>3, <1>4, <1>5, <1>6 DEF ResultsAreSound

-----------------------------------------------------------------------------
(* Searches: pages *)

\* Where a page begins and ends.
From(page) == (page - 1) * PageSize
Upto(hits, page) == IF From(page) + PageSize > Len(hits) THEN Len(hits) ELSE From(page) + PageSize

\* A page holds the hits between its bounds.
LEMMA PageHolds ==
    ASSUME NEW S, NEW hits \in Seq(S), NEW page \in Nat \ {0}
    PROVE  /\ From(page) \in Nat /\ Upto(hits, page) \in Nat /\ Upto(hits, page) <= Len(hits)
           /\ Upto(hits, page) <= From(page) + PageSize
           /\ ToSet(PageOf(hits, page)) = {hits[j] : j \in (From(page) + 1)..Upto(hits, page)}
<1>1. PICK a \in Nat : a = From(page)
  <2>1. page - 1 \in Nat /\ PageSize \in Nat BY LimitsAssumption
  <2>2. (page - 1) * PageSize \in Nat BY <2>1
  <2> QED BY <2>2 DEF From
<1>7. PICK b \in Nat : b = Upto(hits, page)
  BY <1>1, LimitsAssumption DEF Upto
<1>2. b \in Nat /\ b <= Len(hits) /\ b <= a + PageSize /\ Len(hits) \in Nat
  BY <1>1, <1>7, LimitsAssumption DEF Upto
<1>3. PageOf(hits, page) = SubSeq(hits, a + 1, b) BY <1>1, <1>7 DEF PageOf, From, Upto
<1>4. PICK t : t = SubSeq(hits, a + 1, b) OBVIOUS
<1>5. /\ DOMAIN t = 1..(IF a + 1 > b THEN 0 ELSE b - a)
      /\ \A i \in DOMAIN t : t[i] = hits[i + a]
  BY <1>2, <1>4
<1>6. ToSet(t) = {hits[j] : j \in (a + 1)..b}
  <2>1. ASSUME NEW i \in DOMAIN t PROVE \E j \in (a + 1)..b : t[i] = hits[j]
    <3>1. i + a \in (a + 1)..b BY <1>2, <1>5
    <3> QED BY <1>5, <3>1
  <2>2. ASSUME NEW j \in (a + 1)..b PROVE \E i \in DOMAIN t : t[i] = hits[j]
    <3>1. j - a \in DOMAIN t /\ (j - a) + a = j BY <1>2, <1>5
    <3> QED BY <1>5, <3>1
  <2> QED BY <2>1, <2>2 DEF ToSet
<1> QED BY <1>1, <1>2, <1>3, <1>4, <1>6, <1>7

\* Every hit is on a page.
LEMMA PageFound ==
    ASSUME NEW j \in Nat \ {0}
    PROVE  \E p \in 1..j : From(p) < j /\ j <= From(p) + PageSize
<1>1. PICK z \in Nat \ {0} : z = PageSize BY LimitsAssumption
<1>2. PICK q \in Nat, e \in Nat : j - 1 = q * z + e /\ e < z
  <2>1. PICK d \in Nat : d = j - 1 OBVIOUS
  <2>2. d \div z \in Nat BY <1>1
  <2>3. PICK q \in Nat : q = d \div z BY <2>2
  <2>4. z * q <= d /\ d < z * q + z BY <1>1, <2>3, Z3
  <2>5. z * q = q * z /\ q * z \in Nat BY <1>1
  <2>6. PICK y \in Nat : y = q * z BY <2>5
  <2>7. d - y \in Nat /\ d = y + (d - y) /\ d - y < z BY <1>1, <2>4, <2>5, <2>6
  <2> QED BY <2>1, <2>6, <2>7
<1>3. PICK x \in Nat : x = q * z /\ x >= q
  <2>1. q * z \in Nat /\ q * z >= q BY <1>1
  <2> QED BY <2>1
<1>4. q + 1 \in 1..j BY <1>2, <1>3
<1>5. From(q + 1) = x BY <1>1, <1>3 DEF From
<1> QED BY <1>1, <1>2, <1>3, <1>4, <1>5

\* Two pages of the same hits share none.
LEMMA PagesApart ==
    ASSUME NEW S, NEW hits \in Seq(S), IsInjective(hits), NEW p \in Nat \ {0}, NEW q \in Nat \ {0}, p < q
    PROVE  ToSet(PageOf(hits, p)) \cap ToSet(PageOf(hits, q)) = {}
<1> SUFFICES ASSUME NEW e, e \in ToSet(PageOf(hits, p)), e \in ToSet(PageOf(hits, q)) PROVE FALSE OBVIOUS
<1>1. PICK i \in (From(p) + 1)..Upto(hits, p), j \in (From(q) + 1)..Upto(hits, q) : e = hits[i] /\ e = hits[j]
  BY PageHolds
<1>2. /\ From(p) \in Nat /\ From(q) \in Nat /\ Upto(hits, p) \in Nat /\ Upto(hits, q) \in Nat
      /\ Upto(hits, p) <= Len(hits) /\ Upto(hits, q) <= Len(hits) /\ Upto(hits, p) <= From(p) + PageSize
  BY PageHolds
<1>3. From(p) + PageSize <= From(q)
  <2>1. PICK z \in Nat \ {0}, a \in Nat, d \in Nat : z = PageSize /\ a = p - 1 /\ q - 1 = a + 1 + d
    <3>1. p - 1 \in Nat /\ (q - 1) - (p - 1) - 1 \in Nat OBVIOUS
    <3>2. q - 1 = (p - 1) + 1 + ((q - 1) - (p - 1) - 1) OBVIOUS
    <3> QED BY <3>1, <3>2, LimitsAssumption
  <2>2. (a + 1 + d) * z = a * z + z + d * z /\ a * z \in Nat /\ d * z \in Nat OBVIOUS
  <2>3. PICK x \in Nat, y \in Nat : x = a * z /\ y = d * z BY <2>2
  <2>4. From(p) = x /\ From(q) = x + z + y BY <2>1, <2>2, <2>3 DEF From
  <2> QED BY <2>1, <2>4
<1>4. i \in DOMAIN hits /\ j \in DOMAIN hits /\ i < j
  <2>1. DOMAIN hits = 1..Len(hits) /\ Len(hits) \in Nat OBVIOUS
  <2>2. PICK a \in Nat, b \in Nat, x \in Nat, y \in Nat, l \in Nat, z \in Nat :
           /\ a = From(p) /\ b = From(q) /\ x = Upto(hits, p) /\ y = Upto(hits, q) /\ l = Len(hits) /\ z = PageSize
    BY <1>2, <2>1, LimitsAssumption
  <2>3. i \in (a + 1)..x /\ j \in (b + 1)..y /\ x <= l /\ y <= l /\ x <= a + z /\ a + z <= b
    BY <1>2, <1>3, <2>2
  <2>4. i \in 1..l /\ j \in 1..l /\ i < j BY <2>3
  <2> QED BY <2>1, <2>2, <2>4
<1>5. i = j BY <1>1, <1>4 DEF IsInjective
<1> QED BY <1>2, <1>4, <1>5

LEMMA Partitioned == SInv => PagesPartition
<1> SUFFICES ASSUME SInv, NEW n \in {g.run : g \in got}
             PROVE  LET mine == {g \in got : g.run = n}
                        Of(g) == ToSet(g.hits)
                    IN  /\ \A g, h \in mine : g.page # h.page => Of(g) \cap Of(h) = {}
                        /\ \A g \in mine :
                             (\A p \in 1..g.total : (p - 1) * PageSize < g.total => \E h \in mine : h.page = p) =>
                                Cardinality(UNION {Of(h) : h \in mine}) = g.total
  BY DEF PagesPartition
<1> DEFINE mine == {g \in got : g.run = n}
           Of(g) == ToSet(g.hits)
<1>1. n \in 1..run BY DEF SInv, Numbered
<1>2. PICK hits \in Seq(Files \X Nat) : IsInjective(hits) /\ Cut(n, hits) BY <1>1 DEF SInv, OneResult
<1>3. \A g \in mine : /\ g.page \in Nat \ {0} /\ g.total = Len(hits) /\ Of(g) = ToSet(PageOf(hits, g.page))
  <2>1. \A g \in got : g.page \in Pages BY DEF SInv, Types, Page
  <2> QED BY <1>2, <2>1 DEF Cut, Pages
<1>4. ASSUME NEW g \in mine, NEW h \in mine, g.page # h.page PROVE Of(g) \cap Of(h) = {}
  <2>1. PICK p \in Nat \ {0}, q \in Nat \ {0} : p = g.page /\ q = h.page BY <1>3
  <2>2. p < q \/ q < p BY <1>4, <2>1
  <2>3. ToSet(PageOf(hits, p)) \cap ToSet(PageOf(hits, q)) = {} BY <1>2, <2>2, PagesApart
  <2> QED BY <1>3, <2>1, <2>3
<1>5. ASSUME NEW g \in mine, \A p \in 1..g.total : (p - 1) * PageSize < g.total => \E h \in mine : h.page = p
      PROVE  Cardinality(UNION {Of(h) : h \in mine}) = g.total
  <2>1. Len(hits) \in Nat /\ DOMAIN hits = 1..Len(hits) /\ g.total = Len(hits) BY <1>3
  <2>2. \A h \in mine : Of(h) \subseteq ToSet(hits)
    <3>1. ASSUME NEW h \in mine, NEW e \in Of(h) PROVE e \in ToSet(hits)
      <4>1. PICK p \in Nat \ {0} : p = h.page BY <1>3
      <4>2. e \in ToSet(PageOf(hits, p)) BY <1>3, <3>1, <4>1
      <4>3. PICK j \in (From(p) + 1)..Upto(hits, p) : e = hits[j] BY <4>2, PageHolds
      <4>4. j \in DOMAIN hits BY <2>1, <4>3, PageHolds
      <4> QED BY <4>3, <4>4 DEF ToSet
    <3> QED BY <3>1
  <2>3. ASSUME NEW j \in DOMAIN hits PROVE \E h \in mine : hits[j] \in Of(h)
    <3>1. j \in Nat \ {0} /\ j <= Len(hits) BY <2>1
    <3>2. PICK p \in 1..j : From(p) < j /\ j <= From(p) + PageSize BY <3>1, PageFound
    <3>3. p \in Nat \ {0} /\ p \in 1..g.total /\ (p - 1) * PageSize < g.total
      <4>1. p \in Nat \ {0} /\ p \in 1..g.total BY <2>1, <3>1, <3>2
      <4>2. From(p) \in Nat BY <1>2, <4>1, PageHolds
      <4>3. From(p) < g.total BY <2>1, <3>1, <3>2, <4>2
      <4> QED BY <4>1, <4>3 DEF From
    <3>4. PICK h \in mine : h.page = p BY <1>5, <3>3
    <3>5. j \in (From(p) + 1)..Upto(hits, p)
      <4>1. From(p) \in Nat BY <3>3, PageHolds
      <4> QED BY <3>1, <3>2, <4>1 DEF Upto
    <3>6. hits[j] \in ToSet(PageOf(hits, p)) BY <3>3, <3>5, PageHolds
    <3> QED BY <1>3, <3>4, <3>6
  <2>4. UNION {Of(h) : h \in mine} = ToSet(hits)
    <3>1. \A e \in ToSet(hits) : \E h \in mine : e \in Of(h) BY <2>3 DEF ToSet
    <3> HIDE DEF mine, Of
    <3> QED BY <2>2, <3>1
  <2>5. hits \in Bijection(1..Len(hits), ToSet(hits))
    <3>1. hits \in [1..Len(hits) -> ToSet(hits)] BY <2>1 DEF ToSet
    <3>2. hits \in Surjection(1..Len(hits), ToSet(hits))
      BY <2>1, <3>1 DEF Surjection, ToSet
    <3>3. hits \in Injection(1..Len(hits), ToSet(hits)) BY <1>2, <2>1, <3>1 DEF Injection, IsInjective
    <3> QED BY <3>2, <3>3 DEF Bijection
  <2>6. IsFiniteSet(1..Len(hits)) /\ Cardinality(1..Len(hits)) = Len(hits)
    <3>1. Len(hits) \in Int /\ 1 \in Int BY <2>1
    <3>2. IsFiniteSet(1..Len(hits)) /\ Cardinality(1..Len(hits)) = IF 1 > Len(hits) THEN 0 ELSE Len(hits) - 1 + 1
      BY <3>1, FS_Interval
    <3>3. \A b \in Nat : (IF 1 > b THEN 0 ELSE b - 1 + 1) = b OBVIOUS
    <3>4. (IF 1 > Len(hits) THEN 0 ELSE Len(hits) - 1 + 1) = Len(hits) BY <2>1, <3>3, Zenon
    <3> QED BY <3>2, <3>4
  <2>7. Cardinality(ToSet(hits)) = Len(hits)
    <3>1. ExistsBijection(1..Len(hits), ToSet(hits)) BY <2>5 DEF ExistsBijection
    <3> QED BY <2>6, <3>1, FS_Bijection
  <2> QED BY <2>1, <2>4, <2>7
<1> QED BY <1>4, <1>5, Zenon

\* Every result that is kept is full or complete, a little above the cap at
\* most, with summaries that add up, and the cache is bounded: whatever the
\* races on the count of hits in SearchLogsContext and the cancellations.
THEOREM ResultsSound == Spec => []ResultsAreSound
<1>1. SInv => ResultsAreSound BY SoundResults
<1> QED BY <1>1, SearchesKeepInvariant, PTL

\* The pages cut from one computed result, at once or from the cache, do not
\* overlap, and together they are all of it.
THEOREM PagesPartitioned == Spec => []PagesPartition
<1>1. SInv => PagesPartition BY Partitioned
<1> QED BY <1>1, SearchesKeepInvariant, PTL

-----------------------------------------------------------------------------
(* Diagnoses: the invariant *)

Event == Diagnoses!Files \X (1..MaxEvents)
Busy(g) == scans[g] \in [file : Diagnoses!Files, limit : 1..MaxEvents]

\* What is in the report and what still is to come.
ReportType ==
    /\ pkg \in Packages
    /\ left \in Seq(Diagnoses!Files) /\ IsInjective(left)
    /\ events \in Seq(Event) /\ IsInjective(events)
    /\ Len(events) <= MaxEvents /\ total = Len(events)
    /\ \A g \in Goroutines : scans[g] \in {Diagnoses!Free, Diagnoses!Ended} \/ Busy(g)
    /\ DOMAIN scans = Goroutines

Eventless(f) == \A e \in ToSet(events) : e[1] # f

\* A file is in the channel, with one goroutine, or done with.
Apart ==
    /\ \A f \in ToSet(left) : Eventless(f)
    /\ \A g \in Goroutines : Busy(g) =>
          /\ scans[g].file \notin ToSet(left) /\ Eventless(scans[g].file)
          /\ \A h \in Goroutines \ {g} : Busy(h) => scans[h].file # scans[g].file

\* The number a goroutine has read may be old, but its limit was then what
\* the report had room for, and the room only shrinks.
LimitsReach == \A g \in Goroutines : Busy(g) => total + scans[g].limit >= MaxEvents

Read(f) ==
    \A k \in 1..MaxEvents : <<f, k>> \in ToSet(events) <=> f \notin pkg.broken /\ k <= pkg.count[f]

Whole ==
    Len(events) < MaxEvents =>
        \A f \in Diagnoses!Files : \/ f \in ToSet(left)
                                   \/ \E g \in Goroutines : Busy(g) /\ scans[g].file = f
                                   \/ Read(f)

Finishing ==
    /\ Len(events) < MaxEvents => \A g \in Goroutines : scans[g] = Diagnoses!Ended => left = <<>>
    /\ report # Diagnoses!Running => \A g \in Goroutines : scans[g] = Diagnoses!Ended

ReportInv == ReportType /\ Apart /\ LimitsReach /\ Whole /\ Finishing

-----------------------------------------------------------------------------
(* Diagnoses: lists of events *)

\* The first events of a file.
EventsOf(f, n) == [i \in 1..n |-> <<f, i>>]

\* Events of one file put behind those of others.
LEMMA ConcatEvents ==
    ASSUME NEW s \in Seq(Event), IsInjective(s), NEW f \in Diagnoses!Files, NEW n \in 0..MaxEvents, MaxEvents \in Nat,
           \A e \in ToSet(s) : e[1] # f,
           NEW t, t = s \o EventsOf(f, n)
    PROVE  /\ t \in Seq(Event) /\ IsInjective(t) /\ Len(t) = Len(s) + n
           /\ ToSet(t) = ToSet(s) \cup {<<f, k>> : k \in 1..n}
<1> USE DEF EventsOf
<1>1. EventsOf(f, n) \in Seq(Event) /\ Len(EventsOf(f, n)) = n
  <2>1. \A i \in 1..n : <<f, i>> \in Event BY DEF Event
  <2> QED BY <2>1
<1>2. t \in Seq(Event) /\ Len(t) = Len(s) + n /\ DOMAIN t = 1..(Len(s) + n) BY <1>1
<1>3. /\ \A i \in 1..Len(s) : t[i] = s[i]
      /\ \A i \in (Len(s) + 1)..(Len(s) + n) : t[i] = <<f, i - Len(s)>>
  BY <1>1
<1>4. DOMAIN s = 1..Len(s) /\ Len(s) \in Nat OBVIOUS
<1>5. \A i \in 1..Len(s) : s[i][1] # f BY <1>4 DEF ToSet
<1>6. IsInjective(t)
  <2> SUFFICES ASSUME NEW i \in 1..(Len(s) + n), NEW j \in 1..(Len(s) + n), t[i] = t[j] PROVE i = j
    BY <1>2 DEF IsInjective
  <2>1. CASE i <= Len(s) /\ j <= Len(s) BY <1>3, <1>4, <2>1 DEF IsInjective
  <2>2. CASE i > Len(s) /\ j > Len(s)
    <3>1. t[i] = <<f, i - Len(s)>> /\ t[j] = <<f, j - Len(s)>> BY <1>3, <1>4, <2>2
    <3>2. i - Len(s) = j - Len(s) BY <3>1
    <3> QED BY <1>4, <3>2
  <2>3. CASE i <= Len(s) /\ j > Len(s)
    <3>1. t[i][1] # f BY <1>3, <1>4, <1>5, <2>3
    <3>2. t[j][1] = f BY <1>3, <1>4, <2>3
    <3> QED BY <3>1, <3>2
  <2>4. CASE i > Len(s) /\ j <= Len(s)
    <3>1. t[j][1] # f BY <1>3, <1>4, <1>5, <2>4
    <3>2. t[i][1] = f BY <1>3, <1>4, <2>4
    <3> QED BY <3>1, <3>2
  <2> QED BY <1>4, <2>1, <2>2, <2>3, <2>4
<1>7. ToSet(t) = ToSet(s) \cup {<<f, k>> : k \in 1..n}
  <2>1. ASSUME NEW e \in ToSet(t) PROVE e \in ToSet(s) \cup {<<f, k>> : k \in 1..n}
    <3>1. PICK i \in 1..(Len(s) + n) : e = t[i] BY <1>2 DEF ToSet
    <3>2. CASE i <= Len(s) BY <1>3, <1>4, <3>1, <3>2 DEF ToSet
    <3>3. CASE i > Len(s)
      <4>1. i - Len(s) \in 1..n /\ e = <<f, i - Len(s)>> BY <1>3, <1>4, <3>1, <3>3
      <4> QED BY <4>1
    <3> QED BY <1>4, <3>2, <3>3
  <2>2. ASSUME NEW e \in ToSet(s) PROVE e \in ToSet(t)
    <3>1. PICK i \in 1..Len(s) : e = s[i] BY <1>4 DEF ToSet
    <3>2. i \in DOMAIN t /\ t[i] = e BY <1>2, <1>3, <1>4, <3>1
    <3> QED BY <3>2 DEF ToSet
  <2>3. ASSUME NEW k \in 1..n PROVE <<f, k>> \in ToSet(t)
    <3>1. Len(s) + k \in DOMAIN t /\ t[Len(s) + k] = <<f, k>>
      <4>1. Len(s) + k \in (Len(s) + 1)..(Len(s) + n) /\ (Len(s) + k) - Len(s) = k BY <1>4
      <4> QED BY <1>2, <1>3, <1>4, <4>1
    <3> QED BY <3>1 DEF ToSet
  <2> QED BY <2>1, <2>2, <2>3
<1> QED BY <1>2, <1>6, <1>7

-----------------------------------------------------------------------------
(* Diagnoses: each step keeps the invariant *)

LEMMA InitReport == ASSUME Diagnoses!Init PROVE ReportInv
<1>1. \A g \in Goroutines : scans[g] = Diagnoses!Free /\ ~Busy(g) BY DEF Diagnoses!Init, Busy, Diagnoses!Free
<1>2. events = <<>> /\ ToSet(events) = {} /\ Len(events) = 0 /\ events \in Seq(Event) /\ IsInjective(events)
  BY DEF Diagnoses!Init, ToSet, IsInjective
<1>3. ReportType BY <1>1, <1>2, PackagesAssumption DEF Diagnoses!Init, ReportType
<1>4. Apart /\ LimitsReach BY <1>1, <1>2 DEF Apart, LimitsReach, Eventless
<1>5. Whole BY DEF Diagnoses!Init, Whole, Diagnoses!Files, Diagnoses!ToSet, ToSet
<1>6. Finishing BY <1>1 DEF Diagnoses!Init, Finishing, Diagnoses!Free, Diagnoses!Ended
<1> QED BY <1>3, <1>4, <1>5, <1>6 DEF ReportInv

\* When the report goes on, a goroutine is still at scans.
LEMMA NotYetReported ==
    ASSUME ReportInv, NEW g \in Goroutines, Diagnoses!Step(g) PROVE report = Diagnoses!Running /\ UNCHANGED <<pkg, report>>
BY DEF ReportInv, Finishing, Diagnoses!Step, Diagnoses!Takes, Diagnoses!Leaves, Diagnoses!Adds, Diagnoses!Free, Diagnoses!Ended

LEMMA TakesReport == ASSUME ReportInv, NEW g \in Goroutines, Diagnoses!Takes(g) PROVE ReportInv'
<1> DEFINE f == Head(left)
           w == IF total >= MaxEvents THEN Diagnoses!Ended ELSE [file |-> f, limit |-> MaxEvents - total]
<1>1. /\ f \in Diagnoses!Files /\ left' \in Seq(Diagnoses!Files) /\ IsInjective(left')
      /\ ToSet(left) = {f} \cup ToSet(left') /\ f \notin ToSet(left')
  BY TailOf DEF ReportInv, ReportType, Diagnoses!Takes
<1>2. scans' = [scans EXCEPT ![g] = w] /\ scans[g] = Diagnoses!Free /\ UNCHANGED <<pkg, events, total, report>>
  BY DEF Diagnoses!Takes
<1>3. total \in 0..MaxEvents /\ total = Len(events) /\ MaxEvents \in Nat
  BY PackagesAssumption DEF ReportInv, ReportType
<1>4. scans'[g] = w /\ \A h \in Goroutines \ {g} : scans'[h] = scans[h]
  BY <1>2 DEF ReportInv, ReportType
<1>5. Busy(g)' => scans'[g].file = f /\ total < MaxEvents /\ scans'[g].limit = MaxEvents - total
  BY <1>3, <1>4 DEF Busy, Diagnoses!Ended
<1>6. total < MaxEvents => w \in [file : Diagnoses!Files, limit : 1..MaxEvents] BY <1>1, <1>3
<1>7. ReportType'
  <2>1. \A h \in Goroutines : scans'[h] \in {Diagnoses!Free, Diagnoses!Ended} \/ Busy(h)'
    <3>1. \A h \in Goroutines \ {g} : scans'[h] \in {Diagnoses!Free, Diagnoses!Ended} \/ Busy(h)'
      BY <1>4 DEF Busy, ReportInv, ReportType
    <3>2. w = Diagnoses!Ended \/ w \in [file : Diagnoses!Files, limit : 1..MaxEvents] BY <1>3, <1>6
    <3> QED BY <1>4, <3>1, <3>2 DEF Busy
  <2> QED BY <1>1, <1>2, <2>1 DEF ReportInv, ReportType
<1>8. Apart'
  <2>1. ToSet(events') = ToSet(events) /\ \A x : Eventless(x)' <=> Eventless(x) BY <1>2 DEF Eventless
  <2>2. \A h \in Goroutines \ {g} : Busy(h)' <=> Busy(h) BY <1>4 DEF Busy
  <2>3. ~Busy(g) BY <1>2 DEF Busy, Diagnoses!Free
  <2>4. Eventless(f) /\ \A h \in Goroutines \ {g} : Busy(h) => scans[h].file # f
    BY <1>1 DEF ReportInv, Apart
  <2>5. \A x \in ToSet(left') : Eventless(x)' BY <1>1, <2>1 DEF ReportInv, Apart
  <2>6. Busy(g)' => /\ scans'[g].file \notin ToSet(left') /\ Eventless(scans[g].file)'
                    /\ \A h \in Goroutines \ {g} : Busy(h)' => scans'[h].file # scans'[g].file
    BY <1>1, <1>4, <1>5, <2>1, <2>2, <2>4 DEF Eventless
  <2>7. ASSUME NEW k \in Goroutines \ {g}, Busy(k)'
        PROVE  /\ scans'[k].file \notin ToSet(left') /\ Eventless(scans[k].file)'
               /\ \A h \in Goroutines \ {k} : Busy(h)' => scans'[h].file # scans'[k].file
    <3>1. /\ scans[k].file \notin ToSet(left) /\ Eventless(scans[k].file)
          /\ \A h \in Goroutines \ {k} : Busy(h) => scans[h].file # scans[k].file
      BY <2>2, <2>7 DEF ReportInv, Apart
    <3>2. scans'[k] = scans[k] BY <1>4
    <3>3. scans[k].file # f BY <1>1, <3>1
    <3>4. \A h \in Goroutines \ {k} : Busy(h)' => scans'[h].file # scans'[k].file
      BY <1>4, <1>5, <2>2, <3>1, <3>2, <3>3
    <3>5. Eventless(scans[k].file)' BY <2>1, <3>1, <3>2 DEF Eventless
    <3> QED BY <1>1, <3>1, <3>2, <3>4, <3>5
  <2> QED BY <2>5, <2>6, <2>7 DEF Apart
<1>9. LimitsReach'
  <2>1. \A h \in Goroutines \ {g} : Busy(h)' <=> Busy(h) BY <1>4 DEF Busy
  <2> QED BY <1>2, <1>3, <1>4, <1>5, <2>1 DEF ReportInv, LimitsReach
<1>10. Whole'
  <2> SUFFICES ASSUME Len(events) < MaxEvents, NEW x \in Diagnoses!Files
               PROVE  x \in ToSet(left') \/ (\E h \in Goroutines : Busy(h)' /\ scans'[h].file = x) \/ Read(x)'
    BY <1>2 DEF Whole
  <2>1. x \in ToSet(left) \/ (\E h \in Goroutines : Busy(h) /\ scans[h].file = x) \/ Read(x)
    BY DEF ReportInv, Whole
  <2>2. CASE x = f
    <3>1. Busy(g)' /\ scans'[g].file = x BY <1>3, <1>4, <1>6, <2>2 DEF Busy
    <3> QED BY <3>1
  <2>3. CASE x \in ToSet(left') BY <2>3
  <2>4. ASSUME NEW h \in Goroutines, Busy(h), scans[h].file = x
        PROVE  Busy(h)' /\ scans'[h].file = x
    <3>1. h # g BY <1>2, <2>4 DEF Busy, Diagnoses!Free
    <3> QED BY <1>4, <2>4, <3>1 DEF Busy
  <2>5. CASE Read(x) BY <1>2, <2>5 DEF Read
  <2> QED BY <1>1, <2>1, <2>2, <2>3, <2>4, <2>5
<1>11. Finishing'
  <2>1. Len(events) < MaxEvents => w # Diagnoses!Ended BY <1>1, <1>3, <1>6 DEF Diagnoses!Ended
  <2>2. Len(events) < MaxEvents => \A h \in Goroutines : scans'[h] # Diagnoses!Ended
    BY <1>4, <2>1 DEF ReportInv, Finishing, Diagnoses!Takes
  <2> QED BY <1>2, <2>2, NotYetReported DEF Finishing, Diagnoses!Step
<1> QED BY <1>7, <1>8, <1>9, <1>10, <1>11 DEF ReportInv

LEMMA LeavesReport == ASSUME ReportInv, NEW g \in Goroutines, Diagnoses!Leaves(g) PROVE ReportInv'
<1>1. scans' = [scans EXCEPT ![g] = Diagnoses!Ended] /\ scans[g] = Diagnoses!Free /\ left = <<>>
      /\ UNCHANGED <<pkg, left, events, total, report>>
  BY DEF Diagnoses!Leaves
<1>2. scans'[g] = Diagnoses!Ended /\ \A h \in Goroutines \ {g} : scans'[h] = scans[h] BY <1>1 DEF ReportInv, ReportType
<1>3. \A h \in Goroutines : (Busy(h)' <=> Busy(h)) /\ (Busy(h) => scans'[h] = scans[h])
  BY <1>1, <1>2 DEF Busy, Diagnoses!Free, Diagnoses!Ended
<1>4. ReportType' BY <1>1, <1>2, <1>3 DEF ReportInv, ReportType
<1>5. Apart' /\ LimitsReach' BY <1>1, <1>3 DEF ReportInv, Apart, LimitsReach, Eventless
<1>6. Whole' BY <1>1, <1>3 DEF ReportInv, Whole, Read
<1>7. Finishing' BY <1>1, NotYetReported DEF Finishing, Diagnoses!Step
<1> QED BY <1>4, <1>5, <1>6, <1>7 DEF ReportInv

LEMMA AddsReport == ASSUME ReportInv, NEW g \in Goroutines, Diagnoses!Adds(g) PROVE ReportInv'
<1> DEFINE f == scans[g].file
           limit == scans[g].limit
           has == Diagnoses!Found(f, limit)
           room == MaxEvents - Len(events)
           n == IF has > 0 /\ Len(events) < MaxEvents THEN IF has > room THEN room ELSE has ELSE 0
<1>1. Busy(g) /\ f \in Diagnoses!Files /\ limit \in 1..MaxEvents BY DEF Diagnoses!Adds, ReportInv, ReportType, Busy
<1>2. scans' = [scans EXCEPT ![g] = Diagnoses!Free] /\ UNCHANGED <<pkg, left, report>> BY DEF Diagnoses!Adds
<1>3. scans'[g] = Diagnoses!Free /\ \A h \in Goroutines \ {g} : scans'[h] = scans[h] BY <1>2 DEF ReportInv, ReportType
<1>4. /\ MaxEvents \in Nat \ {0} /\ Len(events) \in 0..MaxEvents /\ total = Len(events)
      /\ pkg.count[f] \in Nat
  BY <1>1, PackagesAssumption DEF ReportInv, ReportType
<1>5. has \in Nat BY <1>1, <1>4 DEF Diagnoses!Found
<1>6. n \in 0..MaxEvents /\ Len(events) + n \in 0..MaxEvents BY <1>4, <1>5
<1>7. Eventless(f) BY <1>1 DEF ReportInv, Apart
<1>8. /\ events' \in Seq(Event) /\ IsInjective(events') /\ Len(events') = Len(events) + n
      /\ ToSet(events') = ToSet(events) \cup {<<f, k>> : k \in 1..n}
      /\ total' = Len(events')
  <2>1. CASE has > 0 /\ Len(events) < MaxEvents
    <3>1. events' = events \o EventsOf(f, n) /\ total' = Len(events')
      BY <2>1 DEF Diagnoses!Adds, Diagnoses!Available, EventsOf
    <3> HIDE DEF n, f
    <3>2. events \in Seq(Event) /\ IsInjective(events) /\ \A e \in ToSet(events) : e[1] # f
      BY <1>7 DEF ReportInv, ReportType, Eventless
    <3>3. f \in Diagnoses!Files /\ n \in 0..MaxEvents /\ MaxEvents \in Nat BY <1>1, <1>4, <1>6
    <3> QED BY <3>1, <3>2, <3>3, ConcatEvents
  <2>2. CASE ~(has > 0 /\ Len(events) < MaxEvents)
    <3>1. n = 0 /\ events' = events /\ total' = total BY <2>2 DEF Diagnoses!Adds
    <3>2. {<<f, k>> : k \in 1..n} = {} BY <3>1
    <3> HIDE DEF n
    <3> QED BY <1>4, <3>1, <3>2 DEF ReportInv, ReportType
  <2> QED BY <2>1, <2>2
<1> HIDE DEF n, has
<1>9. \A h \in Goroutines : Busy(h)' <=> h # g /\ Busy(h) BY <1>3 DEF Busy, Diagnoses!Free
<1>10. \A x : x # f /\ Eventless(x) => Eventless(x)'
  <2> SUFFICES ASSUME NEW x, x # f, Eventless(x), NEW e \in ToSet(events') PROVE e[1] # x
    BY DEF Eventless
  <2> QED BY <1>8 DEF Eventless
<1>11. ReportType'
  <2>1. \A h \in Goroutines : scans'[h] \in {Diagnoses!Free, Diagnoses!Ended} \/ Busy(h)'
    BY <1>3, <1>9 DEF ReportInv, ReportType
  <2> QED BY <1>2, <1>4, <1>6, <1>8, <2>1 DEF ReportInv, ReportType
<1>12. Apart'
  <2>1. f \notin ToSet(left) /\ \A h \in Goroutines \ {g} : Busy(h) => scans[h].file # f
    BY <1>1 DEF ReportInv, Apart
  <2>2. \A x \in ToSet(left') : Eventless(x)' BY <1>2, <1>10, <2>1 DEF ReportInv, Apart
  <2>3. ASSUME NEW h \in Goroutines, Busy(h)'
        PROVE  /\ scans'[h].file \notin ToSet(left') /\ Eventless(scans[h].file)'
               /\ \A k \in Goroutines \ {h} : Busy(k)' => scans'[k].file # scans'[h].file
    <3>1. h # g /\ Busy(h) /\ scans'[h] = scans[h] BY <1>3, <1>9, <2>3
    <3>2. /\ scans[h].file \notin ToSet(left) /\ Eventless(scans[h].file)
          /\ \A k \in Goroutines \ {h} : Busy(k) => scans[k].file # scans[h].file
      BY <3>1 DEF ReportInv, Apart
    <3>3. scans[h].file # f BY <2>1, <3>1
    <3>4. Eventless(scans[h].file)'
      <4>1. \A e \in ToSet(events') : e[1] # scans[h].file BY <1>10, <3>2, <3>3 DEF Eventless
      <4> QED BY <3>1, <4>1 DEF Eventless
    <3>5. \A k \in Goroutines \ {h} : Busy(k)' => scans'[k].file # scans'[h].file
      BY <1>3, <1>9, <3>1, <3>2
    <3> QED BY <1>2, <3>1, <3>2, <3>4, <3>5
  <2> QED BY <2>2, <2>3 DEF Apart
<1>13. LimitsReach'
  <2> SUFFICES ASSUME NEW h \in Goroutines, Busy(h)' PROVE total' + scans'[h].limit >= MaxEvents
    BY DEF LimitsReach
  <2>1. h # g /\ Busy(h) /\ scans'[h] = scans[h] /\ scans[h].limit \in Nat BY <1>3, <1>9 DEF Busy
  <2>2. total + scans[h].limit >= MaxEvents BY <2>1 DEF ReportInv, LimitsReach
  <2> QED BY <1>4, <1>6, <1>8, <2>1, <2>2
<1>14. Whole'
  <2> SUFFICES ASSUME Len(events') < MaxEvents, NEW x \in Diagnoses!Files
               PROVE  x \in ToSet(left') \/ (\E h \in Goroutines : Busy(h)' /\ scans'[h].file = x) \/ Read(x)'
    BY DEF Whole
  <2>1. Len(events) < MaxEvents BY <1>4, <1>6, <1>8
  <2>2. has < room /\ n = has
    BY <1>4, <1>5, <1>6, <1>8, <2>1 DEF n
  <2>3. has = IF f \in pkg.broken THEN 0 ELSE pkg.count[f]
    <3>1. Len(events) + limit >= MaxEvents BY <1>1, <1>4 DEF ReportInv, LimitsReach
    <3>2. has < limit BY <1>1, <1>4, <1>5, <2>2, <3>1
    <3> QED BY <1>1, <1>4, <3>2 DEF has, Diagnoses!Found
  <2>4. CASE x = f
    <3> SUFFICES ASSUME NEW k \in 1..MaxEvents
                 PROVE  <<f, k>> \in ToSet(events') <=> f \notin pkg.broken /\ k <= pkg.count[f]
      BY <1>2, <2>4 DEF Read
    <3>1. <<f, k>> \notin ToSet(events) BY <1>7 DEF Eventless
    <3>2. <<f, k>> \in ToSet(events') <=> k \in 1..n BY <1>8, <3>1
    <3>3. k \in 1..n <=> k <= n BY <1>6
    <3> QED BY <1>4, <2>2, <2>3, <3>2, <3>3
  <2>5. CASE x # f
    <3>1. x \in ToSet(left) \/ (\E h \in Goroutines : Busy(h) /\ scans[h].file = x) \/ Read(x)
      BY <2>1 DEF ReportInv, Whole
    <3>2. ASSUME NEW h \in Goroutines, Busy(h), scans[h].file = x
          PROVE  Busy(h)' /\ scans'[h].file = x
      BY <1>3, <1>9, <2>5, <3>2
    <3>3. CASE Read(x)
      <4>1. \A k \in 1..MaxEvents : <<x, k>> \in ToSet(events') <=> <<x, k>> \in ToSet(events)
        BY <1>8, <2>5
      <4> QED BY <1>2, <3>3, <4>1 DEF Read
    <3> QED BY <1>2, <3>1, <3>2, <3>3
  <2> QED BY <2>4, <2>5
<1>15. Finishing'
  <2>1. Len(events') < MaxEvents => Len(events) < MaxEvents BY <1>4, <1>6, <1>8
  <2>2. \A h \in Goroutines : scans'[h] = Diagnoses!Ended => scans[h] = Diagnoses!Ended BY <1>3 DEF Diagnoses!Free, Diagnoses!Ended
  <2> QED BY <1>2, <2>1, <2>2, NotYetReported DEF ReportInv, Finishing, Diagnoses!Step
<1> QED BY <1>11, <1>12, <1>13, <1>14, <1>15 DEF ReportInv

LEMMA NextReport == ReportInv /\ [Diagnoses!Next]_Diagnoses!vars => ReportInv'
<1> SUFFICES ASSUME ReportInv, [Diagnoses!Next]_Diagnoses!vars PROVE ReportInv' OBVIOUS
<1>1. CASE UNCHANGED Diagnoses!vars \/ Diagnoses!Completes
  <2>1. UNCHANGED <<pkg, left, scans, events, total>> BY <1>1 DEF Diagnoses!vars, Diagnoses!Completes
  <2>2. report' = report \/ \A g \in Goroutines : scans[g] = Diagnoses!Ended BY <1>1 DEF Diagnoses!vars, Diagnoses!Completes
  <2>3. \A g \in Goroutines : Busy(g)' <=> Busy(g) BY <2>1 DEF Busy
  <2>4. ReportType' BY <2>1, <2>3 DEF ReportInv, ReportType
  <2>5. Apart' /\ LimitsReach' BY <2>1, <2>3 DEF ReportInv, Apart, LimitsReach, Eventless
  <2>6. Whole' /\ Finishing' BY <2>1, <2>2, <2>3 DEF ReportInv, Whole, Read, Finishing
  <2> QED BY <2>4, <2>5, <2>6 DEF ReportInv
<1>2. ASSUME NEW g \in Goroutines, Diagnoses!Step(g) PROVE ReportInv'
  BY <1>2, TakesReport, LeavesReport, AddsReport DEF Diagnoses!Step
<1> QED BY <1>1, <1>2 DEF Diagnoses!Next

\* What is left are the last tasks, and a report's score is one.
ScoreInv ==
    /\ report \in Diagnoses!Running..100
    /\ Len(left) <= Len(Tasks)
    /\ \A i \in 1..Len(left) : left[i] = Tasks[Len(Tasks) - Len(left) + i]

LEMMA ScoreType == ASSUME ReportInv PROVE Diagnoses!HealthScore(events) \in 0..100
<1>1. ASSUME NEW sev PROVE Diagnoses!OfSeverity(events, sev) \in Nat
  <2> DEFINE such == {i \in DOMAIN events : Severity[events[i][1]] = sev}
  <2>1. Diagnoses!Cardinality(such) = Cardinality(such) BY DEF Diagnoses!Cardinality, Cardinality
  <2>2. DOMAIN events = 1..Len(events) /\ Len(events) \in Nat BY DEF ReportInv, ReportType
  <2>3. IsFiniteSet(DOMAIN events) BY <2>2, FS_Interval
  <2>4. Cardinality(such) \in Nat BY <2>3, FS_Subset, FS_CardinalityType
  <2> QED BY <2>1, <2>4 DEF Diagnoses!OfSeverity
<1>2. /\ Diagnoses!OfSeverity(events, "FATAL") \in Nat /\ Diagnoses!OfSeverity(events, "CRITICAL") \in Nat
      /\ Diagnoses!OfSeverity(events, "WARNING") \in Nat
  BY <1>1
<1>3. \A a, b, c \in Nat :
        (LET score == 100 - 25 * a - 10 * b - 3 * c IN IF score < 0 THEN 0 ELSE score) \in 0..100
  OBVIOUS
<1> QED BY <1>2, <1>3, Zenon DEF Diagnoses!HealthScore

LEMMA InitScore == ASSUME Diagnoses!Init PROVE ScoreInv
BY PackagesAssumption DEF Diagnoses!Init, ScoreInv, Diagnoses!Running

LEMMA NextScore == ReportInv /\ ScoreInv /\ (Diagnoses!Next \/ UNCHANGED Diagnoses!vars) => ScoreInv'
<1> SUFFICES ASSUME ReportInv, ScoreInv, Diagnoses!Next \/ UNCHANGED Diagnoses!vars PROVE ScoreInv' OBVIOUS
<1>1. left \in Seq(Diagnoses!Files) /\ Tasks \in Seq(Diagnoses!Files) BY PackagesAssumption DEF ReportInv, ReportType
<1>2. report' \in Diagnoses!Running..100
  <2>1. report' = report \/ report' = Diagnoses!HealthScore(events)
    BY DEF Diagnoses!Next, Diagnoses!Completes, Diagnoses!Step, Diagnoses!Takes, Diagnoses!Leaves, Diagnoses!Adds, Diagnoses!vars
  <2>2. Diagnoses!HealthScore(events) \in 0..100 BY ScoreType
  <2>3. \A k \in 0..100 : k \in Diagnoses!Running..100 BY DEF Diagnoses!Running
  <2>4. report \in Diagnoses!Running..100 BY DEF ScoreInv
  <2> QED BY <2>1, <2>2, <2>3, <2>4, Zenon
<1>3. left' = left \/ (left # <<>> /\ left' = Tail(left))
  BY DEF Diagnoses!Next, Diagnoses!Completes, Diagnoses!Step, Diagnoses!Takes, Diagnoses!Leaves, Diagnoses!Adds, Diagnoses!vars
<1>4. CASE left' = left BY <1>2, <1>4 DEF ScoreInv
<1>5. CASE left # <<>> /\ left' = Tail(left)
  <2>1. /\ Len(left') = Len(left) - 1 /\ Len(left) \in Nat \ {0} /\ Len(Tasks) \in Nat
        /\ \A i \in 1..(Len(left) - 1) : left'[i] = left[i + 1]
    BY <1>1, <1>5
  <2>2. Len(left') <= Len(Tasks) BY <2>1 DEF ScoreInv
  <2>3. ASSUME NEW i \in 1..Len(left') PROVE left'[i] = Tasks[Len(Tasks) - Len(left') + i]
    <3>1. i \in 1..(Len(left) - 1) /\ i + 1 \in 1..Len(left) BY <2>1
    <3>2. left'[i] = Tasks[Len(Tasks) - Len(left) + (i + 1)] BY <2>1, <3>1 DEF ScoreInv
    <3>3. Len(Tasks) - Len(left) + (i + 1) = Len(Tasks) - Len(left') + i BY <2>1
    <3> QED BY <3>2, <3>3
  <2> QED BY <1>2, <2>2, <2>3 DEF ScoreInv
<1> QED BY <1>3, <1>4, <1>5

LEMMA ReportOfInv == ReportInv /\ ScoreInv => Diagnoses!TypeOK /\ Diagnoses!ReportIsFullOrWhole
<1> SUFFICES ASSUME ReportInv, ScoreInv PROVE Diagnoses!TypeOK /\ Diagnoses!ReportIsFullOrWhole OBVIOUS
<1>1. Diagnoses!ReportIsFullOrWhole
  <2>1. Len(events) <= MaxEvents /\ IsInjective(events) BY DEF ReportInv, ReportType
  <2>2. ASSUME report # Diagnoses!Running, Len(events) < MaxEvents
        PROVE  ToSet(events) = {e \in Diagnoses!Files \X (1..MaxEvents) : e[1] \notin pkg.broken /\ e[2] <= pkg.count[e[1]]}
    <3>1. left = <<>> /\ \A g \in Goroutines : ~Busy(g)
      BY <2>2, PackagesAssumption DEF ReportInv, Finishing, Busy, Diagnoses!Ended
    <3>2. \A f \in Diagnoses!Files : Read(f) BY <2>2, <3>1 DEF ReportInv, Whole, ToSet
    <3>3. ToSet(events) \subseteq Event
      BY DEF ReportInv, ReportType, ToSet
    <3>4. \A e \in Event : e = <<e[1], e[2]>> /\ e[1] \in Diagnoses!Files /\ e[2] \in 1..MaxEvents BY DEF Event
    <3>5. \A e \in Event : e \in ToSet(events) <=> e[1] \notin pkg.broken /\ e[2] <= pkg.count[e[1]]
      BY <3>2, <3>4 DEF Read
    <3> QED BY <3>3, <3>5 DEF Event
  <2> QED BY <2>1, <2>2 DEF Diagnoses!ReportIsFullOrWhole, Diagnoses!IsInjective, IsInjective, Diagnoses!ToSet, ToSet
<1>2. Diagnoses!TypeOK
  <2>1. left \in Seq(Diagnoses!Files) /\ Tasks \in Seq(Diagnoses!Files) BY PackagesAssumption DEF ReportInv, ReportType
  <2>2. ASSUME NEW i \in 1..Len(left) PROVE left[Len(left) - i + 1] = Tasks[Len(Tasks) - i + 1]
    <3>1. Len(left) - i + 1 \in 1..Len(left) /\ Len(Tasks) - Len(left) + (Len(left) - i + 1) = Len(Tasks) - i + 1 BY <2>1
    <3> QED BY <3>1 DEF ScoreInv
  <2>3. Diagnoses!IsSuffix(left, Tasks)
    <3> DEFINE l == Diagnoses!Reverse(left)
               t == Diagnoses!Reverse(Tasks)
    <3>1. l = [i \in 1..Len(left) |-> left[Len(left) - i + 1]] /\ t = [i \in 1..Len(Tasks) |-> Tasks[Len(Tasks) - i + 1]]
      BY DEF Diagnoses!Reverse
    <3>2. /\ \A i \in 1..Len(left) : left[Len(left) - i + 1] \in Diagnoses!Files
          /\ \A i \in 1..Len(Tasks) : Tasks[Len(Tasks) - i + 1] \in Diagnoses!Files
      BY <2>1
    <3>3. Len(left) \in Nat /\ Len(Tasks) \in Nat /\ Len(left) <= Len(Tasks) BY <2>1 DEF ScoreInv
    <3>4. l \in Seq(Diagnoses!Files) /\ Len(l) = Len(left) /\ t \in Seq(Diagnoses!Files) /\ Len(t) = Len(Tasks)
      BY <3>1, <3>2, <3>3
    <3>5. \A i \in 1..Len(left) : l[i] = t[i] BY <2>2, <3>1, <3>3
    <3> HIDE DEF l, t
    <3>6. SubSeq(l, 1, Len(l)) = SubSeq(t, 1, Len(l)) BY <3>3, <3>4, <3>5
    <3>7. Diagnoses!IsPrefix(l, t) BY <3>3, <3>4, <3>6 DEF Diagnoses!IsPrefix
    <3> QED BY <3>7 DEF Diagnoses!IsSuffix, l, t
  <2> QED BY <2>3 DEF ReportInv, ReportType, ScoreInv, Busy, Diagnoses!TypeOK
<1> QED BY <1>1, <1>2

\* The report of any package, whatever its files and events and however many
\* goroutines race on the number of events, has no more events than it may and
\* none twice; a finished one is full, or has every event of the files that can
\* be read and none of the others.
THEOREM ReportIsSound == Diagnoses!Spec => []Diagnoses!ReportIsFullOrWhole
<1>1. Diagnoses!Init => ReportInv /\ ScoreInv BY InitReport, InitScore
<1>2. ReportInv /\ ScoreInv /\ [Diagnoses!Next]_Diagnoses!vars => ReportInv' /\ ScoreInv' BY NextReport, NextScore
<1>3. ReportInv /\ ScoreInv => Diagnoses!ReportIsFullOrWhole BY ReportOfInv
<1> QED BY <1>1, <1>2, <1>3, PTL DEF Diagnoses!Spec

-----------------------------------------------------------------------------
(* Indexes: the invariant *)

Asking == [at : {"outside", "disk", "lock", "build", "served"}, seen : Nat, index : Index \cup {NoIndex}]

\* n parts that were all read from one version.
AllOf(s, n, v) == Len(s) = n /\ \A j \in 1..n : s[j] = v
Exact(index, v) == index.label = v /\ AllOf(index.body, Parts, v)

CacheTypes ==
    /\ kind \in {"line", "bloom"} /\ mixed \in BOOLEAN
    /\ version \in 1..MaxVersions /\ builds \in 0..MaxBuilds /\ evictions \in 0..MaxEvictions
    /\ memory \in Index \cup {NoIndex} /\ holder \in Readers \cup {NoIndex}
    /\ reader \in [Readers -> Asking]
    /\ saver \in [1..MaxBuilds -> SaveJob \cup {NoIndex}]
    /\ inodes \in [1..MaxBuilds -> Seq(Nat)]
    /\ tmp \in 0..builds /\ idx \in 0..builds

\* One reader builds, under the lock; the file a saver opens is not the one
\* the name of the index leads to.
OneBuilder ==
    /\ \A r \in Readers : (reader[r].at = "build") <=> (holder = r)
    /\ \A r \in Readers : reader[r].at \in {"build", "served"} => reader[r].index # NoIndex
    /\ holder # NoIndex => builds \notin {0, tmp, idx} /\ saver[builds] = NoIndex
OwnFile ==
    /\ tmp # 0 => tmp # idx
    /\ \A s \in 1..MaxBuilds : saver[s] # NoIndex =>
          /\ s <= builds /\ Len(saver[s].data.body) = Parts
          /\ saver[s].inode = 0 => s \notin {tmp, idx} /\ saver[s].next = 0
    /\ \A i \in 1..MaxBuilds : Len(inodes[i]) <= Parts + 1

\* Unless a change of the file met a request or a save, or two saves met,
\* whatever is at work is at work on the version of the file.
ReadersExact ==
    \A r \in Readers :
        /\ reader[r].at \in {"disk", "lock", "build"} => reader[r].seen = version
        /\ reader[r].at = "build" =>
              /\ reader[r].index.label = version /\ Len(reader[r].index.body) <= Parts
              /\ AllOf(reader[r].index.body, Len(reader[r].index.body), version)
        /\ reader[r].at = "served" => Exact(reader[r].index, reader[r].seen)
SaversExact ==
    \A s \in 1..MaxBuilds : saver[s] # NoIndex =>
        /\ Exact(saver[s].data, version)
        /\ \A t \in 1..MaxBuilds : saver[t] # NoIndex => t = s
        /\ saver[s].inode # 0 => tmp = saver[s].inode /\ AllOf(inodes[tmp], saver[s].next, version)
StoredExact ==
    /\ memory # NoIndex => Exact(memory, memory.label)
    /\ idx # 0 => AllOf(inodes[idx], Parts + 1, inodes[idx][1])

\* A build is paid for by a version, an eviction or a restart.
Paid ==
    /\ builds <= version + evictions
    /\ holder = NoIndex /\ (memory = NoIndex \/ memory.label # version) => builds < version + evictions

CacheInv ==
    /\ CacheTypes /\ OneBuilder /\ OwnFile
    /\ ~mixed => ReadersExact /\ SaversExact /\ StoredExact /\ Paid

-----------------------------------------------------------------------------
(* Indexes: each step keeps the invariant *)

LEMMA AllOfIs ==
    ASSUME NEW s \in Seq(Nat), NEW n \in Nat, NEW v, AllOf(s, n, v)
    PROVE  s = [i \in 1..n |-> v]
BY DEF AllOf

LEMMA AllOfAppend ==
    ASSUME NEW s \in Seq(Nat), NEW v \in Nat, AllOf(s, Len(s), v)
    PROVE  Append(s, v) \in Seq(Nat) /\ AllOf(Append(s, v), Len(s) + 1, v) /\ Len(Append(s, v)) = Len(s) + 1
<1>1. Append(s, v) \in Seq(Nat) /\ Len(Append(s, v)) = Len(s) + 1 OBVIOUS
<1>2. \A j \in 1..(Len(s) + 1) : Append(s, v)[j] = v BY DEF AllOf
<1> QED BY <1>1, <1>2 DEF AllOf

LEMMA InitIndex == ASSUME Indexes!Init PROVE CacheInv
<1>1. \A r \in Readers : reader[r] = Indexes!Outside BY DEF Indexes!Init
<1>2. Indexes!Outside = [at |-> "outside", seen |-> 0, index |-> NoIndex] BY DEF Indexes!Outside
<1>3. \A r \in Readers : reader[r].at = "outside" BY <1>1, <1>2
<1>4. \A s \in 1..MaxBuilds : saver[s] = NoIndex BY DEF Indexes!Init
<1>5. \A i \in 1..MaxBuilds : inodes[i] = <<>> BY DEF Indexes!Init
<1>6. CacheTypes
  <2>1. Indexes!Outside \in Asking /\ <<>> \in Seq(Nat) BY <1>2 DEF Asking
  <2>2. reader \in [Readers -> Asking] BY <2>1 DEF Indexes!Init
  <2>3. saver \in [1..MaxBuilds -> SaveJob \cup {NoIndex}] /\ inodes \in [1..MaxBuilds -> Seq(Nat)] BY <2>1 DEF Indexes!Init
  <2>4. /\ version \in 1..MaxVersions /\ builds \in 0..MaxBuilds /\ evictions \in 0..MaxEvictions
        /\ tmp \in 0..builds /\ idx \in 0..builds
    BY IndexAssumption DEF Indexes!Init
  <2> QED BY <2>2, <2>3, <2>4 DEF Indexes!Init, CacheTypes
<1>7. OneBuilder BY <1>3, IndexAssumption DEF Indexes!Init, OneBuilder
<1>8. OwnFile BY <1>4, <1>5, IndexAssumption DEF Indexes!Init, OwnFile
<1>9. ReadersExact /\ SaversExact /\ StoredExact BY <1>3, <1>4 DEF Indexes!Init, ReadersExact, SaversExact, StoredExact
<1>10. Paid BY DEF Indexes!Init, Paid
<1> QED BY <1>6, <1>7, <1>8, <1>9, <1>10 DEF CacheInv

\* What a reader that moves on leaves to prove: its own place.
LEMMA ReaderMoves ==
    ASSUME CacheInv, NEW r \in Readers, NEW q \in Asking, reader' = [reader EXCEPT ![r] = q],
           reader[r].at # "build", q.at # "build", q.at = "served" => q.index # NoIndex,
           UNCHANGED <<kind, version, holder, saver, inodes, tmp, idx, builds, evictions, mixed>>,
           memory' \in Index \cup {NoIndex},
           ~mixed => /\ q.at \in {"disk", "lock"} => q.seen = version
                     /\ q.at = "served" => Exact(q.index, q.seen)
                     /\ memory' = memory \/ (memory' # NoIndex /\ memory'.label = version /\ Exact(memory', version))
    PROVE  CacheInv'
<1>1. reader'[r] = q /\ \A x \in Readers \ {r} : reader'[x] = reader[x] BY DEF CacheInv, CacheTypes
<1>2. CacheTypes' BY DEF CacheInv, CacheTypes
<1>3. OneBuilder' BY <1>1 DEF CacheInv, OneBuilder
<1>4. OwnFile' BY DEF CacheInv, OwnFile
<1>5. ASSUME ~mixed PROVE ReadersExact' /\ SaversExact' /\ StoredExact' /\ Paid'
  <2>1. ReadersExact'
    <3>1. ASSUME NEW x \in Readers
          PROVE  /\ reader'[x].at \in {"disk", "lock", "build"} => reader'[x].seen = version
                 /\ reader'[x].at = "build" =>
                       /\ reader'[x].index.label = version /\ Len(reader'[x].index.body) <= Parts
                       /\ AllOf(reader'[x].index.body, Len(reader'[x].index.body), version)
                 /\ reader'[x].at = "served" => Exact(reader'[x].index, reader'[x].seen)
      <4>1. CASE x = r BY <1>1, <1>5, <4>1
      <4>2. CASE x # r BY <1>1, <1>5, <4>2 DEF CacheInv, ReadersExact
      <4> QED BY <4>1, <4>2
    <3> QED BY <3>1 DEF ReadersExact, Exact, AllOf
  <2>2. SaversExact' BY <1>5 DEF CacheInv, SaversExact, Exact, AllOf
  <2>3. StoredExact' BY <1>5 DEF CacheInv, StoredExact, Exact, AllOf
  <2>4. Paid' BY <1>5 DEF CacheInv, Paid
  <2> QED BY <2>1, <2>2, <2>3, <2>4
<1> QED BY <1>2, <1>3, <1>4, <1>5 DEF CacheInv

LEMMA AsksKeeps == ASSUME CacheInv, NEW r \in Readers, Indexes!Asks(r) PROVE CacheInv'
<1>1. reader[r].at = "outside" /\ UNCHANGED <<kind, version, memory, holder, saver, inodes, tmp, idx, builds, evictions, mixed>>
  BY DEF Indexes!Asks, Indexes!files
<1>2. version \in Nat /\ memory \in Index \cup {NoIndex} BY DEF CacheInv, CacheTypes
<1>3. CASE memory # NoIndex /\ memory.label = version
  <2>1. PICK q : q = [at |-> "served", seen |-> version, index |-> memory] OBVIOUS
  <2>2. reader' = [reader EXCEPT ![r] = q] BY <1>3, <2>1 DEF Indexes!Asks
  <2>3. q \in Asking /\ q.at = "served" /\ q.index = memory /\ q.seen = version BY <1>2, <2>1 DEF Asking
  <2>4. ~mixed => Exact(memory, version) BY <1>3 DEF CacheInv, StoredExact
  <2> QED BY <1>1, <1>2, <1>3, <2>2, <2>3, <2>4, ReaderMoves
<1>4. CASE ~(memory # NoIndex /\ memory.label = version)
  <2>1. PICK q : q = [at |-> "disk", seen |-> version, index |-> NoIndex] OBVIOUS
  <2>2. reader' = [reader EXCEPT ![r] = q] BY <1>4, <2>1 DEF Indexes!Asks
  <2>3. q \in Asking /\ q.at = "disk" /\ q.seen = version BY <1>2, <2>1 DEF Asking
  <2> QED BY <1>1, <1>2, <2>2, <2>3, ReaderMoves
<1> QED BY <1>3, <1>4

\* A whole file of an index leads to a whole index.
LEMMA LoadedIsExact ==
    ASSUME NEW blocks \in Seq(Nat), NEW seen \in Nat, NEW x, x = Indexes!Loaded(blocks, seen), x # NoIndex
    PROVE  /\ x \in Index /\ x.label = seen
           /\ Parts \in Nat /\ AllOf(blocks, Parts + 1, blocks[1]) => Exact(x, seen)
<1>1. Len(blocks) # 0 /\ blocks[1] = seen /\ x = [label |-> seen, body |-> Tail(blocks)] BY DEF Indexes!Loaded
<1>2. Tail(blocks) \in Seq(Nat) BY <1>1
<1>3. x \in Index /\ x.label = seen /\ x.body = Tail(blocks) BY <1>1, <1>2 DEF Index
<1>4. ASSUME Parts \in Nat, AllOf(blocks, Parts + 1, blocks[1]) PROVE AllOf(Tail(blocks), Parts, seen)
  <2>1. Len(blocks) = Parts + 1 /\ \A j \in 1..(Parts + 1) : blocks[j] = seen BY <1>1, <1>4 DEF AllOf
  <2>2. Len(Tail(blocks)) = Parts /\ \A j \in 1..Parts : Tail(blocks)[j] = blocks[j + 1] BY <1>1, <1>4, <2>1
  <2>3. \A j \in 1..Parts : j + 1 \in 1..(Parts + 1) BY <1>4
  <2> QED BY <2>1, <2>2, <2>3 DEF AllOf
<1> QED BY <1>3, <1>4 DEF Exact

LEMMA LooksOnDiskKeeps == ASSUME CacheInv, NEW r \in Readers, Indexes!LooksOnDisk(r) PROVE CacheInv'
<1>1. reader[r].at = "disk" /\ UNCHANGED <<kind, version, holder, saver, inodes, tmp, idx, builds, evictions, mixed>>
  BY DEF Indexes!LooksOnDisk, Indexes!files
<1>2. PICK a \in Asking : a = reader[r] BY DEF CacheInv, CacheTypes
<1>3. PICK x : x = IF idx = 0 THEN NoIndex ELSE Indexes!Loaded(inodes[idx], a.seen) OBVIOUS
<1>4. a.seen \in Nat BY DEF Asking
<1>5. CASE x = NoIndex
  <2>1. memory' = memory /\ reader' = [reader EXCEPT ![r].at = "lock", ![r].index = NoIndex]
    BY <1>2, <1>3, <1>5 DEF Indexes!LooksOnDisk, Indexes!Goes
  <2>2. PICK q : q = [a EXCEPT !.at = "lock", !.index = NoIndex] OBVIOUS
  <2>3. q \in Asking /\ q.at = "lock" /\ q.seen = a.seen BY <2>2 DEF Asking
  <2>4. reader' = [reader EXCEPT ![r] = q] BY <1>2, <2>1, <2>2 DEF CacheInv, CacheTypes
  <2>5. ~mixed => a.seen = version BY <1>1, <1>2 DEF CacheInv, ReadersExact
  <2>6. memory' \in Index \cup {NoIndex} BY <2>1 DEF CacheInv, CacheTypes
  <2> QED BY <1>1, <2>1, <2>3, <2>4, <2>5, <2>6, ReaderMoves
<1>6. CASE x # NoIndex
  <2>1. memory' = x /\ reader' = [reader EXCEPT ![r].at = "served", ![r].index = x]
    BY <1>2, <1>3, <1>6 DEF Indexes!LooksOnDisk, Indexes!Goes
  <2>2. PICK q : q = [a EXCEPT !.at = "served", !.index = x] OBVIOUS
  <2>3. idx # 0 /\ x = Indexes!Loaded(inodes[idx], a.seen) BY <1>3, <1>6
  <2>4. inodes[idx] \in Seq(Nat)
    <3>1. idx \in 1..MaxBuilds BY <2>3, IndexAssumption DEF CacheInv, CacheTypes
    <3> QED BY <3>1 DEF CacheInv, CacheTypes
  <2>5. PICK bs \in Seq(Nat) : bs = inodes[idx] BY <2>4
  <2>6. x \in Index /\ x.label = a.seen /\ (AllOf(bs, Parts + 1, bs[1]) => Exact(x, a.seen))
    BY <1>4, <1>6, <2>3, <2>5, LoadedIsExact, IndexAssumption
  <2>7. ~mixed => a.seen = version /\ Exact(x, a.seen)
    <3> SUFFICES ASSUME ~mixed PROVE a.seen = version /\ Exact(x, a.seen) OBVIOUS
    <3>1. a.seen = version BY <1>1, <1>2 DEF CacheInv, ReadersExact
    <3>2. AllOf(bs, Parts + 1, bs[1]) BY <2>3, <2>5 DEF CacheInv, StoredExact
    <3> QED BY <2>6, <3>1, <3>2
  <2>8. q \in Asking /\ q.at = "served" /\ q.seen = a.seen /\ q.index = x BY <2>2, <2>6 DEF Asking
  <2>9. reader' = [reader EXCEPT ![r] = q] BY <1>2, <2>1, <2>2 DEF CacheInv, CacheTypes
  <2> QED BY <1>1, <1>6, <2>1, <2>6, <2>7, <2>8, <2>9, ReaderMoves
<1> QED BY <1>5, <1>6

LEMMA LeavesKeepsIndex == ASSUME CacheInv, NEW r \in Readers, Indexes!Leaves(r) PROVE CacheInv'
<1>1. /\ reader[r].at = "served" /\ reader' = [reader EXCEPT ![r] = Indexes!Outside]
      /\ UNCHANGED <<kind, version, memory, holder, saver, inodes, tmp, idx, builds, evictions, mixed>>
  BY DEF Indexes!Leaves, Indexes!files
<1>2. PICK q : q = Indexes!Outside OBVIOUS
<1>3. q \in Asking /\ q.at = "outside" BY <1>2 DEF Indexes!Outside, Asking
<1>4. memory' \in Index \cup {NoIndex} BY <1>1 DEF CacheInv, CacheTypes
<1> QED BY <1>1, <1>2, <1>3, <1>4, ReaderMoves

LEMMA LocksKeeps == ASSUME CacheInv, NEW r \in Readers, Indexes!Locks(r) PROVE CacheInv'
<1>1. /\ reader[r].at = "lock" /\ holder = NoIndex
      /\ UNCHANGED <<kind, version, memory, saver, inodes, tmp, idx, evictions, mixed>>
  BY DEF Indexes!Locks, Indexes!files
<1>2. PICK a \in Asking : a = reader[r] BY DEF CacheInv, CacheTypes
<1>3. a.at = "lock" /\ a.seen \in Nat /\ memory \in Index \cup {NoIndex} BY <1>1, <1>2 DEF Asking, CacheInv, CacheTypes
<1>4. CASE Indexes!LooksAgain(r)
  <2>1. /\ reader' = [reader EXCEPT ![r].at = "served", ![r].index = memory] /\ UNCHANGED <<holder, builds>>
        /\ memory # NoIndex /\ memory.label = a.seen
    BY <1>2, <1>4 DEF Indexes!Locks, Indexes!Goes, Indexes!LooksAgain
  <2>2. PICK q : q = [a EXCEPT !.at = "served", !.index = memory] OBVIOUS
  <2>3. q \in Asking /\ q.at = "served" /\ q.seen = a.seen /\ q.index = memory BY <1>3, <2>2 DEF Asking
  <2>4. reader' = [reader EXCEPT ![r] = q] BY <1>2, <2>1, <2>2 DEF CacheInv, CacheTypes
  <2>5. ~mixed => Exact(memory, a.seen) BY <2>1 DEF CacheInv, StoredExact
  <2> QED BY <1>1, <1>3, <2>1, <2>3, <2>4, <2>5, ReaderMoves
<1>5. CASE ~Indexes!LooksAgain(r)
  <2>1. PICK x : x = [label |-> a.seen, body |-> <<>>] OBVIOUS
  <2>2. /\ builds < MaxBuilds /\ builds' = builds + 1 /\ holder' = r
        /\ reader' = [reader EXCEPT ![r].at = "build", ![r].index = x]
        /\ ~(memory # NoIndex /\ memory.label = a.seen)
    BY <1>2, <1>5, <2>1 DEF Indexes!Locks, Indexes!Goes, Indexes!LooksAgain
  <2>3. PICK q : q = [a EXCEPT !.at = "build", !.index = x] OBVIOUS
  <2>4. x \in Index /\ x.label = a.seen /\ x.body = <<>>
    <3>1. <<>> \in Seq(Nat) OBVIOUS
    <3> QED BY <1>3, <2>1, <3>1 DEF Index
  <2>5. q \in Asking /\ q.at = "build" /\ q.seen = a.seen /\ q.index = x BY <1>3, <2>3, <2>4 DEF Asking
  <2>6. reader' = [reader EXCEPT ![r] = q] BY <1>2, <2>2, <2>3 DEF CacheInv, CacheTypes
  <2>7. reader'[r] = q /\ \A y \in Readers \ {r} : reader'[y] = reader[y] BY <2>6 DEF CacheInv, CacheTypes
  <2>8. builds \in Nat /\ MaxBuilds \in Nat /\ builds + 1 \in 0..MaxBuilds /\ tmp \in 0..builds /\ idx \in 0..builds
    BY <2>2, IndexAssumption DEF CacheInv, CacheTypes
  <2>9. CacheTypes'
    <3>1. tmp \in 0..(builds + 1) /\ idx \in 0..(builds + 1) BY <2>8
    <3> QED BY <1>1, <2>2, <2>5, <2>6, <2>8, <3>1 DEF CacheInv, CacheTypes
  <2>10. OneBuilder'
    <3>1. \A y \in Readers : reader[y].at # "build" BY <1>1, IndexAssumption DEF CacheInv, OneBuilder
    <3>2. builds' \notin {0, tmp', idx'} BY <1>1, <2>2, <2>8
    <3>6. saver'[builds'] = NoIndex
      <4>1. builds + 1 \in 1..MaxBuilds /\ ~(builds + 1 <= builds) BY <2>8
      <4> QED BY <1>1, <2>2, <4>1 DEF CacheInv, OwnFile
    <3>3. x # NoIndex BY <2>4, IndexAssumption
    <3>4. \A y \in Readers : (reader'[y].at = "build") <=> (holder' = y) BY <2>2, <2>5, <2>7, <3>1
    <3>5. \A y \in Readers : reader'[y].at \in {"build", "served"} => reader'[y].index # NoIndex
      BY <2>5, <2>7, <3>3 DEF CacheInv, OneBuilder
    <3> QED BY <3>2, <3>4, <3>5, <3>6 DEF OneBuilder
  <2>11. OwnFile'
    <3>1. \A s \in 1..MaxBuilds : s <= builds => s <= builds + 1 BY <2>8
    <3> QED BY <1>1, <2>2, <3>1 DEF CacheInv, OwnFile
  <2>12. ASSUME ~mixed PROVE ReadersExact' /\ SaversExact' /\ StoredExact' /\ Paid'
    <3>1. a.seen = version /\ version \in Nat /\ evictions \in Nat
      BY <1>1, <1>2, <2>12, IndexAssumption DEF CacheInv, ReadersExact, CacheTypes
    <3>2. Len(<<>>) = 0 /\ AllOf(<<>>, 0, version) BY DEF AllOf
    <3>3. ReadersExact'
      <4>1. ASSUME NEW y \in Readers
            PROVE  /\ reader'[y].at \in {"disk", "lock", "build"} => reader'[y].seen = version
                   /\ reader'[y].at = "build" =>
                         /\ reader'[y].index.label = version /\ Len(reader'[y].index.body) <= Parts
                         /\ AllOf(reader'[y].index.body, Len(reader'[y].index.body), version)
                   /\ reader'[y].at = "served" => Exact(reader'[y].index, reader'[y].seen)
        <5>1. CASE y = r BY <2>4, <2>5, <2>7, <3>1, <3>2, <5>1, IndexAssumption
        <5>2. CASE y # r BY <2>7, <2>12, <5>2 DEF CacheInv, ReadersExact
        <5> QED BY <5>1, <5>2
      <4> QED BY <1>1, <4>1 DEF ReadersExact, Exact, AllOf
    <3>4. SaversExact' BY <1>1, <2>12 DEF CacheInv, SaversExact, Exact, AllOf
    <3>5. StoredExact' BY <1>1, <2>12 DEF CacheInv, StoredExact, Exact, AllOf
    <3>6. builds < version + evictions BY <1>1, <2>2, <2>12, <3>1 DEF CacheInv, Paid
    <3>7. Paid'
      <4>1. holder' # NoIndex BY <2>2, IndexAssumption
      <4>2. builds' <= version' + evictions' BY <1>1, <2>2, <2>8, <3>1, <3>6
      <4> QED BY <4>1, <4>2 DEF Paid
    <3> QED BY <3>3, <3>4, <3>5, <3>7
  <2> QED BY <1>1, <2>9, <2>10, <2>11, <2>12 DEF CacheInv
<1> QED BY <1>4, <1>5

LEMMA BuildsKeeps == ASSUME CacheInv, NEW r \in Readers, Indexes!Builds(r) PROVE CacheInv'
<1>1. /\ reader[r].at = "build" /\ Len(reader[r].index.body) < Parts
      /\ reader' = [reader EXCEPT ![r].index.body = Append(@, version)]
      /\ UNCHANGED <<kind, version, memory, holder, saver, inodes, tmp, idx, builds, evictions, mixed>>
  BY DEF Indexes!Builds, Indexes!files
<1>2. PICK a \in Asking : a = reader[r] BY DEF CacheInv, CacheTypes
<1>3. a.index # NoIndex /\ a.index \in Index /\ version \in Nat
  BY <1>1, <1>2 DEF CacheInv, OneBuilder, CacheTypes, Asking
<1>4. PICK i \in Index : i = a.index BY <1>3
<1>5. i.body \in Seq(Nat) /\ i.label \in Nat BY DEF Index
<1>6. PICK b : b = Append(i.body, version) OBVIOUS
<1>7. b \in Seq(Nat) /\ Len(b) = Len(i.body) + 1 /\ (AllOf(i.body, Len(i.body), version) => AllOf(b, Len(b), version))
  <2>1. b \in Seq(Nat) /\ Len(b) = Len(i.body) + 1 BY <1>3, <1>5, <1>6
  <2>2. ASSUME AllOf(i.body, Len(i.body), version) PROVE AllOf(b, Len(b), version)
    <3>1. AllOf(Append(i.body, version), Len(i.body) + 1, version) BY <1>3, <1>5, <2>2, AllOfAppend
    <3> QED BY <1>6, <2>1, <3>1
  <2> QED BY <2>1, <2>2
<1>8. PICK j : j = [i EXCEPT !.body = b] OBVIOUS
<1>9. j \in Index /\ j.label = i.label /\ j.body = b BY <1>5, <1>7, <1>8 DEF Index
<1>10. PICK q : q = [a EXCEPT !.index = j] OBVIOUS
<1>11. q \in Asking /\ q.at = "build" /\ q.seen = a.seen /\ q.index = j BY <1>1, <1>2, <1>9, <1>10 DEF Asking
<1>12. reader' = [reader EXCEPT ![r] = q]
  <2>1. reader' = [reader EXCEPT ![r].index.body = b] BY <1>1, <1>2, <1>4, <1>6
  <2>2. [reader EXCEPT ![r].index.body = b] = [reader EXCEPT ![r] = [reader[r] EXCEPT !.index = [reader[r].index EXCEPT !.body = b]]]
    OBVIOUS
  <2> QED BY <1>2, <1>4, <1>8, <1>10, <2>1, <2>2
<1>13. reader'[r] = q /\ \A y \in Readers \ {r} : reader'[y] = reader[y] BY <1>12 DEF CacheInv, CacheTypes
<1>14. CacheTypes' BY <1>1, <1>11, <1>12 DEF CacheInv, CacheTypes
<1>15. OneBuilder'
  <2>1. j # NoIndex BY <1>9, IndexAssumption
  <2> QED BY <1>1, <1>11, <1>13, <2>1 DEF CacheInv, OneBuilder
<1>16. OwnFile' BY <1>1 DEF CacheInv, OwnFile
<1>17. ASSUME ~mixed PROVE ReadersExact' /\ SaversExact' /\ StoredExact' /\ Paid'
  <2>1. a.seen = version /\ i.label = version /\ AllOf(i.body, Len(i.body), version)
    BY <1>1, <1>2, <1>4, <1>17 DEF CacheInv, ReadersExact
  <2>2. Len(b) <= Parts
    <3>1. PICK l \in Nat : l = Len(i.body) /\ l < Parts BY <1>1, <1>2, <1>4, <1>5
    <3>2. Len(b) = l + 1 BY <1>7, <3>1
    <3> QED BY <3>1, <3>2, IndexAssumption
  <2>3. ReadersExact'
    <3>1. ASSUME NEW y \in Readers
          PROVE  /\ reader'[y].at \in {"disk", "lock", "build"} => reader'[y].seen = version
                 /\ reader'[y].at = "build" =>
                       /\ reader'[y].index.label = version /\ Len(reader'[y].index.body) <= Parts
                       /\ AllOf(reader'[y].index.body, Len(reader'[y].index.body), version)
                 /\ reader'[y].at = "served" => Exact(reader'[y].index, reader'[y].seen)
      <4>1. CASE y = r BY <1>7, <1>9, <1>11, <1>13, <2>1, <2>2, <4>1
      <4>2. CASE y # r BY <1>13, <1>17, <4>2 DEF CacheInv, ReadersExact
      <4> QED BY <4>1, <4>2
    <3> QED BY <1>1, <3>1 DEF ReadersExact, Exact, AllOf
  <2>4. SaversExact' BY <1>1, <1>17 DEF CacheInv, SaversExact, Exact, AllOf
  <2>5. StoredExact' BY <1>1, <1>17 DEF CacheInv, StoredExact, Exact, AllOf
  <2>6. Paid' BY <1>1, <1>17 DEF CacheInv, Paid
  <2> QED BY <2>3, <2>4, <2>5, <2>6
<1> QED BY <1>1, <1>14, <1>15, <1>16, <1>17 DEF CacheInv

LEMMA BuiltKeeps == ASSUME CacheInv, NEW r \in Readers, Indexes!Built(r) PROVE CacheInv'
<1>1. /\ reader[r].at = "build" /\ Len(reader[r].index.body) = Parts /\ memory' = reader[r].index
      /\ saver' = [saver EXCEPT ![builds] = [data |-> reader[r].index, inode |-> 0, next |-> 0]]
      /\ mixed' = (mixed \/ Indexes!Saving) /\ holder' = NoIndex
      /\ reader' = [reader EXCEPT ![r].at = "served", ![r].index = reader[r].index]
      /\ UNCHANGED <<kind, version, inodes, tmp, idx, builds, evictions>>
  BY DEF Indexes!Built, Indexes!Goes, Indexes!Released
<1>2. PICK a \in Asking : a = reader[r] BY DEF CacheInv, CacheTypes
<1>3. a.index # NoIndex /\ a.index \in Index /\ holder = r BY <1>1, <1>2 DEF CacheInv, OneBuilder, CacheTypes, Asking
<1>4. PICK i \in Index : i = a.index BY <1>3
<1>5. builds \in 1..MaxBuilds /\ builds \notin {tmp, idx} /\ builds \in Nat
  BY <1>3, IndexAssumption DEF CacheInv, OneBuilder, CacheTypes
<1>6. PICK q : q = [a EXCEPT !.at = "served"] OBVIOUS
<1>7. q \in Asking /\ q.at = "served" /\ q.seen = a.seen /\ q.index = i BY <1>4, <1>6 DEF Asking
<1>8. reader' = [reader EXCEPT ![r] = q] BY <1>1, <1>2, <1>6 DEF CacheInv, CacheTypes, Asking
<1>9. reader'[r] = q /\ \A y \in Readers \ {r} : reader'[y] = reader[y] BY <1>8 DEF CacheInv, CacheTypes
<1>10. PICK j : j = [data |-> i, inode |-> 0, next |-> 0] OBVIOUS
<1>11. j \in SaveJob /\ j.data = i /\ j.inode = 0 /\ j.next = 0 /\ j # NoIndex BY <1>10, IndexAssumption DEF SaveJob
<1>12. saver' = [saver EXCEPT ![builds] = j] BY <1>1, <1>2, <1>4, <1>10
<1>13. saver'[builds] = j /\ \A s \in 1..MaxBuilds \ {builds} : saver'[s] = saver[s]
  BY <1>5, <1>12 DEF CacheInv, CacheTypes
<1>14. CacheTypes'
  <2>1. saver' \in [1..MaxBuilds -> SaveJob \cup {NoIndex}] BY <1>11, <1>12 DEF CacheInv, CacheTypes
  <2>2. reader' \in [Readers -> Asking] BY <1>7, <1>8 DEF CacheInv, CacheTypes
  <2>3. mixed' \in BOOLEAN BY <1>1 DEF CacheInv, CacheTypes
  <2>4. memory' \in Index BY <1>1, <1>2, <1>4
  <2> QED BY <1>1, <2>1, <2>2, <2>3, <2>4 DEF CacheInv, CacheTypes
<1>15. OneBuilder'
  <2>1. i # NoIndex BY <1>3, <1>4
  <2>2. \A y \in Readers \ {r} : reader'[y].at # "build" BY <1>3, <1>9 DEF CacheInv, OneBuilder
  <2>3. \A y \in Readers : holder' # y BY <1>1, IndexAssumption
  <2> QED BY <1>1, <1>7, <1>9, <2>1, <2>2, <2>3 DEF CacheInv, OneBuilder
<1>16. OwnFile'
  <2>1. \A s \in 1..MaxBuilds \ {builds} : saver'[s] # NoIndex =>
          /\ s <= builds /\ Len(saver'[s].data.body) = Parts
          /\ saver'[s].inode = 0 => s \notin {tmp, idx} /\ saver'[s].next = 0
    BY <1>13 DEF CacheInv, OwnFile
  <2>2. saver'[builds].next = 0 /\ Len(saver'[builds].data.body) = Parts BY <1>1, <1>2, <1>4, <1>11, <1>13
  <2> QED BY <1>1, <1>5, <2>1, <2>2 DEF CacheInv, OwnFile
<1>17. ASSUME ~mixed' PROVE ReadersExact' /\ SaversExact' /\ StoredExact' /\ Paid'
  <2>1. ~mixed /\ \A s \in 1..MaxBuilds : saver[s] = NoIndex BY <1>1, <1>17 DEF Indexes!Saving
  <2>2. a.seen = version /\ Exact(i, version)
    BY <1>1, <1>2, <1>4, <2>1 DEF CacheInv, ReadersExact, Exact
  <2>3. ReadersExact'
    <3>1. ASSUME NEW y \in Readers
          PROVE  /\ reader'[y].at \in {"disk", "lock", "build"} => reader'[y].seen = version
                 /\ reader'[y].at = "build" =>
                       /\ reader'[y].index.label = version /\ Len(reader'[y].index.body) <= Parts
                       /\ AllOf(reader'[y].index.body, Len(reader'[y].index.body), version)
                 /\ reader'[y].at = "served" => Exact(reader'[y].index, reader'[y].seen)
      <4>1. CASE y = r BY <1>7, <1>9, <2>2, <4>1
      <4>2. CASE y # r BY <1>9, <2>1, <4>2 DEF CacheInv, ReadersExact
      <4> QED BY <4>1, <4>2
    <3> QED BY <1>1, <3>1 DEF ReadersExact, Exact, AllOf
  <2>4. SaversExact'
    <3>1. \A s \in 1..MaxBuilds : saver'[s] # NoIndex => s = builds /\ saver'[s] = j BY <1>13, <2>1
    <3> QED BY <1>1, <1>11, <2>2, <3>1 DEF SaversExact, Exact, AllOf
  <2>5. StoredExact'
    <3>1. memory' = i BY <1>1, <1>2, <1>4
    <3>2. i.label = version BY <2>2 DEF Exact
    <3> QED BY <1>1, <2>1, <2>2, <3>1, <3>2 DEF CacheInv, StoredExact, Exact, AllOf
  <2>6. Paid'
    <3>1. memory' # NoIndex /\ memory'.label = version BY <1>1, <1>2, <1>3, <1>4, <2>2 DEF Exact
    <3> QED BY <1>1, <2>1, <3>1 DEF CacheInv, Paid
  <2> QED BY <2>3, <2>4, <2>5, <2>6
<1> QED BY <1>14, <1>15, <1>16, <1>17 DEF CacheInv

LEMMA OpensKeeps == ASSUME CacheInv, NEW s \in 1..MaxBuilds, Indexes!Opens(s) PROVE CacheInv'
<1>1. PICK i : i = IF tmp = 0 THEN s ELSE tmp OBVIOUS
<1>2. /\ saver[s] # NoIndex /\ saver[s].inode = 0 /\ tmp' = i /\ inodes' = [inodes EXCEPT ![i] = <<>>]
      /\ saver' = [saver EXCEPT ![s].inode = i]
      /\ UNCHANGED <<kind, version, memory, reader, holder, idx, builds, evictions, mixed>>
  BY <1>1 DEF Indexes!Opens
<1>3. PICK d \in SaveJob : d = saver[s] BY <1>2 DEF CacheInv, CacheTypes
<1>4. s <= builds /\ s \notin {tmp, idx} /\ d.next = 0 /\ Len(d.data.body) = Parts
  BY <1>2, <1>3 DEF CacheInv, OwnFile
<1>5. builds \in 0..MaxBuilds /\ MaxBuilds \in Nat /\ tmp \in 0..builds /\ idx \in 0..builds
  BY IndexAssumption DEF CacheInv, CacheTypes
<1>6. i \in 1..builds /\ i \in 1..MaxBuilds /\ i # idx
  <2>1. tmp # 0 => tmp # idx BY DEF CacheInv, OwnFile
  <2> QED BY <1>1, <1>4, <1>5, <2>1
<1>7. PICK e : e = [d EXCEPT !.inode = i] OBVIOUS
<1>8. e \in SaveJob /\ e.data = d.data /\ e.inode = i /\ e.next = 0 /\ e # NoIndex
  BY <1>4, <1>6, <1>7, IndexAssumption DEF SaveJob
<1>9. saver' = [saver EXCEPT ![s] = e] BY <1>2, <1>3, <1>7 DEF CacheInv, CacheTypes
<1>10. saver'[s] = e /\ \A t \in 1..MaxBuilds \ {s} : saver'[t] = saver[t] BY <1>9 DEF CacheInv, CacheTypes
<1>11. inodes'[i] = <<>> /\ \A k \in 1..MaxBuilds \ {i} : inodes'[k] = inodes[k]
  BY <1>2, <1>6 DEF CacheInv, CacheTypes
<1>12. CacheTypes'
  <2>1. <<>> \in Seq(Nat) OBVIOUS
  <2>2. inodes' \in [1..MaxBuilds -> Seq(Nat)] BY <1>2, <2>1 DEF CacheInv, CacheTypes
  <2>3. saver' \in [1..MaxBuilds -> SaveJob \cup {NoIndex}] BY <1>8, <1>9 DEF CacheInv, CacheTypes
  <2>4. tmp' \in 0..builds BY <1>2, <1>5, <1>6
  <2> QED BY <1>2, <2>2, <2>3, <2>4 DEF CacheInv, CacheTypes
<1>13. OneBuilder'
  <2>1. ASSUME holder # NoIndex PROVE builds \notin {0, i, idx} /\ saver'[builds] = NoIndex
    <3>1. builds \notin {0, tmp, idx} /\ saver[builds] = NoIndex BY <2>1 DEF CacheInv, OneBuilder
    <3>2. s # builds BY <1>2, <3>1
    <3>3. builds \in 1..MaxBuilds BY <1>5, <3>1
    <3> QED BY <1>1, <1>10, <3>1, <3>2, <3>3
  <2> QED BY <1>2, <2>1 DEF CacheInv, OneBuilder
<1>14. OwnFile'
  <2>1. ASSUME NEW t \in 1..MaxBuilds, saver'[t] # NoIndex
        PROVE  /\ t <= builds /\ Len(saver'[t].data.body) = Parts
               /\ saver'[t].inode = 0 => t \notin {i, idx} /\ saver'[t].next = 0
    <3>1. CASE t = s BY <1>4, <1>6, <1>8, <1>10, <3>1
    <3>2. CASE t # s
      <4>1. saver'[t] = saver[t] BY <1>10, <3>2
      <4> QED BY <1>1, <2>1, <3>2, <4>1 DEF CacheInv, OwnFile
    <3> QED BY <3>1, <3>2
  <2>2. \A k \in 1..MaxBuilds : Len(inodes'[k]) <= Parts + 1
    <3>1. Len(<<>>) <= Parts + 1 BY IndexAssumption
    <3> QED BY <1>11, <3>1 DEF CacheInv, OwnFile
  <2> QED BY <1>2, <1>6, <2>1, <2>2 DEF OwnFile
<1>15. ASSUME ~mixed PROVE ReadersExact' /\ SaversExact' /\ StoredExact' /\ Paid'
  <2>1. ReadersExact' BY <1>2, <1>15 DEF CacheInv, ReadersExact, Exact, AllOf
  <2>2. Paid' BY <1>2, <1>15 DEF CacheInv, Paid
  <2>3. StoredExact'
    <3>1. memory # NoIndex => Exact(memory, memory.label) BY <1>15 DEF CacheInv, StoredExact
    <3>2. idx # 0 => inodes'[idx] = inodes[idx] BY <1>5, <1>6, <1>11
    <3> QED BY <1>2, <1>15, <3>1, <3>2 DEF CacheInv, StoredExact, Exact, AllOf
  <2>4. AllOf(inodes'[i], 0, version) BY <1>11 DEF AllOf
  <2>5. Exact(d.data, version) /\ \A t \in 1..MaxBuilds : saver[t] # NoIndex => t = s
    BY <1>2, <1>3, <1>15 DEF CacheInv, SaversExact
  <2>6. \A t \in 1..MaxBuilds : saver'[t] # NoIndex => t = s BY <1>10, <2>5
  <2>7. SaversExact'
    <3>1. ASSUME NEW u \in 1..MaxBuilds, saver'[u] # NoIndex
          PROVE  /\ Exact(saver'[u].data, version)
                 /\ \A t \in 1..MaxBuilds : saver'[t] # NoIndex => t = u
                 /\ saver'[u].inode # 0 => i = saver'[u].inode /\ AllOf(inodes'[i], saver'[u].next, version)
      <4>1. u = s BY <2>6, <3>1
      <4>2. saver'[u] = e BY <1>10, <4>1
      <4> QED BY <1>8, <2>4, <2>5, <2>6, <4>1, <4>2
    <3> QED BY <1>2, <3>1 DEF SaversExact, Exact, AllOf
  <2> QED BY <2>1, <2>2, <2>3, <2>7
<1> QED BY <1>2, <1>12, <1>13, <1>14, <1>15 DEF CacheInv

\* A block put behind the others, or over one of them, or beyond a gap.
LEMMA PutBlock ==
    ASSUME NEW blocks \in Seq(Nat), NEW at \in Nat \ {0}, NEW x \in Nat, NEW p, p = Indexes!Put(blocks, at, x)
    PROVE  /\ p \in Seq(Nat) /\ Len(p) = IF at > Len(blocks) THEN at ELSE Len(blocks)
           /\ Len(blocks) = at - 1 /\ AllOf(blocks, at - 1, x) => AllOf(p, at, x)
<1>1. PICK l \in Nat, m \in Nat : l = Len(blocks) /\ m = IF at > l THEN at ELSE l OBVIOUS
<1>2. p = [j \in 1..m |-> IF j = at THEN x ELSE IF j <= l THEN blocks[j] ELSE 0]
  BY <1>1 DEF Indexes!Put, Indexes!Hole
<1>3. \A j \in 1..m : (IF j = at THEN x ELSE IF j <= l THEN blocks[j] ELSE 0) \in Nat BY <1>1
<1>4. p \in Seq(Nat) /\ Len(p) = m /\ \A j \in 1..m : p[j] = IF j = at THEN x ELSE IF j <= l THEN blocks[j] ELSE 0
  BY <1>2, <1>3
<1>5. ASSUME l = at - 1, AllOf(blocks, at - 1, x) PROVE AllOf(p, at, x)
  <2>1. m = at BY <1>1, <1>5
  <2>2. \A j \in 1..at : j # at => j <= l /\ j \in 1..(at - 1) BY <1>5
  <2>3. \A j \in 1..at : p[j] = x BY <1>4, <1>5, <2>1, <2>2 DEF AllOf
  <2> QED BY <1>4, <2>1, <2>3 DEF AllOf
<1> QED BY <1>1, <1>4, <1>5

LEMMA WritesKeeps == ASSUME CacheInv, NEW s \in 1..MaxBuilds, Indexes!Writes(s) PROVE CacheInv'
<1>1. saver[s] # NoIndex BY DEF Indexes!Writes
<1>2. PICK d \in SaveJob : d = saver[s] BY <1>1 DEF CacheInv, CacheTypes
<1>3. PICK i, n, x : i = d.inode /\ n = d.next /\ x = IF n = 0 THEN d.data.label ELSE d.data.body[n] OBVIOUS
<1>4. /\ i # 0 /\ n <= Parts /\ inodes' = [inodes EXCEPT ![i] = Indexes!Put(inodes[i], n + 1, x)]
      /\ saver' = [saver EXCEPT ![s].next = @ + 1]
      /\ UNCHANGED <<kind, version, memory, reader, holder, tmp, idx, builds, evictions, mixed>>
  BY <1>2, <1>3 DEF Indexes!Writes
<1>5. i \in 1..MaxBuilds /\ n \in Nat /\ Parts \in Nat /\ n + 1 \in 0..(Parts + 1) /\ n + 1 \in Nat \ {0}
  BY <1>3, <1>4, IndexAssumption DEF SaveJob
<1>6. PICK t \in Index : t = d.data BY DEF SaveJob
<1>7. x \in Nat
  <2>1. t.label \in Nat /\ t.body \in Seq(Nat) BY DEF Index
  <2>2. Len(t.body) = Parts BY <1>1, <1>2, <1>6 DEF CacheInv, OwnFile
  <2>3. n # 0 => n \in 1..Len(t.body) BY <1>4, <1>5, <2>2
  <2>4. n # 0 => t.body[n] \in Nat BY <2>1, <2>3
  <2> QED BY <1>3, <1>6, <2>1, <2>4
<1>8. PICK bs \in Seq(Nat) : bs = inodes[i] BY <1>5 DEF CacheInv, CacheTypes
<1>9. PICK p : p = Indexes!Put(bs, n + 1, x) OBVIOUS
<1>10. PICK a \in Nat \ {0} : a = n + 1 BY <1>5
<1>11. /\ p \in Seq(Nat) /\ Len(p) = IF a > Len(bs) THEN a ELSE Len(bs)
       /\ Len(bs) = a - 1 /\ AllOf(bs, a - 1, x) => AllOf(p, a, x)
  BY <1>7, <1>9, <1>10, PutBlock
<1>12. inodes' = [inodes EXCEPT ![i] = p] /\ inodes'[i] = p /\ \A k \in 1..MaxBuilds \ {i} : inodes'[k] = inodes[k]
  BY <1>4, <1>5, <1>8, <1>9 DEF CacheInv, CacheTypes
<1>13. PICK e : e = [d EXCEPT !.next = a] OBVIOUS
<1>14. e \in SaveJob /\ e.data = d.data /\ e.inode = i /\ e.next = a /\ e # NoIndex
  BY <1>3, <1>5, <1>10, <1>13, IndexAssumption DEF SaveJob
<1>15. saver' = [saver EXCEPT ![s] = e]
  <2>1. saver' = [saver EXCEPT ![s].next = a] BY <1>2, <1>3, <1>4, <1>10
  <2> QED BY <1>2, <1>13, <2>1 DEF CacheInv, CacheTypes
<1>16. saver'[s] = e /\ \A u \in 1..MaxBuilds \ {s} : saver'[u] = saver[u] BY <1>15 DEF CacheInv, CacheTypes
<1>17. CacheTypes'
  <2>1. inodes' \in [1..MaxBuilds -> Seq(Nat)] BY <1>11, <1>12 DEF CacheInv, CacheTypes
  <2>2. saver' \in [1..MaxBuilds -> SaveJob \cup {NoIndex}] BY <1>14, <1>15 DEF CacheInv, CacheTypes
  <2> QED BY <1>4, <2>1, <2>2 DEF CacheInv, CacheTypes
<1>18. OneBuilder'
  <2>1. ASSUME holder # NoIndex PROVE saver'[builds] = NoIndex
    <3>1. builds \notin {0, tmp, idx} /\ saver[builds] = NoIndex /\ builds \in 0..MaxBuilds /\ MaxBuilds \in Nat
      BY <2>1, IndexAssumption DEF CacheInv, OneBuilder, CacheTypes
    <3>2. builds \in 1..MaxBuilds /\ builds # s BY <1>1, <3>1
    <3> QED BY <1>16, <3>1, <3>2
  <2> QED BY <1>4, <2>1 DEF CacheInv, OneBuilder
<1>19. OwnFile'
  <2>1. ASSUME NEW u \in 1..MaxBuilds, saver'[u] # NoIndex
        PROVE  /\ u <= builds /\ Len(saver'[u].data.body) = Parts
               /\ saver'[u].inode = 0 => u \notin {tmp, idx} /\ saver'[u].next = 0
    <3>1. CASE u = s
      <4>1. s <= builds /\ Len(d.data.body) = Parts BY <1>1, <1>2 DEF CacheInv, OwnFile
      <4> QED BY <1>4, <1>14, <1>16, <3>1, <4>1
    <3>2. CASE u # s BY <1>16, <2>1, <3>2 DEF CacheInv, OwnFile
    <3> QED BY <3>1, <3>2
  <2>2. \A k \in 1..MaxBuilds : Len(inodes'[k]) <= Parts + 1
    <3>1. Len(bs) <= Parts + 1 BY <1>5, <1>8 DEF CacheInv, OwnFile
    <3>2. Len(p) <= Parts + 1 BY <1>5, <1>10, <1>11, <3>1
    <3> QED BY <1>12, <3>2 DEF CacheInv, OwnFile
  <2>3. tmp # 0 => tmp # idx BY DEF CacheInv, OwnFile
  <2> QED BY <1>4, <2>1, <2>2, <2>3 DEF OwnFile
<1>20. ASSUME ~mixed PROVE ReadersExact' /\ SaversExact' /\ StoredExact' /\ Paid'
  <2>1. ReadersExact' BY <1>4, <1>20 DEF CacheInv, ReadersExact, Exact, AllOf
  <2>2. Paid' BY <1>4, <1>20 DEF CacheInv, Paid
  <2>3. /\ Exact(d.data, version) /\ tmp = i /\ AllOf(inodes[tmp], n, version)
        /\ \A u \in 1..MaxBuilds : saver[u] # NoIndex => u = s
    BY <1>1, <1>2, <1>3, <1>4, <1>20 DEF CacheInv, SaversExact
  <2>4. x = version
    <3>1. n # 0 => n \in 1..Parts BY <1>4, <1>5
    <3> QED BY <1>3, <2>3, <3>1 DEF Exact, AllOf
  <2>5. AllOf(p, a, version)
    <3>1. AllOf(bs, n, version) /\ a - 1 = n BY <1>5, <1>8, <1>10, <2>3
    <3>2. Len(bs) = n BY <3>1 DEF AllOf
    <3> QED BY <1>11, <2>4, <3>1, <3>2
  <2>6. \A u \in 1..MaxBuilds : saver'[u] # NoIndex => u = s BY <1>16, <2>3
  <2>7. SaversExact'
    <3>1. ASSUME NEW u \in 1..MaxBuilds, saver'[u] # NoIndex
          PROVE  /\ Exact(saver'[u].data, version)
                 /\ \A v \in 1..MaxBuilds : saver'[v] # NoIndex => v = u
                 /\ saver'[u].inode # 0 => tmp = saver'[u].inode /\ AllOf(inodes'[tmp], saver'[u].next, version)
      <4>1. u = s BY <2>6, <3>1
      <4>2. saver'[u] = e BY <1>16, <4>1
      <4> QED BY <1>12, <1>14, <2>3, <2>5, <2>6, <4>1, <4>2
    <3> QED BY <1>4, <3>1 DEF SaversExact, Exact, AllOf
  <2>8. StoredExact'
    <3>1. memory # NoIndex => Exact(memory, memory.label) BY <1>20 DEF CacheInv, StoredExact
    <3>2. i # idx BY <1>4, <2>3 DEF CacheInv, OwnFile
    <3>3. idx # 0 => inodes'[idx] = inodes[idx]
      <4>1. idx # 0 => idx \in 1..MaxBuilds BY IndexAssumption DEF CacheInv, CacheTypes
      <4> QED BY <1>12, <3>2, <4>1
    <3> QED BY <1>4, <1>20, <3>1, <3>3 DEF CacheInv, StoredExact, Exact, AllOf
  <2> QED BY <2>1, <2>2, <2>7, <2>8
<1> QED BY <1>4, <1>17, <1>18, <1>19, <1>20 DEF CacheInv

LEMMA RenamesKeeps == ASSUME CacheInv, NEW s \in 1..MaxBuilds, Indexes!Renames(s) PROVE CacheInv'
<1>1. /\ saver[s] # NoIndex /\ saver[s].inode # 0 /\ saver[s].next > Parts /\ saver' = [saver EXCEPT ![s] = NoIndex]
      /\ \/ tmp # 0 /\ idx' = tmp /\ tmp' = 0
         \/ tmp = 0 /\ idx' = idx /\ tmp' = tmp
      /\ UNCHANGED <<kind, version, memory, reader, holder, inodes, builds, evictions, mixed>>
  BY DEF Indexes!Renames, Indexes!MayRename
<1>2. saver'[s] = NoIndex /\ \A u \in 1..MaxBuilds \ {s} : saver'[u] = saver[u] BY <1>1 DEF CacheInv, CacheTypes
<1>3. builds \in 0..MaxBuilds /\ MaxBuilds \in Nat /\ tmp \in 0..builds /\ idx \in 0..builds
  BY IndexAssumption DEF CacheInv, CacheTypes
<1>4. tmp' \in 0..builds /\ idx' \in 0..builds /\ tmp' \in {0, tmp} /\ idx' \in {tmp, idx} BY <1>1, <1>3
<1>5. CacheTypes'
  <2>1. saver' \in [1..MaxBuilds -> SaveJob \cup {NoIndex}] BY <1>1 DEF CacheInv, CacheTypes
  <2> QED BY <1>1, <1>4, <2>1 DEF CacheInv, CacheTypes
<1>6. OneBuilder'
  <2>1. ASSUME holder # NoIndex PROVE builds \notin {0, tmp', idx'} /\ saver'[builds] = NoIndex
    <3>1. builds \notin {0, tmp, idx} /\ saver[builds] = NoIndex BY <2>1 DEF CacheInv, OneBuilder
    <3>2. builds \in 1..MaxBuilds BY <1>3, <3>1
    <3> QED BY <1>2, <1>4, <3>1, <3>2
  <2> QED BY <1>1, <2>1 DEF CacheInv, OneBuilder
<1>7. OwnFile'
  <2>1. ASSUME NEW u \in 1..MaxBuilds, saver'[u] # NoIndex
        PROVE  /\ u <= builds /\ Len(saver'[u].data.body) = Parts
               /\ saver'[u].inode = 0 => u \notin {tmp', idx'} /\ saver'[u].next = 0
    <3>1. saver'[u] = saver[u] BY <1>2, <2>1
    <3>2. /\ u <= builds /\ Len(saver[u].data.body) = Parts
          /\ saver[u].inode = 0 => u \notin {tmp, idx} /\ saver[u].next = 0
      BY <2>1, <3>1 DEF CacheInv, OwnFile
    <3> QED BY <1>4, <3>1, <3>2
  <2>2. tmp' # 0 => tmp' # idx' BY <1>1
  <2> QED BY <1>1, <2>1, <2>2 DEF CacheInv, OwnFile
<1>8. ASSUME ~mixed PROVE ReadersExact' /\ SaversExact' /\ StoredExact' /\ Paid'
  <2>1. ReadersExact' BY <1>1, <1>8 DEF CacheInv, ReadersExact, Exact, AllOf
  <2>2. Paid' BY <1>1, <1>8 DEF CacheInv, Paid
  <2>3. PICK d \in SaveJob : d = saver[s] BY <1>1 DEF CacheInv, CacheTypes
  <2>4. d.next = Parts + 1 BY <1>1, <2>3, IndexAssumption DEF SaveJob
  <2>5. tmp = d.inode /\ tmp # 0 /\ AllOf(inodes[tmp], Parts + 1, version) /\ \A u \in 1..MaxBuilds : saver[u] # NoIndex => u = s
    BY <1>1, <1>8, <2>3, <2>4 DEF CacheInv, SaversExact
  <2>6. inodes[tmp][1] = version
    <3>1. 1 \in 1..(Parts + 1) BY IndexAssumption
    <3> QED BY <2>5, <3>1 DEF AllOf
  <2>7. idx' = tmp BY <1>1, <2>5
  <2>8. StoredExact'
    <3>1. memory # NoIndex => Exact(memory, memory.label) BY <1>8 DEF CacheInv, StoredExact
    <3> QED BY <1>1, <2>5, <2>6, <2>7, <3>1 DEF StoredExact, Exact, AllOf
  <2>9. SaversExact' BY <1>2, <2>5 DEF SaversExact
  <2> QED BY <2>1, <2>2, <2>8, <2>9
<1> QED BY <1>1, <1>5, <1>6, <1>7, <1>8 DEF CacheInv

LEMMA RewriteKeeps == ASSUME CacheInv, Indexes!Rewrite PROVE CacheInv'
<1>1. /\ version < MaxVersions /\ version' = version + 1
      /\ mixed' = (mixed \/ Indexes!Saving \/ \E r \in Readers : reader[r].at \in {"disk", "lock", "build"})
      /\ UNCHANGED <<kind, memory, reader, holder, saver, inodes, tmp, idx, builds, evictions>>
  BY DEF Indexes!Rewrite, Indexes!files
<1>2. version \in Nat \ {0} /\ evictions \in Nat /\ builds \in Nat /\ version + 1 \in 1..MaxVersions
  BY <1>1, IndexAssumption DEF CacheInv, CacheTypes
<1>3. CacheTypes' BY <1>1, <1>2 DEF CacheInv, CacheTypes
<1>4. OneBuilder' BY <1>1 DEF CacheInv, OneBuilder
<1>5. OwnFile' BY <1>1 DEF CacheInv, OwnFile
<1>6. ASSUME ~mixed' PROVE ReadersExact' /\ SaversExact' /\ StoredExact' /\ Paid'
  <2>1. /\ ~mixed /\ \A s \in 1..MaxBuilds : saver[s] = NoIndex
        /\ \A r \in Readers : reader[r].at \notin {"disk", "lock", "build"}
    BY <1>1, <1>6 DEF Indexes!Saving
  <2>2. \A r \in Readers : reader[r].at = "served" => Exact(reader[r].index, reader[r].seen)
    BY <2>1 DEF CacheInv, ReadersExact
  <2>3. ReadersExact' BY <1>1, <2>1, <2>2 DEF ReadersExact, Exact, AllOf
  <2>4. SaversExact' BY <1>1, <2>1 DEF SaversExact
  <2>5. StoredExact' BY <1>1, <2>1 DEF CacheInv, StoredExact, Exact, AllOf
  <2>6. builds < version + 1 + evictions BY <1>2, <2>1 DEF CacheInv, Paid
  <2>7. Paid' BY <1>1, <1>2, <2>6 DEF Paid
  <2> QED BY <2>3, <2>4, <2>5, <2>7
<1> QED BY <1>3, <1>4, <1>5, <1>6 DEF CacheInv

LEMMA EvictKeeps == ASSUME CacheInv, Indexes!Evict PROVE CacheInv'
<1>1. /\ evictions < MaxEvictions /\ memory' = NoIndex /\ evictions' = evictions + 1
      /\ UNCHANGED <<kind, version, reader, holder, saver, inodes, tmp, idx, builds, mixed>>
  BY DEF Indexes!Evict, Indexes!files
<1>2. version \in Nat /\ evictions \in Nat /\ builds \in Nat /\ evictions + 1 \in 0..MaxEvictions
  BY <1>1, IndexAssumption DEF CacheInv, CacheTypes
<1>3. CacheTypes' BY <1>1, <1>2 DEF CacheInv, CacheTypes
<1>4. OneBuilder' BY <1>1 DEF CacheInv, OneBuilder
<1>5. OwnFile' BY <1>1 DEF CacheInv, OwnFile
<1>6. ASSUME ~mixed PROVE ReadersExact' /\ SaversExact' /\ StoredExact' /\ Paid'
  <2>1. ReadersExact' BY <1>1, <1>6 DEF CacheInv, ReadersExact, Exact, AllOf
  <2>2. SaversExact' BY <1>1, <1>6 DEF CacheInv, SaversExact, Exact, AllOf
  <2>3. StoredExact' BY <1>1, <1>6 DEF CacheInv, StoredExact, Exact, AllOf
  <2>4. builds < version + (evictions + 1) BY <1>2, <1>6 DEF CacheInv, Paid
  <2>5. Paid' BY <1>1, <1>2, <2>4 DEF Paid
  <2> QED BY <2>1, <2>2, <2>3, <2>5
<1> QED BY <1>1, <1>3, <1>4, <1>5, <1>6 DEF CacheInv

LEMMA RestartKeeps == ASSUME CacheInv, Indexes!Restart PROVE CacheInv'
<1>1. /\ evictions < MaxEvictions /\ evictions' = evictions + 1 /\ memory' = NoIndex /\ holder' = NoIndex
      /\ reader' = [r \in Readers |-> Indexes!Outside] /\ saver' = [s \in 1..MaxBuilds |-> NoIndex]
      /\ UNCHANGED <<kind, version, inodes, tmp, idx, builds, mixed>>
  BY DEF Indexes!Restart
<1>2. version \in Nat /\ evictions \in Nat /\ builds \in Nat /\ evictions + 1 \in 0..MaxEvictions
  BY <1>1, IndexAssumption DEF CacheInv, CacheTypes
<1>3. Indexes!Outside \in Asking /\ Indexes!Outside.at = "outside" BY DEF Indexes!Outside, Asking
<1>4. \A r \in Readers : reader'[r].at = "outside" BY <1>1, <1>3
<1>5. CacheTypes'
  <2>1. reader' \in [Readers -> Asking] BY <1>1, <1>3
  <2> QED BY <1>1, <1>2, <2>1 DEF CacheInv, CacheTypes
<1>6. OneBuilder' BY <1>1, <1>4, IndexAssumption DEF OneBuilder
<1>7. OwnFile' BY <1>1 DEF CacheInv, OwnFile
<1>8. ASSUME ~mixed PROVE ReadersExact' /\ SaversExact' /\ StoredExact' /\ Paid'
  <2>1. ReadersExact' BY <1>4 DEF ReadersExact
  <2>2. SaversExact' BY <1>1 DEF SaversExact
  <2>3. StoredExact' BY <1>1, <1>8 DEF CacheInv, StoredExact, Exact, AllOf
  <2>4. builds < version + (evictions + 1) BY <1>2, <1>8 DEF CacheInv, Paid
  <2>5. Paid' BY <1>1, <1>2, <2>4 DEF Paid
  <2> QED BY <2>1, <2>2, <2>3, <2>5
<1> QED BY <1>1, <1>5, <1>6, <1>7, <1>8 DEF CacheInv

LEMMA NextIndex == CacheInv /\ [Indexes!Next]_Indexes!vars => CacheInv'
<1> SUFFICES ASSUME CacheInv, [Indexes!Next]_Indexes!vars PROVE CacheInv' OBVIOUS
<1>1. CASE UNCHANGED Indexes!vars
  <2>1. UNCHANGED <<kind, version, memory, reader, holder, saver, inodes, tmp, idx, builds, evictions, mixed>>
    BY <1>1 DEF Indexes!vars
  <2>2. CacheTypes' /\ OneBuilder' /\ OwnFile' BY <2>1 DEF CacheInv, CacheTypes, OneBuilder, OwnFile
  <2>3. ASSUME ~mixed PROVE ReadersExact' /\ SaversExact' /\ StoredExact' /\ Paid'
    <3>1. ReadersExact' BY <2>1, <2>3 DEF CacheInv, ReadersExact, Exact, AllOf
    <3>2. SaversExact' BY <2>1, <2>3 DEF CacheInv, SaversExact, Exact, AllOf
    <3>3. StoredExact' BY <2>1, <2>3 DEF CacheInv, StoredExact, Exact, AllOf
    <3>4. Paid' BY <2>1, <2>3 DEF CacheInv, Paid
    <3> QED BY <3>1, <3>2, <3>3, <3>4
  <2> QED BY <2>1, <2>2, <2>3 DEF CacheInv
<1>2. ASSUME NEW r \in Readers, Indexes!Reader(r) PROVE CacheInv'
  BY <1>2, AsksKeeps, LooksOnDiskKeeps, LocksKeeps, BuildsKeeps, BuiltKeeps, LeavesKeepsIndex DEF Indexes!Reader
<1>3. ASSUME NEW s \in 1..MaxBuilds, Indexes!Saver(s) PROVE CacheInv'
  BY <1>3, OpensKeeps, WritesKeeps, RenamesKeeps DEF Indexes!Saver
<1>4. CASE Indexes!Rewrite \/ Indexes!Evict \/ Indexes!Restart BY <1>4, RewriteKeeps, EvictKeeps, RestartKeeps
<1> QED BY <1>1, <1>2, <1>3, <1>4 DEF Indexes!Next

LEMMA IndexOfInv == CacheInv => Indexes!TypeOK /\ Indexes!ServedIndexIsExact /\ Indexes!BuiltOnce
<1> SUFFICES ASSUME CacheInv PROVE Indexes!TypeOK /\ Indexes!ServedIndexIsExact /\ Indexes!BuiltOnce OBVIOUS
<1>1. Indexes!ServedIndexIsExact
  <2> SUFFICES ASSUME NEW r \in Readers, reader[r].at = "served", ~mixed
               PROVE  reader[r].index = [label |-> reader[r].seen, body |-> [i \in 1..Parts |-> reader[r].seen]]
    BY DEF Indexes!ServedIndexIsExact
  <2>1. PICK v : v = reader[r].seen OBVIOUS
  <2>2. reader[r].index # NoIndex /\ reader[r].index \in Index \cup {NoIndex}
    BY DEF CacheInv, CacheTypes, OneBuilder, Asking
  <2>3. PICK x \in Index : x = reader[r].index BY <2>2
  <2>4. x.label = v /\ AllOf(x.body, Parts, v) BY <2>1, <2>3 DEF CacheInv, ReadersExact, Exact
  <2>5. x.body \in Seq(Nat) /\ x = [label |-> x.label, body |-> x.body] BY DEF Index
  <2>6. x.body = [i \in 1..Parts |-> v] BY <2>4, <2>5, AllOfIs, IndexAssumption
  <2> QED BY <2>1, <2>3, <2>4, <2>5, <2>6
<1>2. Indexes!BuiltOnce BY DEF CacheInv, Paid, Indexes!BuiltOnce
<1>3. Indexes!TypeOK
  <2>1. \A r \in Readers : /\ reader[r].at \in {"outside", "disk", "lock", "build", "served"}
                           /\ (reader[r].at = "build") = (holder = r)
                           /\ (reader[r].at = "served") => reader[r].index # NoIndex
    <3> TAKE r \in Readers
    <3>1. reader[r] \in Asking BY DEF CacheInv, CacheTypes
    <3>2. (reader[r].at = "build") <=> (holder = r) BY DEF CacheInv, OneBuilder
    <3> QED BY <3>1, <3>2 DEF CacheInv, OneBuilder, Asking
  <2> QED BY <2>1 DEF CacheInv, CacheTypes, OwnFile, Indexes!TypeOK
<1> QED BY <1>1, <1>2, <1>3

\* The index a reader is served, whatever the number of readers, of parts, of
\* versions of the file and of builds, is the whole index of the version it
\* saw, unless the file was written anew under a request or a save, or two
\* saves met: no crash, no eviction and no build of another reader leaves a
\* part of an index, or one of another version, where it is taken for this one.
THEOREM IndexIsExact == Indexes!Spec => []Indexes!ServedIndexIsExact
<1>1. Indexes!Init => CacheInv BY InitIndex
<1>2. CacheInv /\ [Indexes!Next]_Indexes!vars => CacheInv' BY NextIndex
<1>3. CacheInv => Indexes!ServedIndexIsExact BY IndexOfInv
<1> QED BY <1>1, <1>2, <1>3, PTL DEF Indexes!Spec

\* Whoever asks for the index of a file at the same time, it is built once: a
\* further build is paid for by a change of the file, an eviction or a restart,
\* unless a change met a request or a save.
THEOREM IndexBuiltOnce == Indexes!Spec => []Indexes!BuiltOnce
<1>1. Indexes!Init => CacheInv BY InitIndex
<1>2. CacheInv /\ [Indexes!Next]_Indexes!vars => CacheInv' BY NextIndex
<1>3. CacheInv => Indexes!BuiltOnce BY IndexOfInv
<1> QED BY <1>1, <1>2, <1>3, PTL DEF Indexes!Spec

-----------------------------------------------------------------------------
(* Templates: the invariant *)

Words == {s \in Seq(Word) : s # <<>>}
Levels == {"INFO", "ERROR"}
Digests == {Digest(w) : w \in Words}
Cluster == [id : Digests, sample : Words, len : Nat \ {0}, path : Seq(Word), template : Words,
            level : Levels, count : Nat, fed : SUBSET (Words \X Levels)]

\* What the lines of a cluster make of it; w says that one of them had a wild card.
Mined(c, w) ==
    /\ c \in Cluster /\ c.id = Digest(c.sample)
    /\ Len(c.sample) = c.len /\ Len(c.template) = c.len /\ c.path = Path(c.sample)
    /\ \E level \in Levels : <<c.sample, level>> \in c.fed
    /\ \A f \in c.fed :
          /\ Len(f[1]) = c.len /\ Priority(c.level) >= Priority(f[2])
          /\ \A k \in 1..c.len : c.template[k] \in {f[1][k], Wild}
    /\ w \/ Close(c.template, c.sample)

FedWild(c) == \E f \in c.fed : Wild \in ToSet(f[1])

NamedOnce(cs) ==
    \A i, j \in 1..Len(cs) : i < j => FedWild(cs[i]) \/ cs[i].sample # cs[j].sample

MinerInv ==
    /\ clusters \in Seq(Cluster)
    /\ \A i \in 1..Len(clusters) : Mined(clusters[i], FedWild(clusters[i]))
    /\ NamedOnce(clusters)

-----------------------------------------------------------------------------
(* Templates: the similarity, and the best candidate *)

LEMMA LineWords ==
    ASSUME NEW raw \in MinedFrom
    PROVE  Preprocess(raw) \in Words /\ Len(Preprocess(raw)) = Len(raw)
<1>1. raw \in Seq(Word) /\ raw # <<>> BY MinerAssumption
<1>2. DOMAIN raw = 1..Len(raw) /\ Len(raw) \in Nat /\ Len(raw) # 0 BY <1>1
<1>3. Wild \in Word BY DEF Word
<1>5. \A i \in 1..Len(raw) : raw[i] \in Word BY <1>1, <1>2
<1>6. Preprocess(raw) \in [1..Len(raw) -> Word] BY <1>2, <1>3, <1>5 DEF Preprocess
<1>4. Preprocess(raw) \in Seq(Word) /\ Len(Preprocess(raw)) = Len(raw) BY <1>2, <1>6
<1> QED BY <1>2, <1>4 DEF Words

LEMMA Places ==
    ASSUME NEW n \in Nat
    PROVE  IsFiniteSet(1..n) /\ Cardinality(1..n) = n
<1>1. PICK a \in Int, b \in Int : a = 1 /\ b = n OBVIOUS
<1>2. IsFiniteSet(a..b) /\ Cardinality(a..b) = IF a > b THEN 0 ELSE b - a + 1 BY FS_Interval
<1> QED BY <1>1, <1>2

LEMMA AgreeType ==
    ASSUME NEW t, NEW words \in Words
    PROVE  /\ IsFiniteSet({i \in DOMAIN words : t[i] = words[i]})
           /\ Agree(t, words) \in Nat /\ Agree(t, words) <= Len(words)
<1>1. DOMAIN words = 1..Len(words) /\ Len(words) \in Nat BY DEF Words
<1>2. IsFiniteSet(1..Len(words)) /\ Cardinality(1..Len(words)) = Len(words) BY <1>1, Places
<1>3. {i \in DOMAIN words : t[i] = words[i]} \in SUBSET (1..Len(words)) BY <1>1
<1> QED BY <1>2, <1>3, FS_Subset, FS_CardinalityType DEF Agree

LEMMA CloseToItself ==
    ASSUME NEW words \in Words
    PROVE  Close(words, words)
<1>1. DOMAIN words = 1..Len(words) /\ Len(words) \in Nat BY DEF Words
<1>2. {i \in DOMAIN words : words[i] = words[i]} = 1..Len(words) BY <1>1
<1>3. Agree(words, words) = Len(words) BY <1>1, <1>2, Places DEF Agree
<1>4. Threshold \in 0..100 BY MinerAssumption
<1>5. Len(words) * 100 >= Threshold * Len(words)
  <2>1. ASSUME NEW n \in Nat, NEW t \in 0..100 PROVE n * 100 >= t * n
    <3>1. n * (100 - t) \in Nat /\ n * (100 - t) = n * 100 - t * n BY SMT
    <3> QED BY <3>1
  <2> QED BY <1>1, <1>4, <2>1
<1> QED BY <1>3, <1>5 DEF Close

\* As close to other words of the length, if all the places agree that did.
LEMMA CloserStill ==
    ASSUME NEW t, NEW u, NEW words \in Words, NEW id \in Words, Len(words) = Len(id),
           Close(t, words), \A i \in 1..Len(words) : t[i] = words[i] => u[i] = id[i]
    PROVE  Close(u, id)
<1> DEFINE At(s, x) == {i \in DOMAIN x : s[i] = x[i]}
<1>1. DOMAIN words = 1..Len(words) /\ DOMAIN id = 1..Len(words) /\ Len(words) \in Nat BY DEF Words
<1>2. At(t, words) \in SUBSET At(u, id) BY <1>1
<1>3. IsFiniteSet(At(u, id)) BY AgreeType
<1>4. Agree(t, words) <= Agree(u, id) BY <1>2, <1>3, FS_Subset DEF Agree
<1>5. Agree(t, words) \in Nat /\ Agree(u, id) \in Nat BY AgreeType
<1>6. Threshold * Len(words) \in Nat
  <2>1. Threshold \in 0..100 BY MinerAssumption
  <2>2. \A n \in Nat, k \in 0..100 : k * n \in Nat OBVIOUS
  <2> QED BY <1>1, <2>1, <2>2, Zenon
<1> QED BY <1>4, <1>5, <1>6 DEF Close

\* Among the candidates there is a best one.
LEMMA BestIsACandidate ==
    ASSUME NEW words \in Words, Candidates(words) # {}, clusters \in Seq(Cluster)
    PROVE  Best(words) \in Candidates(words)
<1> DEFINE C == Candidates(words)
           Sim(k) == Agree(clusters[k].template, words)
           Far == {Len(words) - Sim(k) : k \in C}
<1>1. C \subseteq Nat BY DEF Candidates
<1>2. \A k \in C : Sim(k) \in Nat /\ Sim(k) <= Len(words) BY AgreeType
<1>3. Len(words) \in Nat BY DEF Words
<1>4. Far \subseteq Nat /\ Far # {}
  <2>1. \A k \in C : Len(words) - Sim(k) \in Nat
    <3> HIDE DEF Sim, C
    <3> QED BY <1>2, <1>3
  <2> QED BY <2>1
<1>5. PICK m \in Far : \A n \in Far : ~(<<n, m>> \in OpToRel(<, Nat))
  <2> HIDE DEF Far
  <2> QED BY <1>4, WFMin, NatLessThanWellFounded, Zenon
<1> DEFINE Near == {k \in C : Len(words) - Sim(k) = m}
<1>6. Near \subseteq Nat /\ Near # {} BY <1>1
<1>7. PICK i \in Near : \A n \in Near : ~(<<n, i>> \in OpToRel(<, Nat))
  <2> HIDE DEF Near
  <2> QED BY <1>6, WFMin, NatLessThanWellFounded, Zenon
<1>8. ASSUME NEW j \in C PROVE Sim(i) > Sim(j) \/ (Sim(i) = Sim(j) /\ i <= j)
  <2> DEFINE d == Len(words) - Sim(j)
  <2>1. d \in Far /\ d \in Nat /\ m \in Nat BY <1>4
  <2>2. ~(d < m)
    <3> HIDE DEF d, Far
    <3> QED BY <1>5, <2>1 DEF OpToRel
  <2>3. Sim(i) = Len(words) - m /\ Sim(j) = Len(words) - d
    <3>1. Len(words) - Sim(i) = m /\ i \in C OBVIOUS
    <3>2. Sim(i) \in Nat /\ Sim(j) \in Nat BY <1>2, <3>1
    <3> HIDE DEF Sim
    <3> QED BY <1>3, <2>1, <3>1, <3>2
  <2>4. CASE d = m
    <3>1. j \in Near /\ i \in Near BY <2>4
    <3>2. j \in Nat /\ i \in Nat BY <1>6, <3>1
    <3>3. ~(j < i)
      <4> HIDE DEF Near
      <4> QED BY <1>7, <3>1, <3>2 DEF OpToRel
    <3> HIDE DEF Sim, Near, d
    <3> QED BY <2>3, <2>4, <3>2, <3>3
  <2>5. CASE d # m
    <3> HIDE DEF Sim, d
    <3> QED BY <1>3, <2>1, <2>2, <2>3, <2>5
  <2> QED BY <2>4, <2>5
<1>9. i \in C OBVIOUS
<1> HIDE DEF C, Far, Near
<1> QED BY <1>8, <1>9 DEF Best, C

-----------------------------------------------------------------------------
(* Templates: a line like the first one finds its cluster *)

\* A line like the first one of a cluster is led to it.
LEMMA PathType ==
    ASSUME NEW words \in Words
    PROVE  /\ Path(words) \in Seq(Word) /\ Len(Path(words)) = Depth(Len(words))
           /\ Depth(Len(words)) \in Nat /\ Depth(Len(words)) < Len(words)
           /\ \A k \in 1..Depth(Len(words)) : Path(words)[k] = IF words[k] \in WithDigit THEN Wild ELSE words[k]
<1>1. Len(words) \in Nat \ {0} /\ \A i \in 1..Len(words) : words[i] \in Word BY DEF Words
<1>2. Depth(Len(words)) \in Nat /\ Depth(Len(words)) < Len(words) BY <1>1, MinerAssumption DEF Depth
<1>3. Wild \in Word BY DEF Word
<1>4. Path(words) \in [1..Depth(Len(words)) -> Word] BY <1>1, <1>2, <1>3 DEF Path
<1>5. Path(words) \in Seq(Word) /\ Len(Path(words)) = Depth(Len(words)) BY <1>2, <1>4
<1> QED BY <1>2, <1>5 DEF Path

LEMMA LedToIt ==
    ASSUME MinerInv, NEW i \in 1..Len(clusters)
    PROVE  LeadsTo(clusters[i].sample, clusters[i].path)
<1> DEFINE c == clusters[i]
           n == Len(c.path)
<1>1. /\ clusters \in Seq(Cluster) /\ \A j \in 1..Len(clusters) : clusters[j] \in Cluster /\ clusters[j].path = Path(clusters[j].sample)
      /\ c.len = Len(c.sample)
  BY DEF MinerInv, Mined
<1>2. \A j \in 1..Len(clusters) : clusters[j].sample \in Words /\ clusters[j].path \in Seq(Word) BY <1>1 DEF Cluster
<1>3. SUFFICES ASSUME NEW k \in 1..n PROVE c.path[k] = Branch(c.sample, SubSeq(c.path, 1, k - 1))
  <2>1. DOMAIN c.path = 1..n BY <1>2
  <2> HIDE DEF n
  <2> QED BY <2>1 DEF LeadsTo
<1>4. n \in Nat /\ n < Len(c.sample) /\ c.path[k] = IF c.sample[k] \in WithDigit THEN Wild ELSE c.sample[k]
  BY <1>1, <1>2, PathType
<1> DEFINE node == SubSeq(c.path, 1, k - 1)
           w == c.sample[k]
<1>5. /\ node \in Seq(Word) /\ Len(node) = k - 1 /\ \A m \in 1..(k - 1) : node[m] = c.path[m]
  BY <1>2, <1>4
<1>6. w \in Word BY <1>2, <1>4 DEF Words
<1>7. Branch(c.sample, node) = IF IsNode(c.len, Append(node, w)) THEN w ELSE Wild
  <2>1. Len(node) + 1 = k BY <1>5
  <2> QED BY <1>1, <2>1 DEF Branch
<1>8. /\ Append(node, w) \in Seq(Word) /\ Len(Append(node, w)) = k /\ Append(node, w)[k] = w
      /\ \A m \in 1..(k - 1) : Append(node, w)[m] = c.path[m]
  BY <1>5, <1>6
<1>9. CASE w \in WithDigit
  <2>1. ASSUME NEW j \in 1..Len(clusters), IsPrefix(Append(node, w), clusters[j].path) PROVE FALSE
    <3> DEFINE p == clusters[j].path
    <3>1. p \in Seq(Word) /\ k <= Len(p) /\ SubSeq(Append(node, w), 1, k) = SubSeq(p, 1, k)
      BY <1>2, <1>8, <2>1 DEF IsPrefix
    <3>2. SubSeq(p, 1, k)[k] = p[k] /\ SubSeq(Append(node, w), 1, k)[k] = w BY <1>4, <1>8, <3>1
    <3>3. p[k] = w BY <3>1, <3>2
    <3>4. p[k] = IF clusters[j].sample[k] \in WithDigit THEN Wild ELSE clusters[j].sample[k]
      <4>1. k \in 1..Depth(Len(clusters[j].sample)) BY <1>1, <1>2, <3>1, PathType
      <4> QED BY <1>1, <1>2, <4>1, PathType
    <3> QED BY <1>9, <3>3, <3>4, MinerAssumption
  <2>2. ~IsNode(c.len, Append(node, w)) BY <2>1, <1>1 DEF IsNode
  <2> QED BY <1>4, <1>7, <1>9, <2>2
<1>10. CASE w \notin WithDigit
  <2>1. c.path[k] = w BY <1>4, <1>10
  <2>2. IsPrefix(Append(node, w), c.path)
    <3>1. \A m \in 1..k : Append(node, w)[m] = c.path[m] BY <1>8, <2>1
    <3>2. SubSeq(Append(node, w), 1, k) = [m \in 1..k |-> c.path[m]] BY <1>4, <1>8, <3>1
    <3>3. SubSeq(c.path, 1, k) = [m \in 1..k |-> c.path[m]] BY <1>2, <1>4
    <3> QED BY <1>4, <1>8, <3>2, <3>3 DEF IsPrefix
  <2>3. i \in DOMAIN clusters BY <1>1
  <2>4. IsNode(c.len, Append(node, w)) BY <2>2, <2>3 DEF IsNode
  <2> QED BY <1>7, <2>1, <2>4
<1> QED BY <1>9, <1>10

LEMMA FindsItself ==
    ASSUME MinerInv, NEW i \in 1..Len(clusters), ~FedWild(clusters[i])
    PROVE  i \in Candidates(clusters[i].sample)
<1>1. clusters[i].len = Len(clusters[i].sample) /\ Close(clusters[i].template, clusters[i].sample) BY DEF MinerInv, Mined
<1>2. i \in DOMAIN clusters BY DEF MinerInv
<1> QED BY <1>1, <1>2, LedToIt DEF Candidates

\* A cluster with one line more.
Grown(c, words, level) ==
    [c EXCEPT !.count = @ + 1, !.level = Higher(@, level), !.template = Generalise(@, words),
              !.fed = @ \cup {<<words, level>>}]

LEMMA GrownIsMined ==
    ASSUME NEW c, Mined(c, FedWild(c)), NEW words \in Words, NEW level \in Levels,
           Len(words) = c.len, Close(c.template, words), NEW d, d = Grown(c, words, level)
    PROVE  Mined(d, FedWild(d)) /\ d.sample = c.sample /\ (FedWild(c) => FedWild(d))
<1>1. /\ c \in Cluster /\ Len(c.sample) = c.len /\ Len(c.template) = c.len /\ c.sample \in Words /\ c.template \in Words
      /\ c.len \in Nat \ {0} /\ c.level \in Levels /\ c.count \in Nat /\ c.fed \in SUBSET (Words \X Levels)
  BY DEF Mined, Cluster
<1>2. /\ d.id = c.id /\ d.sample = c.sample /\ d.len = c.len /\ d.path = c.path /\ d.count = c.count + 1 /\ d.level = Higher(c.level, level)
      /\ d.template = Generalise(c.template, words) /\ d.fed = c.fed \cup {<<words, level>>}
  BY <1>1 DEF Cluster, Grown
<1>3. /\ DOMAIN c.template = 1..c.len /\ DOMAIN words = 1..c.len /\ \A k \in 1..c.len : words[k] \in Word /\ c.template[k] \in Word
  BY <1>1 DEF Words
<1>4. \A k \in 1..c.len : d.template[k] = IF c.template[k] # words[k] THEN Wild ELSE c.template[k]
  BY <1>2, <1>3 DEF Generalise
<1>5. d.template \in Words /\ Len(d.template) = c.len
  <2>1. Wild \in Word BY DEF Word
  <2>2. d.template \in [1..c.len -> Word] BY <1>2, <1>3, <2>1 DEF Generalise
  <2>3. d.template \in Seq(Word) /\ Len(d.template) = c.len BY <1>1, <2>2
  <2> QED BY <1>1, <2>3 DEF Words
<1>6. d.level \in Levels /\ Priority(d.level) >= Priority(c.level) /\ Priority(d.level) >= Priority(level)
  BY <1>1, <1>2 DEF Higher, Priority, Levels
<1>7. d.count \in Nat /\ d.fed \in SUBSET (Words \X Levels) BY <1>1, <1>2
<1>8. d \in Cluster
  <2>1. /\ c \in [id : Digests, sample : Words, len : Nat \ {0}, path : Seq(Word), template : Words,
                   level : Levels, count : Nat, fed : SUBSET (Words \X Levels)]
    BY <1>1 DEF Cluster
  <2>2. d = [c EXCEPT !.count = d.count, !.level = d.level, !.template = d.template, !.fed = d.fed] BY <1>2, <2>1 DEF Grown
  <2> QED BY <1>5, <1>6, <1>7, <2>1, <2>2 DEF Cluster
<1>9. ASSUME NEW f \in d.fed
      PROVE  /\ Len(f[1]) = d.len /\ Priority(d.level) >= Priority(f[2])
             /\ \A k \in 1..d.len : d.template[k] \in {f[1][k], Wild}
  <2>1. CASE f = <<words, level>> BY <1>2, <1>4, <1>6, <2>1
  <2>2. CASE f \in c.fed
    <3>1. /\ Len(f[1]) = c.len /\ Priority(c.level) >= Priority(f[2])
          /\ \A k \in 1..c.len : c.template[k] \in {f[1][k], Wild}
      BY <2>2 DEF Mined
    <3>2. Priority(d.level) >= Priority(f[2])
      <4>1. f[2] \in Levels BY <1>1, <2>2
      <4> QED BY <1>1, <1>6, <3>1, <4>1 DEF Priority, Levels
    <3> QED BY <1>2, <1>4, <3>1, <3>2
  <2> QED BY <1>2, <2>1, <2>2
<1>10. FedWild(c) => FedWild(d) BY <1>2 DEF FedWild
<1>11. FedWild(d) \/ Close(d.template, d.sample)
  <2> SUFFICES ASSUME ~FedWild(d) PROVE Close(d.template, c.sample) BY <1>2
  <2>1. \A k \in 1..c.len : words[k] # Wild
    <3>0. <<words, level>> \in d.fed /\ <<words, level>>[1] = words BY <1>2
    <3>1. Wild \notin ToSet(words) BY <3>0 DEF FedWild
    <3> QED BY <1>3, <3>1 DEF ToSet
  <2>2. PICK first \in Levels : <<c.sample, first>> \in c.fed BY DEF Mined
  <2>3. \A k \in 1..c.len : c.template[k] \in {c.sample[k], Wild} BY <2>2 DEF Mined
  <2>4. \A k \in 1..Len(words) : c.template[k] = words[k] => d.template[k] = c.sample[k] BY <1>4, <2>1, <2>3
  <2>5. Len(words) = Len(c.sample) /\ c.sample \in Words BY <1>1
  <2>6. PICK t, u, id : t = c.template /\ u = d.template /\ id = c.sample OBVIOUS
  <2>7. /\ words \in Words /\ id \in Words /\ Len(words) = Len(id) /\ Close(t, words)
        /\ \A k \in 1..Len(words) : t[k] = words[k] => u[k] = id[k]
    BY <2>4, <2>5, <2>6
  <2>8. Close(u, id) BY ONLY MinerAssumption, <2>7, CloserStill
  <2> QED BY <2>6, <2>8
<1>12. \E first \in Levels : <<d.sample, first>> \in d.fed BY <1>2 DEF Mined
<1>13. d.path = Path(d.sample) BY <1>2 DEF Mined
<1>14. d.id = Digest(d.sample) BY <1>2 DEF Mined
<1> QED BY <1>1, <1>2, <1>5, <1>8, <1>9, <1>10, <1>11, <1>12, <1>13, <1>14 DEF Mined

LEMMA StartedIsMined ==
    ASSUME NEW words \in Words, NEW level \in Levels, NEW c,
           c = [id |-> Digest(words), sample |-> words, len |-> Len(words), path |-> Path(words), template |-> words,
                level |-> level, count |-> 1, fed |-> {<<words, level>>}]
    PROVE  Mined(c, FedWild(c))
<1>1. Len(words) \in Nat \ {0} BY DEF Words
<1>5. Digest(words) \in Digests BY DEF Digests
<1> DEFINE digest == Digest(words)
<1>6. c.id = digest /\ c.sample = words OBVIOUS
<1> HIDE DEF digest
<1>2. c \in Cluster BY <1>1, <1>5, PathType DEF Cluster, digest
<1>3. Close(c.template, c.sample) BY CloseToItself
<1>4. Priority(level) >= Priority(level) BY DEF Priority, Levels
<1>7. c.id = Digest(c.sample) BY <1>6 DEF digest
<1> QED BY <1>2, <1>3, <1>4, <1>7 DEF Mined

-----------------------------------------------------------------------------
(* Templates: each step keeps the invariant *)

LEMMA JoinsKeeps ==
    ASSUME MinerInv, NEW words \in Words, NEW level \in Levels,
           NEW i \in Candidates(words), Joins(i, words, level)
    PROVE  MinerInv'
<1>1. clusters \in Seq(Cluster) /\ i \in 1..Len(clusters) /\ DOMAIN clusters = 1..Len(clusters) BY DEF MinerInv, Candidates
<1> DEFINE d == clusters'[i]
<1>2. /\ d = Grown(clusters[i], words, level)
      /\ \A j \in 1..Len(clusters) : j # i => clusters'[j] = clusters[j]
      /\ clusters' = [clusters EXCEPT ![i] = d]
  BY <1>1 DEF Joins, Grown
<1>3. Mined(d, FedWild(d)) /\ d.sample = clusters[i].sample /\ (FedWild(clusters[i]) => FedWild(d))
  <2>1. Len(words) = clusters[i].len /\ Close(clusters[i].template, words) BY DEF Candidates
  <2>2. Mined(clusters[i], FedWild(clusters[i])) BY <1>1 DEF MinerInv
  <2> HIDE DEF d
  <2> QED BY <1>2, <2>1, <2>2, GrownIsMined
<1>4. d \in Cluster BY <1>3 DEF Mined
<1>5. clusters' \in Seq(Cluster) /\ Len(clusters') = Len(clusters)
  <2> HIDE DEF d
  <2> QED BY <1>1, <1>2, <1>4
<1>6. \A j \in 1..Len(clusters') : Mined(clusters'[j], FedWild(clusters'[j]))
  BY <1>2, <1>3, <1>5 DEF MinerInv
<1>7. NamedOnce(clusters')
  <2>1. \A j \in 1..Len(clusters) : clusters'[j].sample = clusters[j].sample /\ (FedWild(clusters[j]) => FedWild(clusters'[j]))
    BY <1>2, <1>3
  <2> QED BY <1>5, <2>1 DEF MinerInv, NamedOnce
<1> QED BY <1>5, <1>6, <1>7 DEF MinerInv

LEMMA StartsKeeps ==
    ASSUME MinerInv, NEW words \in Words, NEW level \in Levels, Candidates(words) = {}, NEW c,
           c = [id |-> Digest(words), sample |-> words, len |-> Len(words), path |-> Path(words), template |-> words,
                level |-> level, count |-> 1, fed |-> {<<words, level>>}],
           clusters' = Append(clusters, c)
    PROVE  MinerInv'
<1>1. clusters \in Seq(Cluster) BY DEF MinerInv
<1>2. Mined(c, FedWild(c)) /\ c.sample = words BY StartedIsMined
<1>3. c \in Cluster BY <1>2 DEF Mined
<1>4. /\ clusters' \in Seq(Cluster) /\ Len(clusters') = Len(clusters) + 1 /\ clusters'[Len(clusters) + 1] = c
      /\ \A j \in 1..Len(clusters) : clusters'[j] = clusters[j]
  BY <1>1, <1>3
<1>5. \A j \in 1..Len(clusters') : Mined(clusters'[j], FedWild(clusters'[j]))
  <2>1. \A j \in 1..Len(clusters') : j \in 1..Len(clusters) \/ j = Len(clusters) + 1 BY <1>1, <1>4
  <2> QED BY <1>2, <1>4, <2>1 DEF MinerInv
<1>6. NamedOnce(clusters')
  <2> SUFFICES ASSUME NEW i \in 1..Len(clusters'), NEW j \in 1..Len(clusters'), i < j
               PROVE  FedWild(clusters'[i]) \/ clusters'[i].sample # clusters'[j].sample
    BY DEF NamedOnce
  <2>1. i \in 1..Len(clusters) BY <1>1, <1>4
  <2>2. CASE j \in 1..Len(clusters) BY <1>4, <2>1, <2>2 DEF MinerInv, NamedOnce
  <2>3. CASE j = Len(clusters) + 1
    <3>1. ASSUME ~FedWild(clusters[i]) PROVE clusters[i].sample # words BY <2>1, <3>1, FindsItself
    <3> QED BY <1>2, <1>4, <2>1, <2>3, <3>1
  <2>4. j \in 1..Len(clusters) \/ j = Len(clusters) + 1 BY <1>1, <1>4
  <2> QED BY <2>2, <2>3, <2>4, Zenon
<1> QED BY <1>4, <1>5, <1>6 DEF MinerInv

LEMMA NextMined == MinerInv /\ [MinerNext]_minerVars => MinerInv'
<1> SUFFICES ASSUME MinerInv, [MinerNext]_minerVars PROVE MinerInv' OBVIOUS
<1>1. CASE MinerNext
  <2>1. PICK raw \in MinedFrom, level \in Levels : AddLog(raw, level) BY <1>1 DEF MinerNext, Levels
  <2> DEFINE words == Preprocess(raw)
  <2>2. words \in Words BY LineWords
  <2>3. CASE Candidates(words) # {}
    <3>1. Joins(Best(words), words, level) BY <2>1, <2>3 DEF AddLog
    <3>2. Best(words) \in Candidates(words) BY <2>2, <2>3, BestIsACandidate DEF MinerInv
    <3> HIDE DEF words
    <3> QED BY <2>2, <3>1, <3>2, JoinsKeeps
  <2>4. CASE Candidates(words) = {} /\ Len(clusters) >= MaxClusters
    BY <2>1, <2>4 DEF AddLog, MinerInv, Candidates
  <2>5. CASE Candidates(words) = {} /\ ~(Len(clusters) >= MaxClusters)
    <3>1. PICK c : /\ c = [id |-> Digest(words), sample |-> words, len |-> Len(words), path |-> Path(words), template |-> words,
                           level |-> level, count |-> 1, fed |-> {<<words, level>>}]
                   /\ clusters' = Append(clusters, c)
      BY <2>1, <2>5 DEF AddLog
    <3> HIDE DEF words
    <3> QED BY <2>2, <2>5, <3>1, StartsKeeps
  <2> QED BY <2>3, <2>4, <2>5
<1>2. CASE UNCHANGED minerVars BY <1>2 DEF minerVars, MinerInv, NamedOnce
<1> QED BY <1>1, <1>2

LEMMA InitMined == MinerInit => MinerInv
BY DEF MinerInit, MinerInv, NamedOnce

LEMMA NamesOfInv == MinerInv => SameIDIsCollision
<1> SUFFICES ASSUME MinerInv PROVE SameIDIsCollision OBVIOUS
<1>1. DOMAIN clusters = 1..Len(clusters) BY DEF MinerInv
<1>2. \A i \in 1..Len(clusters) : HasWild(i) <=> FedWild(clusters[i]) BY DEF HasWild, FedWild
<1>3. \A i \in 1..Len(clusters) : HasWild(i) \/ Candidates(clusters[i].sample) # {} BY <1>2, FindsItself
<1>4. ASSUME NEW i \in 1..Len(clusters), ~HasWild(i), NEW j \in 1..Len(clusters), i < j, clusters[i].id = clusters[j].id
      PROVE  Collide(clusters[i].sample, clusters[j].sample)
  <2>1. clusters[i].sample # clusters[j].sample BY <1>2, <1>4 DEF MinerInv, NamedOnce
  <2>2. clusters[i].id = Digest(clusters[i].sample) /\ clusters[j].id = Digest(clusters[j].sample)
    BY DEF MinerInv, Mined
  <2> QED BY <1>4, <2>1, <2>2 DEF Collide
<1> QED BY <1>1, <1>3, <1>4 DEF SameIDIsCollision

LEMMA CoversOfInv == MinerInv => TemplateCoversItsLines
BY DEF MinerInv, Mined, TemplateCoversItsLines

LEMMA SpecificOfInv == MinerInv => TemplateStaysSpecific
<1> SUFFICES ASSUME MinerInv, NEW i \in DOMAIN clusters
             PROVE  HasWild(i) \/ Agree(clusters[i].template, clusters[i].sample) * 100 >= Threshold * clusters[i].len
  BY DEF TemplateStaysSpecific
<1>1. i \in 1..Len(clusters) BY DEF MinerInv
<1> QED BY <1>1 DEF MinerInv, Mined, Close, HasWild, FedWild

LEMMA MinedAlways == MinerSpec => []MinerInv
BY InitMined, NextMined, PTL DEF MinerSpec

\* The ID of a cluster is that of a later one only if the digests of different
\* first lines collide, and a line like the first one finds a cluster; unless
\* lines with wild cards of their own have worn its template.
THEOREM TemplateNames == MinerSpec => []SameIDIsCollision
BY NamesOfInv, MinedAlways, PTL

\* Whatever order the lines come in, each word of a template is wild or the word
\* of every line that was counted for it, and its level the highest of theirs.
THEOREM TemplateCovers == MinerSpec => []TemplateCoversItsLines
BY CoversOfInv, MinedAlways, PTL

\* However many lines are merged into a template, it keeps the words of its
\* first line that the threshold asks for, unless lines had wild cards.
THEOREM TemplateSpecific == MinerSpec => []TemplateStaysSpecific
BY SpecificOfInv, MinedAlways, PTL

-----------------------------------------------------------------------------
(* Suffixes *)

Suffix(x, t) == Len(x) <= Len(t) /\ \A i \in 1..Len(x) : x[i] = t[Len(t) - Len(x) + i]

LEMMA SuffixOfSuffix ==
    ASSUME NEW S, NEW x \in Seq(S), NEW y \in Seq(S), NEW t \in Seq(S), Suffix(y, x), Suffix(x, t)
    PROVE  Suffix(y, t)
<1>1. Len(y) <= Len(t) BY DEF Suffix
<1>2. ASSUME NEW i \in 1..Len(y) PROVE y[i] = t[Len(t) - Len(y) + i]
  <2>1. Len(x) - Len(y) + i \in 1..Len(x) BY DEF Suffix
  <2>2. y[i] = x[Len(x) - Len(y) + i] BY DEF Suffix
  <2>3. x[Len(x) - Len(y) + i] = t[Len(t) - Len(x) + (Len(x) - Len(y) + i)] BY <2>1 DEF Suffix
  <2>4. Len(t) - Len(x) + (Len(x) - Len(y) + i) = Len(t) - Len(y) + i OBVIOUS
  <2> QED BY <2>2, <2>3, <2>4
<1> QED BY <1>1, <1>2 DEF Suffix

LEMMA ShorterSuffix ==
    ASSUME NEW S, NEW x \in Seq(S), NEW y \in Seq(S), NEW t \in Seq(S),
           Suffix(x, t), Suffix(y, t), Len(y) <= Len(x)
    PROVE  Suffix(y, x)
<1>1. ASSUME NEW i \in 1..Len(y) PROVE y[i] = x[Len(x) - Len(y) + i]
  <2>1. Len(x) - Len(y) + i \in 1..Len(x) OBVIOUS
  <2>2. y[i] = t[Len(t) - Len(y) + i] BY DEF Suffix
  <2>3. x[Len(x) - Len(y) + i] = t[Len(t) - Len(x) + (Len(x) - Len(y) + i)] BY <2>1 DEF Suffix
  <2>4. Len(t) - Len(x) + (Len(x) - Len(y) + i) = Len(t) - Len(y) + i OBVIOUS
  <2> QED BY <2>2, <2>3, <2>4
<1> QED BY <1>1 DEF Suffix

LEMMA SuffixOfItsLength ==
    ASSUME NEW S, NEW x \in Seq(S), NEW t \in Seq(S), Suffix(x, t), Len(x) = Len(t)
    PROVE  x = t
<1>1. \A i \in 1..Len(x) : x[i] = t[i] BY DEF Suffix
<1> QED BY <1>1, SeqEqual

LEMMA SameSuffix ==
    ASSUME NEW S, NEW x \in Seq(S), NEW y \in Seq(S), NEW t \in Seq(S),
           Suffix(x, t), Suffix(y, t), Len(x) = Len(y)
    PROVE  x = y
BY ShorterSuffix, SuffixOfItsLength

\* A sequence that is not empty is its front and its last.
LEMMA FrontLast ==
    ASSUME NEW S, NEW x \in Seq(S), x # << >>
    PROVE  /\ Front(x) \in Seq(S) /\ Last(x) \in S /\ x = Append(Front(x), Last(x))
           /\ Len(Front(x)) = Len(x) - 1 /\ Len(x) \in Nat \ {0}
           /\ \A i \in 1..(Len(x) - 1) : Front(x)[i] = x[i]
<1>1. Len(x) \in Nat \ {0} BY EmptySeq
<1>2. /\ SubSeq(x, 1, Len(x) - 1) \in Seq(S) /\ Len(SubSeq(x, 1, Len(x) - 1)) = Len(x) - 1
      /\ \A i \in 1..(Len(x) - 1) : SubSeq(x, 1, Len(x) - 1)[i] = x[i]
  <2>1. \A i \in 1..(Len(x) - 1) : x[i] \in S BY <1>1
  <2>2. 1 \in Int /\ Len(x) - 1 \in Int BY <1>1
  <2>3. /\ SubSeq(x, 1, Len(x) - 1) \in Seq(S)
        /\ Len(SubSeq(x, 1, Len(x) - 1)) = IF 1 <= Len(x) - 1 THEN Len(x) - 1 - 1 + 1 ELSE 0
        /\ \A i \in 1..(Len(x) - 1 - 1 + 1) : SubSeq(x, 1, Len(x) - 1)[i] = x[1 + i - 1]
    BY <2>1, <2>2, SubSeqProperties
  <2>4. \A i \in 1..(Len(x) - 1) : i \in 1..(Len(x) - 1 - 1 + 1) /\ 1 + i - 1 = i BY <1>1
  <2>5. \A i \in 1..(Len(x) - 1) : SubSeq(x, 1, Len(x) - 1)[i] = x[i] BY <2>3, <2>4
  <2>6. Len(SubSeq(x, 1, Len(x) - 1)) = Len(x) - 1
    <3>1. CASE Len(x) = 1 BY <2>3, <3>1
    <3>2. CASE Len(x) > 1 BY <2>3, <3>2
    <3>3. \A n \in Nat \ {0} : n = 1 \/ n > 1 OBVIOUS
    <3>4. Len(x) = 1 \/ Len(x) > 1 BY <1>1, <3>3, Zenon
    <3> QED BY <3>1, <3>2, <3>4
  <2> QED BY <2>3, <2>5, <2>6
<1>3. x = Append(SubSeq(x, 1, Len(x) - 1), x[Len(x)])
  <2> DEFINE y == Append(SubSeq(x, 1, Len(x) - 1), x[Len(x)])
  <2>1. y \in Seq(S) /\ Len(y) = Len(x) /\ \A i \in 1..Len(x) : y[i] = x[i] BY <1>1, <1>2
  <2> QED BY <2>1, SeqEqual
<1> QED BY <1>1, <1>2, <1>3 DEF Front, Last

LEMMA FrontsOfSuffix ==
    ASSUME NEW S, NEW x \in Seq(S), NEW t \in Seq(S), Suffix(x, t), x # << >>
    PROVE  t # << >> /\ Suffix(Front(x), Front(t)) /\ Last(x) = Last(t)
<1>1. t # << >> BY FrontLast DEF Suffix
<1>2. /\ Len(Front(x)) = Len(x) - 1 /\ Len(Front(t)) = Len(t) - 1
      /\ \A i \in 1..(Len(x) - 1) : Front(x)[i] = x[i]
      /\ \A i \in 1..(Len(t) - 1) : Front(t)[i] = t[i]
      /\ Len(x) \in Nat \ {0} /\ Len(t) \in Nat \ {0}
  BY <1>1, FrontLast
<1>3. ASSUME NEW i \in 1..(Len(x) - 1) PROVE Front(x)[i] = Front(t)[Len(t) - Len(x) + i]
  <2>1. Len(t) - Len(x) + i \in 1..(Len(t) - 1) BY <1>2 DEF Suffix
  <2> QED BY <1>2, <2>1 DEF Suffix
<1>4. Last(x) = Last(t) BY <1>2 DEF Suffix, Last
<1> QED BY <1>1, <1>2, <1>3, <1>4 DEF Suffix

LEMMA SuffixAppend ==
    ASSUME NEW S, NEW x \in Seq(S), NEW t \in Seq(S), NEW c \in S, Suffix(x, t)
    PROVE  Suffix(Append(x, c), Append(t, c))
BY DEF Suffix

LEMMA EmptySuffix == ASSUME NEW S, NEW t \in Seq(S) PROVE Suffix(<< >>, t)
BY DEF Suffix

\* A word is in a longer text where it was, or at its end.
LEMMA IsInAppend ==
    ASSUME NEW S, NEW w \in Seq(S), NEW t \in Seq(S), NEW c \in S, w # << >>
    PROVE  IsIn(Append(t, c), w) <=> IsIn(t, w) \/ Suffix(w, Append(t, c))
<1> DEFINE u == Append(t, c)
<1>1. Len(w) \in Nat \ {0} /\ Len(t) \in Nat /\ u \in Seq(S) /\ Len(u) = Len(t) + 1
      /\ \A i \in 1..Len(t) : u[i] = t[i]
  BY EmptySeq
<1> HIDE DEF u
<1>2. ASSUME NEW i \in 0..(Len(u) - Len(w)), SubSeq(u, i + 1, i + Len(w)) = w
      PROVE  IsIn(t, w) \/ Suffix(w, u)
  <2>1. CASE i = Len(u) - Len(w)
    <3>1. ASSUME NEW j \in 1..Len(w) PROVE w[j] = u[Len(u) - Len(w) + j]
      <4>1. SubSeq(u, i + 1, i + Len(w))[j] = u[i + j] BY <1>1
      <4> QED BY <1>2, <2>1, <4>1
    <3> QED BY <1>1, <2>1, <3>1 DEF Suffix
  <2>2. CASE i # Len(u) - Len(w)
    <3>1. i \in 0..(Len(t) - Len(w)) BY <1>1, <2>2
    <3>2. SubSeq(t, i + 1, i + Len(w)) = SubSeq(u, i + 1, i + Len(w)) BY <1>1, <3>1
    <3> QED BY <1>2, <3>1, <3>2 DEF IsIn
  <2> QED BY <2>1, <2>2
<1>3. ASSUME NEW i \in 0..(Len(t) - Len(w)), SubSeq(t, i + 1, i + Len(w)) = w
      PROVE  IsIn(u, w)
  <2>1. i \in 0..(Len(u) - Len(w)) BY <1>1
  <2>2. SubSeq(t, i + 1, i + Len(w)) = SubSeq(u, i + 1, i + Len(w)) BY <1>1
  <2> QED BY <1>3, <2>1, <2>2 DEF IsIn
<1>4. ASSUME Suffix(w, u) PROVE IsIn(u, w)
  <2> DEFINE i == Len(u) - Len(w)
  <2>1. i \in 0..(Len(u) - Len(w)) BY <1>1, <1>4 DEF Suffix
  <2>2. Len(SubSeq(u, i + 1, i + Len(w))) = Len(w) /\ SubSeq(u, i + 1, i + Len(w)) \in Seq(S)
        /\ \A j \in 1..Len(w) : SubSeq(u, i + 1, i + Len(w))[j] = u[i + j]
    BY <1>1, <2>1
  <2>3. SubSeq(u, i + 1, i + Len(w)) = w BY <1>4, <2>2, SeqEqual DEF Suffix
  <2> QED BY <2>1, <2>3 DEF IsIn
<1> QED BY <1>2, <1>3, <1>4 DEF IsIn, u

-----------------------------------------------------------------------------
(* The automaton: the invariant *)

\* The trie with its words; the links go in level by level, each to a shorter node.
Trees ==
    /\ rules \subseteq RulePool
    /\ Nodes \subseteq Seq(Letters) /\ Root \in Nodes
    /\ \A n \in Nodes \ {Root} : Front(n) \in Nodes
    /\ \A r \in rules : Keywords(r) \subseteq Nodes
    /\ Linked \subseteq Nodes /\ \A n \in Nodes : Len(n) <= 1 => n \in Linked
    /\ \A n \in Linked, m \in Nodes : Len(m) < Len(n) => m \in Linked

\* A fail link leads to the longest node that is a proper suffix.
Links ==
    /\ fail[Root] = Root
    /\ \A n \in Linked \ {Root} :
          /\ fail[n] \in Nodes /\ Len(fail[n]) < Len(n) /\ Suffix(fail[n], n)
          /\ \A y \in Nodes : Suffix(y, n) /\ Len(y) < Len(n) => Len(y) <= Len(fail[n])

\* Of a linked node all rules with a word at its end are put out.
Ending(n) == {r \in rules : \E w \in Keywords(r) : Suffix(w, n)}
Outputs ==
    \A n \in Nodes : ids[n] = IF n \in Linked THEN Ending(n) ELSE {r \in rules : n # Root /\ n \in Keywords(r)}

\* The loop is at a suffix of t, and no node that ends t with its next character
\* has been passed by: such a node is at most one longer.
Follows(t, y) == Suffix(y, t) => Len(y) - 1 <= Len(curr)

Climbing ==
    child # Root =>
      /\ child \in Nodes \ Linked /\ \A m \in Nodes : Len(m) < Len(child) => m \in Linked
      /\ line = << >> /\ ~reading
      /\ Len(curr) < Len(Front(child)) /\ Suffix(curr, Front(child))
      /\ \A y \in Nodes : Len(y) < Len(child) => Follows(child, y)

Scanned == IF reading THEN Front(line) ELSE line

Matching ==
    /\ curr \in Nodes /\ child \in Nodes /\ line \in Seq(Letters) /\ reading \in BOOLEAN
    /\ line # << >> => Linked = Nodes
    /\ reading => /\ line # << >> /\ Suffix(curr, Front(line))
                  /\ \A y \in Nodes : Follows(line, y)
    /\ (child = Root /\ ~reading) =>
         Suffix(curr, line) /\ \A y \in Nodes : Suffix(y, line) => Len(y) <= Len(curr)
    /\ matched = {r \in rules : \E w \in Keywords(r) : IsIn(Scanned, w)}

\* The line that is scanned is the line, folded.
Folds == trimmed \in Seq(Letters) /\ line = ToLowerBytes(trimmed)

RulesInv == Trees /\ Links /\ Outputs /\ Climbing /\ Matching /\ Folds

-----------------------------------------------------------------------------
(* The words of a rule *)

\* Text and Ends as folds.
JoinsText(env, text, item) == text \o item.written
IsText(env, items, text) == text \in Seq(Signs)
GoesThrough(env, ends, item) == UNION {After(env[1], p, item) : p \in ends}

\* Letters of a pattern, from place x to y, lie in a text at a distance d before e.
RunOf(pattern, x, y) == x <= y /\ \A k \in x..y : pattern[k] # Meta
Lies(text, pattern, x, y, d, e) ==
    x + d >= 1 /\ y + d <= e /\ \A k \in x..y : LowerASCII[text[k + d]] = Lower[pattern[k]]

\* Each of them does, and those at the end of the pattern at the end of the match.
Follow(text, pattern, e) ==
    \A x, y \in 1..Len(pattern) : RunOf(pattern, x, y) =>
      \E d \in Int : Lies(text, pattern, x, y, d, e) /\ (y = Len(pattern) => d = e - y)

WayThrough(env, items, ends) ==
    (\A j \in DOMAIN items : Lettered(items[j]) \/ Mute(items[j])) =>
      \A e \in ends : e \in 0..Len(env[1]) /\ Follow(env[1], Text(items), e)

Texts == INSTANCE Folding WITH op <- JoinsText, Inv <- IsText
Ways == INSTANCE Folding WITH op <- GoesThrough, Inv <- WayThrough

LEMMA TextIsFold == ASSUME NEW branch PROVE Text(branch) = Texts!Fold(0, << >>, branch)
BY DEF Text, Texts!Fold, Texts!Folds, Texts!Top, JoinsText, FoldLeft, MapThenFoldSet, Max

LEMMA EndsIsFold ==
    ASSUME NEW branch, NEW text, NEW i
    PROVE  Ends(text, branch, i) = Ways!Fold(<<text, i>>, {i}, branch)
BY DEF Ends, Ways!Fold, Ways!Folds, Ways!Top, GoesThrough, FoldLeft, MapThenFoldSet, Max

LEMMA TextOf ==
    /\ Text(<< >>) = << >>
    /\ \A b \in Seq(PatternItem), item \in PatternItem : Text(Append(b, item)) = Text(b) \o item.written
<1>1. Text(<< >>) = << >> BY TextIsFold, Texts!FoldEmpty
<1>2. ASSUME NEW b \in Seq(PatternItem), NEW item \in PatternItem
      PROVE  Text(Append(b, item)) = Text(b) \o item.written
  <2>1. Texts!Fold(0, << >>, Append(b, item)) = JoinsText(0, Texts!Fold(0, << >>, b), item)
    BY Texts!FoldAppend
  <2>2. Text(Append(b, item)) = JoinsText(0, Text(b), item) BY <2>1, TextIsFold
  <2> QED BY <2>2 DEF JoinsText
<1> QED BY <1>1, <1>2

LEMMA TextType == ASSUME NEW b \in Seq(PatternItem) PROVE Text(b) \in Seq(Signs)
<1>1. IsText(0, << >>, << >>) BY DEF IsText
<1>2. ASSUME NEW a \in Seq(PatternItem), NEW item \in PatternItem, NEW text, IsText(0, a, text)
      PROVE  IsText(0, Append(a, item), JoinsText(0, text, item))
  BY <1>2 DEF IsText, JoinsText, PatternItem
<1>3. IsText(0, b, Texts!Fold(0, << >>, b)) BY <1>1, <1>2, Texts!FoldKeeps
<1> QED BY <1>3, TextIsFold DEF IsText

\* Folding keeps the length of a word.
LEMMA LowerType ==
    ASSUME NEW w \in Seq(Letters)
    PROVE  /\ ToLower(w) \in Seq(Letters) /\ Len(ToLower(w)) = Len(w)
           /\ \A k \in 1..Len(w) : ToLower(w)[k] = Lower[w[k]]
           /\ ToLowerBytes(w) \in Seq(Letters) /\ Len(ToLowerBytes(w)) = Len(w)
           /\ \A k \in 1..Len(w) : ToLowerBytes(w)[k] = LowerASCII[w[k]]
<1>1. DOMAIN w = 1..Len(w) /\ Len(w) \in Nat /\ \A k \in 1..Len(w) : w[k] \in Letters OBVIOUS
<1>2. Lower \in [Letters -> Letters] /\ LowerASCII \in [Letters -> Letters] BY RulesAssumption
<1>3. ToLower(w) \in [1..Len(w) -> Letters] BY <1>1, <1>2 DEF ToLower
<1>4. ToLowerBytes(w) \in [1..Len(w) -> Letters] BY <1>1, <1>2 DEF ToLowerBytes
<1>5. \A k \in 1..Len(w) : ToLower(w)[k] = Lower[w[k]] BY <1>1 DEF ToLower
<1>6. \A k \in 1..Len(w) : ToLowerBytes(w)[k] = LowerASCII[w[k]] BY <1>1 DEF ToLowerBytes
<1> QED BY <1>1, <1>3, <1>4, <1>5, <1>6

\* The longest runs without a special character, and the first of them.
Runs(text) == {p \in (DOMAIN text) \X (DOMAIN text) : p[1] <= p[2] /\ \A i \in p[1]..p[2] : text[i] # Meta}
Prior(p, q) == p[2] - p[1] > q[2] - q[1] \/ (p[2] - p[1] = q[2] - q[1] /\ p[1] <= q[1])

LEMMA FirstLongest ==
    ASSUME NEW text \in Seq(Signs), Runs(text) # {}
    PROVE  \E p \in Runs(text) : \A q \in Runs(text) : Prior(p, q)
<1> DEFINE n == Len(text)
           R == Runs(text)
           T == {n - (p[2] - p[1]) : p \in R}
<1>1. n \in Nat /\ \A p \in R : p[1] \in 1..n /\ p[2] \in 1..n /\ p[1] <= p[2] BY DEF Runs
<1> HIDE DEF n, R
<1>2. T \in SUBSET Nat BY <1>1
<1>3. T # {} BY DEF R
<1>4. PICK t \in T : \A u \in T : t <= u
  <2> HIDE DEF T
  <2> QED BY <1>2, <1>3, Texts!Smallest
<1> DEFINE U == {p[1] : p \in {q \in R : n - (q[2] - q[1]) = t}}
<1>5. U \in SUBSET Nat BY <1>1
<1>6. U # {} BY <1>4
<1>7. PICK u \in U : \A v \in U : u <= v
  <2> HIDE DEF U
  <2> QED BY <1>5, <1>6, Texts!Smallest
<1>8. PICK p \in R : n - (p[2] - p[1]) = t /\ p[1] = u BY <1>7
<1>9. ASSUME NEW q \in R PROVE Prior(p, q)
  <2>1. t <= n - (q[2] - q[1]) BY <1>4
  <2>8. p[2] \in 1..n /\ p[1] \in 1..n /\ p[1] <= p[2] /\ q[2] \in 1..n /\ q[1] \in 1..n /\ q[1] <= q[2]
    BY <1>1, <1>8, Zenon
  <2>9. \A a, b \in 1..n : a <= b => b - a \in Nat BY <1>1
  <2>4. p[2] - p[1] \in Nat /\ q[2] - q[1] \in Nat BY <2>8, <2>9, Zenon
  <2>5. \A a, b \in Nat : n - a = t /\ t <= n - b => b = a \/ (n - b # t /\ b < a) BY <1>1
  <2>6. n - (p[2] - p[1]) = t BY <1>8
  <2>7. q[2] - q[1] = p[2] - p[1] \/ (n - (q[2] - q[1]) # t /\ q[2] - q[1] < p[2] - p[1])
    BY <2>1, <2>4, <2>5, <2>6, Zenon
  <2>2. CASE n - (q[2] - q[1]) = t
    <3>1. u <= q[1] BY <1>7, <2>2
    <3>2. q[2] - q[1] = p[2] - p[1] BY <2>2, <2>7
    <3> QED BY <1>8, <3>1, <3>2 DEF Prior
  <2>3. CASE n - (q[2] - q[1]) # t
    <3>1. q[2] - q[1] < p[2] - p[1] BY <2>3, <2>6, <2>7
    <3> QED BY <1>1, <2>4, <3>1 DEF Prior
  <2> QED BY <2>2, <2>3
<1> QED BY <1>8, <1>9 DEF R

LEMMA LongestIs ==
    ASSUME NEW text \in Seq(Signs)
    PROVE  /\ Runs(text) = {} => LongestLiteral(text) = << >>
           /\ Runs(text) # {} => \E p \in Runs(text) : /\ LongestLiteral(text) = SubSeq(text, p[1], p[2])
                                                       /\ \A q \in Runs(text) : Prior(p, q)
<1> DEFINE best == CHOOSE p \in Runs(text) : \A q \in Runs(text) : Prior(p, q)
<1>1. LongestLiteral(text) = IF Runs(text) = {} THEN << >> ELSE SubSeq(text, best[1], best[2])
  BY DEF LongestLiteral, Runs, Prior
<1>2. Runs(text) # {} => best \in Runs(text) /\ \A q \in Runs(text) : Prior(best, q)
  BY FirstLongest
<1> QED BY <1>1, <1>2

LEMMA LiteralType ==
    ASSUME NEW text \in Seq(Signs)
    PROVE  /\ LongestLiteral(text) \in Seq(Letters)
           /\ (\E i \in DOMAIN text : text[i] # Meta) => LongestLiteral(text) # << >>
<1>1. CASE Runs(text) = {}
  <2>1. ASSUME NEW i \in DOMAIN text, text[i] # Meta PROVE FALSE
    <3>1. <<i, i>> \in Runs(text) BY <2>1 DEF Runs
    <3> QED BY <1>1, <3>1
  <2>2. LongestLiteral(text) = << >> BY <1>1, LongestIs
  <2> QED BY <2>1, <2>2
<1>2. CASE Runs(text) # {}
  <2>1. PICK p \in Runs(text) : LongestLiteral(text) = SubSeq(text, p[1], p[2]) BY <1>2, LongestIs
  <2>2. p[1] \in 1..Len(text) /\ p[2] \in 1..Len(text) /\ p[1] <= p[2] BY DEF Runs
  <2>3. \A i \in p[1]..p[2] : text[i] \in Letters
    <3>1. \A i \in p[1]..p[2] : i \in 1..Len(text) /\ text[i] # Meta BY <2>2 DEF Runs
    <3> QED BY <3>1 DEF Signs
  <2>4. p[1] \in Int /\ p[2] \in Int BY <2>2
  <2>5. SubSeq(text, p[1], p[2]) \in Seq(Letters) BY <2>3, <2>4, SubSeqProperties
  <2>6. Len(SubSeq(text, p[1], p[2])) = p[2] - p[1] + 1 BY <2>2
  <2>7. p[2] - p[1] + 1 # 0 BY <2>2
  <2>8. SubSeq(text, p[1], p[2]) # << >> BY <2>5, <2>6, <2>7, EmptySeq
  <2> QED BY <2>1, <2>5, <2>8
<1> QED BY <1>1, <1>2

LEMMA BranchType ==
    ASSUME NEW r \in RulePool, NEW k \in DOMAIN r.branches
    PROVE  r.branches[k] \in Seq(PatternItem)
<1>1. r.branches \in Seq(Seq(PatternItem)) BY RulesAssumption
<1> QED BY <1>1

LEMMA KeywordsType == ASSUME NEW r \in RulePool PROVE Keywords(r) \subseteq Seq(Letters) \ {<< >>}
<1> SUFFICES ASSUME NEW w \in Keywords(r) PROVE w \in Seq(Letters) \ {<< >>} OBVIOUS
<1>1. CASE r.regex
  <2>1. PICK k \in DOMAIN r.branches : w = ToLower(LongestLiteral(Text(r.branches[k]))) BY <1>1 DEF Keywords
  <2>2. ~(Len(w) < 2) BY <1>1 DEF Keywords
  <2>3. Text(r.branches[k]) \in Seq(Signs) BY BranchType, TextType
  <2>4. LongestLiteral(Text(r.branches[k])) \in Seq(Letters) BY <2>3, LiteralType
  <2>5. w \in Seq(Letters) BY <2>1, <2>4, LowerType
  <2> QED BY <2>2, <2>5
<1>2. CASE ~r.regex
  <2> DEFINE v == r.branches[1][1].written
  <2>1. v \in Seq(Letters) /\ v # << >> BY <1>2, RulesAssumption
  <2>2. w = ToLower(v) BY <1>2 DEF Keywords
  <2> HIDE DEF v
  <2>3. w \in Seq(Letters) /\ Len(w) = Len(v) /\ Len(v) # 0 BY <2>1, <2>2, LowerType, EmptySeq
  <2> QED BY <2>3, EmptySeq
<1> QED BY <1>1, <1>2, RulesAssumption

LEMMA TrieIs ==
    ASSUME NEW all, NEW m
    PROVE  m \in Trie(all) <=> m = Root \/ \E w \in all : \E n \in 0..Len(w) : m = SubSeq(w, 1, n)
<1>1. ASSUME NEW w PROVE m \in {SubSeq(w, 1, n) : n \in 0..Len(w)} <=> \E n \in 0..Len(w) : m = SubSeq(w, 1, n)
  OBVIOUS
<1>2. m \in UNION {{SubSeq(w, 1, n) : n \in 0..Len(w)} : w \in all}
      <=> \E w \in all : m \in {SubSeq(w, 1, n) : n \in 0..Len(w)}
  OBVIOUS
<1> QED BY <1>1, <1>2 DEF Trie

LEMMA InitRules == RuleInit => RulesInv
<1> SUFFICES ASSUME RuleInit PROVE RulesInv OBVIOUS
<1>16. /\ child = Root /\ curr = Root /\ line = << >> /\ reading = FALSE /\ matched = {}
       /\ trimmed = << >>
       /\ fail = [n \in {m \in Nodes : Len(m) <= 1} |-> Root]
  BY DEF RuleInit
<1>17. \A n \in Nodes : ids[n] = {r \in rules : n # Root /\ n \in Keywords(r)}
  BY DEF RuleInit, Nodes
<1> DEFINE all == UNION {Keywords(r) : r \in rules}
<1>1. rules \subseteq RulePool BY DEF RuleInit
<1>2. all \subseteq Seq(Letters) \ {<< >>} BY <1>1, KeywordsType
<1>3. Nodes = Trie(all) BY DEF RuleInit, Nodes
<1>4. Linked = {m \in Nodes : Len(m) <= 1} BY <1>16 DEF Linked
<1> HIDE DEF all
<1>5. ASSUME NEW w \in all, NEW n \in 0..Len(w)
      PROVE  /\ SubSeq(w, 1, n) \in Seq(Letters) /\ Len(SubSeq(w, 1, n)) = n
             /\ n # 0 => Front(SubSeq(w, 1, n)) = SubSeq(w, 1, n - 1)
  <2>1. w \in Seq(Letters) BY <1>2
  <2>2. SubSeq(w, 1, n) \in Seq(Letters) /\ Len(SubSeq(w, 1, n)) = n BY <2>1
  <2>3. ASSUME n # 0 PROVE Front(SubSeq(w, 1, n)) = SubSeq(w, 1, n - 1)
    BY <2>1, <2>2, <2>3 DEF Front
  <2> QED BY <2>2, <2>3
<1>15. ASSUME NEW m
       PROVE  m \in Nodes <=> m = Root \/ \E w \in all : \E n \in 0..Len(w) : m = SubSeq(w, 1, n)
  BY <1>3, TrieIs
<1>6. Nodes \subseteq Seq(Letters) /\ Root \in Nodes
  <2>1. Root \in Seq(Letters) BY DEF Root
  <2>2. ASSUME NEW m \in Nodes PROVE m \in Seq(Letters)
    <3>1. CASE m = Root BY <2>1, <3>1
    <3>2. CASE \E w \in all : \E n \in 0..Len(w) : m = SubSeq(w, 1, n) BY <1>5, <3>2
    <3> QED BY <1>15, <3>1, <3>2
  <2> QED BY <1>15, <2>2
<1>7. ASSUME NEW m \in Nodes \ {Root} PROVE Front(m) \in Nodes
  <2>5. PICK w \in all : m \in {SubSeq(w, 1, n) : n \in 0..Len(w)} BY <1>3 DEF Trie
  <2>1. PICK n \in 0..Len(w) : m = SubSeq(w, 1, n) BY <2>5
  <2>2. w \in Seq(Letters) BY <1>2
  <2>3. n # 0 BY <2>1, <2>2 DEF Root
  <2>4. n - 1 \in 0..Len(w) BY <2>2, <2>3
  <2>6. Front(m) = SubSeq(w, 1, n - 1) BY <1>5, <2>1, <2>3
  <2> QED BY <1>15, <2>4, <2>6
<1>8. ASSUME NEW r \in rules PROVE Keywords(r) \subseteq Nodes
  <2> SUFFICES ASSUME NEW w \in Keywords(r) PROVE w \in Nodes OBVIOUS
  <2>1. w \in all /\ w \in Seq(Letters) BY <1>2 DEF all
  <2>2. w = SubSeq(w, 1, Len(w)) /\ Len(w) \in 0..Len(w) BY <2>1
  <2> QED BY <1>15, <2>1, <2>2
<1>9. Trees BY <1>1, <1>4, <1>6, <1>7, <1>8 DEF Trees
<1>10. \A n \in Nodes : Len(n) = 0 => n = Root BY <1>6, EmptySeq DEF Root
<1>11. Links
  <2>1. fail[Root] = Root BY <1>6, <1>16 DEF Root
  <2>2. ASSUME NEW n \in Linked \ {Root}
        PROVE  /\ fail[n] = Root /\ Len(n) = 1
    <3>1. n \in Nodes /\ Len(n) <= 1 /\ n \in Seq(Letters) BY <1>4, <1>6
    <3>2. Len(n) # 0 /\ Len(n) \in Nat BY <1>10, <3>1
    <3>3. fail[n] = Root BY <1>16, <3>1
    <3>5. \A k \in Nat : k # 0 /\ k <= 1 => k = 1 OBVIOUS
    <3>4. Len(n) = 1 BY <3>1, <3>2, <3>5, Zenon
    <3> QED BY <3>3, <3>4
  <2>3. Len(Root) = 0 /\ Root \in Seq(Letters) BY DEF Root
  <2>4. \A n \in Linked : Suffix(Root, n) BY <1>4, <1>6, EmptySuffix DEF Root
  <2>5. ASSUME NEW n \in Linked \ {Root}, NEW y \in Nodes, Len(y) < Len(n) PROVE Len(y) <= Len(Root)
    <3>1. \A k \in Nat : k < 1 => k <= 0 OBVIOUS
    <3>4. Len(y) \in Nat BY <1>6
    <3>5. Len(n) = 1 BY <2>2
    <3>2. Len(y) \in Nat /\ Len(y) < 1 BY <2>5, <3>4, <3>5, Zenon
    <3> QED BY <2>3, <3>1, <3>2
  <2> QED BY <1>6, <2>1, <2>2, <2>3, <2>4, <2>5 DEF Links
<1>12. Outputs
  <2> SUFFICES ASSUME NEW n \in Nodes, n \in Linked
               PROVE  {r \in rules : n # Root /\ n \in Keywords(r)} = Ending(n)
    BY <1>17 DEF Outputs
  <2>1. n \in Seq(Letters) /\ Len(n) <= 1 BY <1>4, <1>6
  <2>2. ASSUME NEW r \in rules, NEW w \in Keywords(r) PROVE Suffix(w, n) <=> n # Root /\ w = n
    <3>1. w \in Seq(Letters) /\ w # << >> /\ Len(w) # 0 BY <1>1, KeywordsType, EmptySeq
    <3>2. ASSUME Suffix(w, n) PROVE n # Root /\ w = n
      <4>1. Len(w) = Len(n) BY <2>1, <3>1, <3>2 DEF Suffix
      <4> QED BY <2>1, <3>1, <3>2, <4>1, SuffixOfItsLength DEF Root
    <3>3. Suffix(n, n) BY <2>1 DEF Suffix
    <3> QED BY <3>2, <3>3
  <2> QED BY <2>2 DEF Ending
<1>13. Climbing BY <1>16 DEF Climbing
<1>14. Matching
  <2>1. Suffix(curr, line) BY <1>16 DEF Root, Suffix
  <2>2. \A y \in Nodes : Suffix(y, line) => Len(y) <= Len(curr) BY <1>16 DEF Suffix, Root
  <2>3. ASSUME NEW r \in rules, NEW w \in Keywords(r) PROVE ~IsIn(<< >>, w)
    <3>1. w \in Seq(Letters) /\ Len(w) # 0 BY <1>1, KeywordsType, EmptySeq
    <3>2. Len(w) \in Nat /\ Len(<< >>) = 0 BY <3>1
    <3> QED BY <3>1, <3>2 DEF IsIn
  <2>4. line \in Seq(Letters) BY <1>16
  <2> QED BY <1>6, <1>16, <2>1, <2>2, <2>3, <2>4 DEF Matching, Scanned, Root
<1>18. Folds BY <1>16 DEF Folds, ToLowerBytes
<1> QED BY <1>9, <1>11, <1>12, <1>13, <1>14, <1>18 DEF RulesInv

-----------------------------------------------------------------------------
(* The automaton: its steps *)

\* What a node is, said in lengths.
LEMMA NodeLength ==
    ASSUME Trees
    PROVE  /\ \A n \in Nodes : n \in Seq(Letters) /\ Len(n) \in Nat /\ (Len(n) = 0 <=> n = Root)
           /\ Root \in Seq(Letters) /\ Len(Root) = 0
<1>1. Root \in Seq(Letters) /\ Len(Root) = 0 BY DEF Root
<1>2. ASSUME NEW n \in Nodes PROVE n \in Seq(Letters) /\ Len(n) \in Nat /\ (Len(n) = 0 <=> n = Root)
  <2>1. n \in Seq(Letters) BY DEF Trees
  <2> QED BY <2>1, EmptySeq DEF Root
<1> QED BY <1>1, <1>2

\* A node at the end of t leaves, without its last character, one at the end of its front.
LEMMA FrontNode ==
    ASSUME Trees, NEW t \in Seq(Letters), NEW y \in Nodes, y # Root, Suffix(y, t)
    PROVE  /\ Front(y) \in Nodes /\ Len(Front(y)) = Len(y) - 1 /\ Suffix(Front(y), Front(t))
           /\ y = Append(Front(y), Last(t)) /\ t # << >>
<1>1. y \in Seq(Letters) /\ y # << >> BY NodeLength DEF Root
<1>2. t # << >> /\ Suffix(Front(y), Front(t)) /\ Last(y) = Last(t) BY <1>1, FrontsOfSuffix
<1>3. Len(Front(y)) = Len(y) - 1 /\ y = Append(Front(y), Last(y)) BY <1>1, FrontLast
<1>4. Front(y) \in Nodes BY DEF Trees
<1> QED BY <1>2, <1>3, <1>4

\* A round that does not arrive passes no node by.
LEMMA GoesOn ==
    ASSUME Trees, Links, NEW t \in Seq(Letters), NEW Y \in SUBSET Nodes, \A y \in Y : Follows(t, y),
           t # << >>, curr \in Linked, Suffix(curr, Front(t)), ~Arrives(Last(t))
    PROVE  /\ fail[curr] \in Nodes /\ Len(fail[curr]) < Len(curr) /\ Suffix(fail[curr], Front(t))
           /\ \A y \in Y : Suffix(y, t) => Len(y) - 1 <= Len(fail[curr])
<1>1. curr # Root /\ Append(curr, Last(t)) \notin Nodes BY DEF Arrives
<1>2. /\ fail[curr] \in Nodes /\ Len(fail[curr]) < Len(curr) /\ Suffix(fail[curr], curr)
      /\ \A z \in Nodes : Suffix(z, curr) /\ Len(z) < Len(curr) => Len(z) <= Len(fail[curr])
  BY <1>1 DEF Links
<1>3. Front(t) \in Seq(Letters) BY FrontLast
<1>4. curr \in Nodes BY DEF Trees
<1>5. Suffix(fail[curr], Front(t)) BY <1>2, <1>3, <1>4, NodeLength, SuffixOfSuffix
<1>6. ASSUME NEW y \in Y, Suffix(y, t) PROVE Len(y) - 1 <= Len(fail[curr])
  <2>1. y \in Nodes /\ Len(y) \in Nat /\ Len(curr) \in Nat /\ Len(fail[curr]) \in Nat
    BY <1>2, <1>4, NodeLength
  <2>2. CASE y = Root BY <2>1, <2>2, NodeLength
  <2>3. CASE y # Root
    <3> DEFINE z == Front(y)
    <3>1. /\ z \in Nodes /\ Len(z) = Len(y) - 1 /\ Suffix(z, Front(t)) /\ y = Append(z, Last(t))
      BY <1>6, <2>1, <2>3, FrontNode
    <3>2. Len(z) <= Len(curr) BY <1>6, <3>1 DEF Follows
    <3> HIDE DEF z
    <3>3. z \in Seq(Letters) /\ curr \in Seq(Letters) BY <1>4, <3>1, NodeLength
    <3>4. Len(z) # Len(curr) BY <1>1, <1>3, <2>1, <3>1, <3>3, SameSuffix
    <3>5. Len(z) < Len(curr) BY <2>1, <3>2, <3>3, <3>4
    <3>6. Suffix(z, curr) BY <1>3, <3>1, <3>2, <3>3, ShorterSuffix
    <3> QED BY <1>2, <3>1, <3>5, <3>6
  <2> QED BY <2>2, <2>3
<1> QED BY <1>2, <1>5, <1>6

\* Where it arrives is the longest node at the end of t.
LEMMA Comes ==
    ASSUME Trees, Links, NEW t \in Seq(Letters), NEW Y \in SUBSET Nodes, \A y \in Y : Follows(t, y),
           t # << >>, curr \in Nodes, Suffix(curr, Front(t)), Arrives(Last(t)),
           NEW to, to = Arrival(Last(t))
    PROVE  /\ to \in Nodes /\ Suffix(to, t) /\ Len(to) <= Len(curr) + 1
           /\ \A y \in Y : Suffix(y, t) => Len(y) <= Len(to)
<1>1. /\ Front(t) \in Seq(Letters) /\ Last(t) \in Letters /\ t = Append(Front(t), Last(t))
  BY FrontLast
<1>2. curr \in Seq(Letters) /\ Len(curr) \in Nat BY NodeLength
<1>3. CASE Append(curr, Last(t)) \in Nodes
  <2>1. to = Append(curr, Last(t)) BY <1>3 DEF Arrival
  <2>2. Suffix(to, t) BY <1>1, <1>2, <2>1, SuffixAppend
  <2>3. Len(to) = Len(curr) + 1 BY <1>1, <1>2, <2>1
  <2>4. ASSUME NEW y \in Y, Suffix(y, t) PROVE Len(y) <= Len(to)
    <3>1. Len(y) - 1 <= Len(curr) BY <2>4 DEF Follows
    <3>2. Len(y) \in Nat BY NodeLength
    <3> QED BY <1>2, <2>3, <3>1, <3>2
  <2> QED BY <1>2, <1>3, <2>1, <2>2, <2>3, <2>4
<1>4. CASE Append(curr, Last(t)) \notin Nodes
  <2>1. curr = Root /\ to = Root /\ to \in Nodes /\ Len(to) = 0 BY <1>4, NodeLength DEF Arrives, Arrival
  <2>2. Suffix(to, t) BY <2>1, EmptySuffix DEF Root
  <2>3. ASSUME NEW y \in Y, Suffix(y, t) PROVE Len(y) <= Len(to)
    <3> SUFFICES ASSUME y # Root PROVE FALSE BY <2>1, NodeLength
    <3>1. /\ Len(Front(y)) = Len(y) - 1 /\ Front(y) \in Nodes /\ y = Append(Front(y), Last(t))
      BY <2>3, FrontNode
    <3>2. Len(y) - 1 <= Len(curr) BY <2>3 DEF Follows
    <3>3. Len(Front(y)) \in Nat /\ Len(Front(y)) <= 0 BY <2>1, <3>1, <3>2, NodeLength
    <3>4. Front(y) = Root BY <3>1, <3>3, NodeLength
    <3> QED BY <1>4, <2>1, <3>1, <3>4
  <2> QED BY <1>2, <2>1, <2>2, <2>3
<1> QED BY <1>3, <1>4

LEMMA VisitsKeeps == ASSUME RulesInv, NEW n \in Nodes, Visits(n) PROVE RulesInv'
<1> USE DEF RulesInv
<1>1. Nodes' = Nodes /\ Linked' = Linked /\ UNCHANGED <<rules, ids, fail, trimmed, line, reading, matched>>
  BY DEF Visits, Nodes, Linked
<1>2. child' = n /\ curr' = fail[Front(n)] /\ n \in Nodes \ Linked /\ child = Root BY DEF Visits
<1>3. n # Root /\ n \in Seq(Letters) /\ Len(n) > 1 /\ n # << >>
  <2>1. Len(n) \in Nat /\ ~(Len(n) <= 1) BY <1>2, NodeLength DEF Trees
  <2> QED BY <1>2, <2>1, NodeLength DEF Root
<1>4. /\ Front(n) \in Nodes /\ Len(Front(n)) = Len(n) - 1 /\ Front(n) \in Seq(Letters)
      /\ Len(n) \in Nat
  BY <1>3, FrontLast, NodeLength DEF Trees
<1>5. \A m \in Nodes : Len(m) < Len(n) => m \in Linked
  <2> SUFFICES ASSUME NEW m \in Nodes, Len(m) < Len(n), m \notin Linked PROVE FALSE OBVIOUS
  <2>1. Len(n) <= Len(m) BY DEF Visits
  <2> QED BY <2>1, NodeLength
<1>6. Front(n) \in Linked \ {Root}
  <2>1. Len(Front(n)) < Len(n) /\ Len(Front(n)) # 0 BY <1>3, <1>4
  <2> QED BY <1>4, <1>5, <2>1, NodeLength
<1>7. /\ fail[Front(n)] \in Nodes /\ Len(fail[Front(n)]) < Len(Front(n)) /\ Suffix(fail[Front(n)], Front(n))
      /\ \A y \in Nodes : Suffix(y, Front(n)) /\ Len(y) < Len(Front(n)) => Len(y) <= Len(fail[Front(n)])
  BY <1>6 DEF Links
<1>8. line = << >> /\ ~reading
  <2>1. line = << >> BY <1>2 DEF Matching
  <2> QED BY <2>1 DEF Matching
<1>9. ASSUME NEW y \in Nodes, Len(y) < Len(n), Suffix(y, n) PROVE Len(y) - 1 <= Len(fail[Front(n)])
  <2>1. Len(y) \in Nat /\ Len(fail[Front(n)]) \in Nat BY <1>7, NodeLength
  <2>2. CASE y = Root BY <2>1, <2>2, NodeLength
  <2>3. CASE y # Root
    <3>1. Front(y) \in Nodes /\ Len(Front(y)) = Len(y) - 1 /\ Suffix(Front(y), Front(n))
      BY <1>3, <1>9, <2>3, FrontNode
    <3>2. Len(Front(y)) < Len(Front(n)) BY <1>4, <1>9, <2>1, <3>1
    <3> QED BY <1>7, <3>1, <3>2
  <2> QED BY <2>2, <2>3
<1>10. Climbing'
  BY <1>1, <1>2, <1>4, <1>5, <1>7, <1>8, <1>9 DEF Climbing, Follows
<1>11. Matching'
  BY <1>1, <1>2, <1>3, <1>7, <1>8 DEF Matching, Scanned
<1>12. Trees' /\ Links' /\ Outputs' /\ Folds'
  BY <1>1 DEF Trees, Links, Outputs, Ending, Folds, ToLowerBytes
<1> QED BY <1>10, <1>11, <1>12

\* The words at the end of a node are its own and those at the end of its fail link.
LEMMA EndsOfChild ==
    ASSUME RulesInv, NEW n \in Nodes, n # Root, NEW to \in Nodes, Len(to) < Len(n), Suffix(to, n),
           \A y \in Nodes : Suffix(y, n) /\ Len(y) < Len(n) => Len(y) <= Len(to)
    PROVE  Ending(n) = {r \in rules : n # Root /\ n \in Keywords(r)} \cup Ending(to)
<1> USE DEF RulesInv
<1>1. n \in Seq(Letters) /\ to \in Seq(Letters) BY NodeLength
<1>2. ASSUME NEW r \in rules, NEW w \in Keywords(r)
      PROVE  Suffix(w, n) <=> w = n \/ Suffix(w, to)
  <2>1. w \in Nodes /\ w \in Seq(Letters) /\ Len(w) \in Nat BY NodeLength DEF Trees
  <2>2. ASSUME Suffix(w, n), w # n PROVE Suffix(w, to)
    <3>1. Len(w) # Len(n) BY <1>1, <2>1, <2>2, SuffixOfItsLength
    <3>2. Len(w) < Len(n) BY <1>1, <2>1, <2>2, <3>1 DEF Suffix
    <3>3. Len(w) <= Len(to) BY <2>1, <2>2, <3>2
    <3> QED BY <1>1, <2>1, <2>2, <3>3, ShorterSuffix
  <2>3. Suffix(n, n) BY <1>1 DEF Suffix
  <2>4. Suffix(w, to) => Suffix(w, n) BY <1>1, <2>1, SuffixOfSuffix
  <2> QED BY <2>2, <2>3, <2>4
<1> QED BY <1>2 DEF Ending

LEMMA ClimbsKeeps == ASSUME RulesInv, Climbs PROVE RulesInv'
<1> USE DEF RulesInv
<1> DEFINE Y == {y \in Nodes : Len(y) < Len(child)}
<1>1. child # Root /\ child \in Nodes /\ child \notin Linked
      /\ UNCHANGED <<rules, trimmed, line, reading, matched>>
  BY DEF Climbs, Climbing
<1>9. Folds' BY <1>1 DEF Folds, ToLowerBytes
<1>2. child \in Seq(Letters) /\ child # << >> /\ Len(child) \in Nat BY <1>1, NodeLength DEF Root
<1>3. Len(Front(child)) = Len(child) - 1 BY <1>2, FrontLast
<1>4. /\ Len(curr) < Len(Front(child)) /\ Suffix(curr, Front(child)) /\ line = << >> /\ ~reading
      /\ \A m \in Nodes : Len(m) < Len(child) => m \in Linked
      /\ \A y \in Y : Follows(child, y)
  BY <1>1 DEF Climbing
<1>5. curr \in Nodes /\ Len(curr) \in Nat BY NodeLength DEF Matching
<1>6. curr \in Linked
  <2>1. Len(curr) < Len(child) BY <1>2, <1>3, <1>4, <1>5
  <2> QED BY <1>4, <1>5, <2>1
<1>7. CASE ~Arrives(Last(child))
  <2>1. curr' = fail[curr] /\ UNCHANGED <<ids, fail, child>> BY <1>7 DEF Climbs
  <2>2. Nodes' = Nodes /\ Linked' = Linked BY <2>1 DEF Nodes, Linked
  <2>3. /\ fail[curr] \in Nodes /\ Len(fail[curr]) < Len(curr) /\ Suffix(fail[curr], Front(child))
        /\ \A y \in Y : Suffix(y, child) => Len(y) - 1 <= Len(fail[curr])
    <3>1. Y \in SUBSET Nodes OBVIOUS
    <3> HIDE DEF Y
    <3> QED BY <1>2, <1>4, <1>6, <1>7, <3>1, GoesOn
  <2>4. Len(fail[curr]) < Len(Front(child))
    <3>1. Len(fail[curr]) \in Nat BY <2>3, NodeLength
    <3> QED BY <1>2, <1>3, <1>4, <1>5, <2>3, <3>1
  <2>5. Climbing' BY <1>1, <1>4, <2>1, <2>2, <2>3, <2>4 DEF Climbing, Follows
  <2>6. Matching' BY <1>1, <1>4, <2>1, <2>2, <2>3 DEF Matching, Scanned
  <2>7. Trees' /\ Links' /\ Outputs' BY <1>1, <2>1, <2>2 DEF Trees, Links, Outputs, Ending
  <2> QED BY <1>9, <2>5, <2>6, <2>7
<1>8. CASE Arrives(Last(child))
  <2> DEFINE to == Arrival(Last(child))
  <2>1. /\ fail' = [n \in Linked \cup {child} |-> IF n = child THEN to ELSE fail[n]]
        /\ ids' = [ids EXCEPT ![child] = @ \cup ids[to]]
        /\ child' = Root /\ curr' = Root
    BY <1>8 DEF Climbs
  <2>2. Nodes' = Nodes /\ Linked' = Linked \cup {child} BY <2>1 DEF Nodes, Linked
  <2>3. /\ to \in Nodes /\ Suffix(to, child) /\ Len(to) <= Len(curr) + 1
        /\ \A y \in Y : Suffix(y, child) => Len(y) <= Len(to)
    <3>1. Y \in SUBSET Nodes OBVIOUS
    <3> HIDE DEF Y, to
    <3>2. to = Arrival(Last(child)) BY DEF to
    <3> QED BY <1>2, <1>4, <1>5, <1>8, <3>1, <3>2, Comes
  <2>4. Len(to) \in Nat BY <2>3, NodeLength
  <2>5. Len(to) < Len(child) BY <1>2, <1>3, <1>4, <1>5, <2>3, <2>4
  <2>6. to \in Linked BY <1>4, <2>3, <2>5
  <2> HIDE DEF to
  <2>7. \A y \in Nodes : Suffix(y, child) /\ Len(y) < Len(child) => Len(y) <= Len(to) BY <2>3
  <2>8. Trees'
    <3>1. \A n \in Linked \cup {child}, m \in Nodes : Len(m) < Len(n) => m \in Linked \cup {child}
      BY <1>4 DEF Trees
    <3> QED BY <1>1, <2>2, <3>1 DEF Trees
  <2>9. Links'
    <3>1. Root \in Linked BY NodeLength DEF Trees
    <3>2. fail'[Root] = Root BY <1>1, <2>1, <3>1 DEF Links
    <3>3. ASSUME NEW n \in (Linked \cup {child}) \ {Root}
          PROVE  /\ fail'[n] \in Nodes /\ Len(fail'[n]) < Len(n) /\ Suffix(fail'[n], n)
                 /\ \A y \in Nodes : Suffix(y, n) /\ Len(y) < Len(n) => Len(y) <= Len(fail'[n])
      <4>1. CASE n = child BY <2>1, <2>3, <2>5, <2>7, <4>1
      <4>2. CASE n # child
        <5>1. n \in Linked \ {Root} /\ fail'[n] = fail[n] BY <2>1, <4>2
        <5> QED BY <5>1 DEF Links
      <4> QED BY <4>1, <4>2
    <3> QED BY <2>2, <3>2, <3>3 DEF Links
  <2>10. Outputs'
    <3>1. \A n \in Nodes : Ending(n)' = Ending(n) BY <1>1 DEF Ending
    <3>2. ids'[child] = Ending(child)
      <4>1. ids[child] = {r \in rules : child # Root /\ child \in Keywords(r)} BY <1>1 DEF Outputs
      <4>2. ids[to] = Ending(to) BY <2>3, <2>6 DEF Outputs
      <4>3. ids'[child] = ids[child] \cup ids[to] BY <1>1, <2>1 DEF Nodes
      <4> QED BY <1>1, <2>3, <2>5, <2>7, <4>1, <4>2, <4>3, EndsOfChild
    <3>3. \A n \in Nodes \ {child} : ids'[n] = ids[n] BY <2>1 DEF Nodes
    <3> QED BY <1>1, <2>2, <3>1, <3>2, <3>3 DEF Outputs
  <2>11. Climbing' BY <2>1 DEF Climbing
  <2>12. Matching'
    <3>1. line' = << >> /\ reading' = FALSE BY <1>1, <1>4 DEF Matching
    <3>2. Suffix(Root, << >>) /\ \A y \in Nodes : Suffix(y, << >>) => Len(y) <= Len(Root)
      BY NodeLength DEF Suffix, Root
    <3>3. Root \in Nodes BY DEF Trees
    <3>4. Scanned' = Scanned BY <1>1 DEF Scanned
    <3> QED BY <1>1, <2>1, <2>2, <3>1, <3>2, <3>3, <3>4 DEF Matching
  <2> QED BY <1>9, <2>8, <2>9, <2>10, <2>11, <2>12
<1> QED BY <1>7, <1>8

LEMMA ReadsKeeps == ASSUME RulesInv, NEW c \in Letters, Reads(c) PROVE RulesInv'
<1> USE DEF RulesInv
<1> DEFINE a == LowerASCII[c]
<1>12. a \in Letters BY RulesAssumption
<1>1. /\ line' = Append(line, a) /\ reading' = TRUE /\ ~reading /\ Linked = Nodes
      /\ UNCHANGED <<rules, ids, fail, child, curr, matched>>
  BY DEF Reads
<1>13. Folds'
  <2>1. trimmed \in Seq(Letters) /\ trimmed' = Append(trimmed, c) /\ line = ToLowerBytes(trimmed)
    BY DEF Folds, Reads
  <2>2. trimmed' \in Seq(Letters) BY <2>1
  <2>3. /\ ToLowerBytes(trimmed') \in Seq(Letters) /\ Len(ToLowerBytes(trimmed')) = Len(trimmed')
        /\ \A k \in 1..Len(trimmed') : ToLowerBytes(trimmed')[k] = LowerASCII[trimmed'[k]]
        /\ line \in Seq(Letters) /\ Len(line) = Len(trimmed)
        /\ \A k \in 1..Len(trimmed) : line[k] = LowerASCII[trimmed[k]]
    BY <2>1, <2>2, LowerType
  <2>4. Append(line, a) \in Seq(Letters) /\ Len(Append(line, a)) = Len(trimmed') BY <1>12, <2>1, <2>3
  <2>5. \A k \in 1..Len(trimmed') : Append(line, a)[k] = LowerASCII[trimmed'[k]] BY <2>1, <2>3
  <2>6. Append(line, a) = ToLowerBytes(trimmed') BY <2>3, <2>4, <2>5, SeqEqual
  <2>7. ToLowerBytes(trimmed)' = ToLowerBytes(trimmed') BY DEF ToLowerBytes
  <2> QED BY <1>1, <2>2, <2>6, <2>7 DEF Folds
<1> HIDE DEF a
<1>2. Nodes' = Nodes /\ Linked' = Linked BY <1>1 DEF Nodes, Linked
<1>3. child = Root BY <1>1 DEF Climbing
<1>4. line \in Seq(Letters) /\ curr \in Nodes BY DEF Matching
<1>5. line' \in Seq(Letters) /\ line' # << >> BY <1>1, <1>4, <1>12
<1>6. Front(line') = line
  <2>1. line' = Append(Front(line'), Last(line')) /\ Front(line') \in Seq(Letters) BY <1>5, FrontLast
  <2>2. Len(line') = Len(line) + 1 /\ \A i \in 1..Len(line) : line'[i] = line[i] BY <1>1, <1>4, <1>12
  <2>3. Len(Front(line')) = Len(line) /\ \A i \in 1..Len(line) : Front(line')[i] = line[i]
    BY <1>4, <1>5, <2>2, FrontLast
  <2> QED BY <1>4, <2>1, <2>3, SeqEqual
<1>7. Suffix(curr, line) /\ \A y \in Nodes : Suffix(y, line) => Len(y) <= Len(curr)
  BY <1>1, <1>3 DEF Matching
<1>8. ASSUME NEW y \in Nodes, Suffix(y, line') PROVE Len(y) - 1 <= Len(curr)
  <2>1. Len(y) \in Nat /\ Len(curr) \in Nat BY <1>4, NodeLength
  <2>2. CASE y = Root BY <2>1, <2>2, NodeLength
  <2>3. CASE y # Root
    <3>1. Front(y) \in Nodes /\ Len(Front(y)) = Len(y) - 1 /\ Suffix(Front(y), Front(line'))
      BY <1>5, <1>8, <2>3, FrontNode
    <3> QED BY <1>6, <1>7, <3>1
  <2> QED BY <2>2, <2>3
<1>9. Scanned' = Scanned BY <1>1, <1>6 DEF Scanned
<1>10. Matching'
  BY <1>1, <1>2, <1>4, <1>5, <1>6, <1>7, <1>8, <1>9 DEF Matching, Follows
<1>11. Trees' /\ Links' /\ Outputs' /\ Climbing'
  BY <1>1, <1>2, <1>3 DEF Trees, Links, Outputs, Ending, Climbing
<1> QED BY <1>10, <1>11, <1>13

LEMMA GoesKeeps == ASSUME RulesInv, Goes PROVE RulesInv'
<1> USE DEF RulesInv
<1>1. reading /\ UNCHANGED <<rules, ids, fail, child, trimmed, line>> BY DEF Goes
<1>2. Nodes' = Nodes /\ Linked' = Linked BY <1>1 DEF Nodes, Linked
<1>3. /\ line \in Seq(Letters) /\ line # << >> /\ curr \in Nodes /\ Linked = Nodes
      /\ Suffix(curr, Front(line)) /\ \A y \in Nodes : Follows(line, y)
  BY <1>1 DEF Matching
<1>4. child = Root BY <1>1 DEF Climbing
<1>5. Trees' /\ Links' /\ Outputs' /\ Climbing' /\ Folds'
  BY <1>1, <1>2, <1>4 DEF Trees, Links, Outputs, Ending, Climbing, Folds, ToLowerBytes
<1>6. CASE ~Arrives(Last(line))
  <2>1. curr' = fail[curr] /\ UNCHANGED <<reading, matched>> BY <1>6 DEF Goes
  <2>2. /\ fail[curr] \in Nodes /\ Len(fail[curr]) < Len(curr) /\ Suffix(fail[curr], Front(line))
        /\ \A y \in Nodes : Suffix(y, line) => Len(y) - 1 <= Len(fail[curr])
    BY <1>3, <1>6, GoesOn
  <2>3. Scanned' = Scanned BY <1>1, <2>1 DEF Scanned
  <2>4. Matching' BY <1>1, <1>2, <1>3, <2>1, <2>2, <2>3 DEF Matching, Follows
  <2> QED BY <1>5, <2>4
<1>7. CASE Arrives(Last(line))
  <2> DEFINE to == Arrival(Last(line))
  <2>1. curr' = to /\ matched' = matched \cup ids[to] /\ reading' = FALSE BY <1>7 DEF Goes
  <2>2. /\ to \in Nodes /\ Suffix(to, line)
        /\ \A y \in Nodes : Suffix(y, line) => Len(y) <= Len(to)
    <3> HIDE DEF to
    <3>1. to = Arrival(Last(line)) BY DEF to
    <3> QED BY <1>3, <1>7, <3>1, Comes
  <2> HIDE DEF to
  <2>3. ids[to] = Ending(to) BY <1>3, <2>2 DEF Outputs
  <2>4. ASSUME NEW r \in rules, NEW w \in Keywords(r)
        PROVE  IsIn(line, w) <=> IsIn(Front(line), w) \/ Suffix(w, to)
    <3>1. w \in Nodes BY DEF Trees
    <3>2. w \in Seq(Letters) /\ w # << >> /\ to \in Seq(Letters)
      <4>1. r \in RulePool BY DEF Trees
      <4> QED BY <2>2, <3>1, <4>1, NodeLength, KeywordsType
    <3>3. Front(line) \in Seq(Letters) /\ Last(line) \in Letters /\ line = Append(Front(line), Last(line))
      BY <1>3, FrontLast
    <3>4. IsIn(line, w) <=> IsIn(Front(line), w) \/ Suffix(w, line)
      BY <3>2, <3>3, IsInAppend
    <3>5. Suffix(w, line) <=> Suffix(w, to)
      <4>1. Suffix(w, to) => Suffix(w, line) BY <1>3, <2>2, <3>2, SuffixOfSuffix
      <4>2. Suffix(w, line) => Suffix(w, to) BY <1>3, <2>2, <3>1, <3>2, ShorterSuffix
      <4> QED BY <4>1, <4>2
    <3> QED BY <3>4, <3>5
  <2>5. matched = {r \in rules : \E w \in Keywords(r) : IsIn(Front(line), w)}
    BY <1>1 DEF Matching, Scanned
  <2>6. matched' = {r \in rules : \E w \in Keywords(r) : IsIn(line, w)}
    BY <2>1, <2>3, <2>4, <2>5 DEF Ending
  <2>7. Scanned' = line BY <1>1, <2>1 DEF Scanned
  <2>8. Matching' BY <1>1, <1>2, <1>3, <1>4, <2>1, <2>2, <2>6, <2>7 DEF Matching
  <2> QED BY <1>5, <2>8
<1> QED BY <1>6, <1>7

LEMMA NextRules == RulesInv /\ [RuleNext]_ruleVars => RulesInv'
<1> SUFFICES ASSUME RulesInv, [RuleNext]_ruleVars PROVE RulesInv' OBVIOUS
<1>1. CASE UNCHANGED ruleVars
  BY <1>1 DEF ruleVars, RulesInv, Trees, Links, Outputs, Ending, Climbing, Follows, Matching, Scanned, Nodes, Linked,
         Folds, ToLowerBytes
<1>2. CASE RuleNext
  BY <1>2, VisitsKeeps, ClimbsKeeps, ReadsKeeps, GoesKeeps DEF RuleNext
<1> QED BY <1>1, <1>2

\* When a line has been read, exactly the rules with a word in it have been put out.
LEMMA ExactAutomaton == RulesInv => AutomatonIsExact
BY DEF RulesInv, Matching, Scanned, AutomatonIsExact

-----------------------------------------------------------------------------
(* The words as a shortcut *)

\* An item that keeps its letters leads on to where the text has them.
LEMMA KeptFollows ==
    ASSUME NEW text \in Seq(Letters), NEW pattern \in Seq(Signs), NEW w \in Seq(Letters),
           NEW m \in Seq(Letters), ToLowerBytes(m) = ToLower(w),
           NEW p \in 0..Len(text), NEW e \in p..Len(text), SubSeq(text, p + 1, e) = m,
           Follow(text, pattern, p)
    PROVE  Follow(text, pattern \o w, e)
<1> DEFINE n == Len(pattern)
           all == pattern \o w
<1>1. Len(w) = Len(m) BY LowerType
<1>2. /\ Len(m) = e - p /\ \A k \in 1..Len(m) : m[k] = text[p + k]
  <2>1. p + 1 \in Int /\ e \in Int /\ Len(text) \in Nat OBVIOUS
  <2>2. \A k \in (p + 1)..e : text[k] \in Letters OBVIOUS
  <2>3. /\ Len(SubSeq(text, p + 1, e)) = IF p + 1 <= e THEN e - (p + 1) + 1 ELSE 0
        /\ \A k \in 1..(e - (p + 1) + 1) : SubSeq(text, p + 1, e)[k] = text[(p + 1) + k - 1]
    BY <2>1, <2>2, SubSeqProperties
  <2>4. (IF p + 1 <= e THEN e - (p + 1) + 1 ELSE 0) = e - p /\ e - (p + 1) + 1 = e - p BY <2>1
  <2>5. Len(m) = e - p /\ \A k \in 1..(e - p) : m[k] = text[(p + 1) + k - 1] BY <2>3, <2>4, Zenon
  <2>6. \A k \in 1..(e - p) : (p + 1) + k - 1 = p + k OBVIOUS
  <2> QED BY <2>5, <2>6
<1>3. /\ w \in Seq(Signs) /\ Len(w) \in Nat /\ n \in Nat /\ Len(all) = n + Len(w) /\ e = p + Len(w)
      /\ p \in Nat
  BY <1>1, <1>2 DEF Signs
<1>4. \A k \in 1..n : all[k] = pattern[k] OBVIOUS
<1>5. \A k \in 1..Len(w) : all[n + k] = w[k]
  <2> SUFFICES ASSUME NEW k \in 1..Len(w) PROVE all[n + k] = w[k] OBVIOUS
  <2>1. n + k \in 1..(n + Len(w)) /\ ~(n + k <= n) /\ (n + k) - n = k BY <1>3
  <2> QED BY <1>3, <2>1, ConcatProperties
<1>6. \A k \in 1..Len(w) : LowerASCII[text[p + k]] = Lower[w[k]]
  <2> SUFFICES ASSUME NEW k \in 1..Len(w) PROVE LowerASCII[text[p + k]] = Lower[w[k]] OBVIOUS
  <2>1. ToLower(w)[k] = Lower[w[k]] /\ ToLowerBytes(m)[k] = LowerASCII[m[k]] BY <1>1, LowerType
  <2> QED BY <1>1, <1>2, <2>1
<1> HIDE DEF n, all
<1> SUFFICES ASSUME NEW x \in 1..Len(all), NEW y \in 1..Len(all), RunOf(all, x, y)
             PROVE  \E d \in Int : Lies(text, all, x, y, d, e) /\ (y = Len(all) => d = e - y)
  BY DEF Follow, all
<1>7. x \in Nat /\ y \in Nat /\ x >= 1 /\ x <= y /\ y <= n + Len(w) BY <1>3 DEF RunOf
<1>8. CASE y <= n
  <2>1. x \in 1..n /\ y \in 1..n BY <1>3, <1>7, <1>8
  <2>2. \A k \in x..y : k \in 1..n BY <1>3, <1>7, <1>8
  <2>3. RunOf(pattern, x, y) BY <1>4, <2>2 DEF RunOf
  <2>4. PICK d \in Int : Lies(text, pattern, x, y, d, p) /\ (y = n => d = p - y)
    BY <2>1, <2>3 DEF Follow, n
  <2>5. Lies(text, all, x, y, d, e)
    <3>1. y + d <= e BY <1>3, <1>7, <2>4 DEF Lies
    <3> QED BY <1>4, <2>2, <2>4, <3>1 DEF Lies
  <2>6. y = Len(all) => d = e - y
    <3> SUFFICES ASSUME y = Len(all) PROVE d = e - y OBVIOUS
    <3>1. Len(w) = 0 /\ y = n BY <1>3, <1>8
    <3> QED BY <1>3, <2>4, <3>1
  <2> QED BY <2>5, <2>6
<1>9. CASE ~(y <= n)
  <2> DEFINE d == p - n
  <2>1. d \in Int /\ y + d <= e /\ (y = Len(all) => d = e - y)
    <3>1. Len(all) = n + Len(w) /\ e = p + Len(w) BY <1>3
    <3>2. n \in Nat /\ p \in Nat /\ y \in Nat /\ Len(w) \in Nat /\ y <= n + Len(w) BY <1>3, <1>7
    <3>3. \A z \in Nat : y <= n + z => y + (p - n) <= p + z /\ (y = n + z => p - n = (p + z) - y)
      BY ONLY <3>2
    <3> HIDE DEF d
    <3>4. d = p - n /\ d \in Int BY <3>2 DEF d
    <3>5. y + d <= p + Len(w) /\ (y = n + Len(w) => d = (p + Len(w)) - y) BY <3>2, <3>3, <3>4, Zenon
    <3> QED BY <3>1, <3>4, <3>5
  <2>2. ASSUME x <= n PROVE x + d >= 1 /\ \A k \in x..n : LowerASCII[text[k + d]] = Lower[pattern[k]]
    <3>1. x \in 1..n /\ n \in 1..n /\ \A k \in x..n : k \in 1..n /\ k \in x..y
      BY <1>3, <1>7, <1>9, <2>2
    <3>2. RunOf(pattern, x, n) BY <1>4, <2>2, <3>1 DEF RunOf
    <3>3. PICK c \in Int : Lies(text, pattern, x, n, c, p) /\ c = p - n
      BY <3>1, <3>2 DEF Follow, n
    <3> QED BY <3>3 DEF Lies
  <2>3. ASSUME NEW k \in x..y, ~(k <= n) PROVE LowerASCII[text[k + d]] = Lower[all[k]]
    <3>1. k - n \in 1..Len(w) /\ n + (k - n) = k /\ p + (k - n) = k + d BY <1>3, <1>7, <2>3
    <3> DEFINE j == k - n
    <3> HIDE DEF j
    <3>2. all[n + j] = w[j] /\ LowerASCII[text[p + j]] = Lower[w[j]] BY <1>5, <1>6, <3>1 DEF j
    <3>3. n + j = k /\ p + j = k + d BY <3>1 DEF j
    <3> QED BY <3>2, <3>3
  <2>4. ASSUME NEW k \in x..y, k <= n PROVE LowerASCII[text[k + d]] = Lower[all[k]]
    <3>1. x <= n /\ k \in x..n /\ k \in 1..n BY <1>3, <1>7, <2>4
    <3> QED BY <1>4, <2>2, <3>1
  <2>5. x + d >= 1
    <3>1. CASE x <= n BY <2>2, <3>1
    <3>2. CASE ~(x <= n) BY <1>3, <1>7, <3>2
    <3> QED BY <3>1, <3>2
  <2> HIDE DEF d
  <2>6. Lies(text, all, x, y, d, e) BY <2>1, <2>3, <2>4, <2>5 DEF Lies
  <2> QED BY <2>1, <2>6
<1> QED BY <1>8, <1>9

\* An item without letters ends the runs before it.
LEMMA MuteFollows ==
    ASSUME NEW text \in Seq(Letters), NEW pattern \in Seq(Signs), NEW w \in Seq(Signs),
           w # << >>, \A k \in DOMAIN w : w[k] = Meta,
           NEW p \in 0..Len(text), NEW e \in p..Len(text), Follow(text, pattern, p)
    PROVE  Follow(text, pattern \o w, e)
<1> DEFINE n == Len(pattern)
           all == pattern \o w
<1>1. Len(w) \in Nat \ {0} /\ n \in Nat /\ Len(all) = n + Len(w) BY EmptySeq
<1>2. \A k \in 1..n : all[k] = pattern[k] OBVIOUS
<1>3. \A k \in (n + 1)..(n + Len(w)) : all[k] = Meta
  <2> SUFFICES ASSUME NEW k \in (n + 1)..(n + Len(w)) PROVE all[k] = Meta OBVIOUS
  <2>1. k \in 1..(n + Len(w)) /\ ~(k <= n) /\ k - n \in 1..Len(w) BY <1>1
  <2>2. all[k] = w[k - n] BY <2>1, ConcatProperties
  <2> QED BY <2>1, <2>2
<1> HIDE DEF n, all
<1> SUFFICES ASSUME NEW x \in 1..Len(all), NEW y \in 1..Len(all), RunOf(all, x, y)
             PROVE  \E d \in Int : Lies(text, all, x, y, d, e) /\ (y = Len(all) => d = e - y)
  BY DEF Follow, all
<1>4. x \in Nat /\ y \in Nat /\ x >= 1 /\ x <= y /\ y <= n + Len(w) BY <1>1 DEF RunOf
<1>5. y <= n
  <2> SUFFICES ASSUME ~(y <= n) PROVE FALSE OBVIOUS
  <2>1. y \in x..y /\ y \in (n + 1)..(n + Len(w)) BY <1>1, <1>4
  <2> QED BY <1>3, <2>1 DEF RunOf
<1>6. x \in 1..n /\ y \in 1..n /\ \A k \in x..y : k \in 1..n BY <1>1, <1>4, <1>5
<1>7. RunOf(pattern, x, y) BY <1>2, <1>6 DEF RunOf
<1>8. PICK d \in Int : Lies(text, pattern, x, y, d, p) BY <1>6, <1>7 DEF Follow, n
<1>9. Lies(text, all, x, y, d, e)
  <2>1. y + d <= e BY <1>4, <1>8 DEF Lies
  <2> QED BY <1>2, <1>6, <1>8, <2>1 DEF Lies
<1> QED BY <1>1, <1>5, <1>9

\* Wherever the items of a branch end in a text, it has the letters of the branch.
LEMMA WayIs ==
    ASSUME NEW text \in Seq(Letters), NEW i \in 0..Len(text), NEW branch \in Seq(PatternItem)
    PROVE  WayThrough(<<text, i>>, branch, Ends(text, branch, i))
<1> DEFINE env == <<text, i>>
<1>1. WayThrough(env, << >>, {i}) BY TextOf DEF WayThrough, Follow
<1>2. ASSUME NEW a \in Seq(PatternItem), NEW item \in PatternItem, NEW ends, WayThrough(env, a, ends)
      PROVE  WayThrough(env, Append(a, item), GoesThrough(env, ends, item))
  <2> SUFFICES ASSUME \A j \in DOMAIN Append(a, item) : Lettered(Append(a, item)[j]) \/ Mute(Append(a, item)[j]),
                      NEW e \in GoesThrough(env, ends, item)
               PROVE  e \in 0..Len(text) /\ Follow(text, Text(Append(a, item)), e)
    BY DEF WayThrough
  <2>1. (Lettered(item) \/ Mute(item)) /\ \A j \in DOMAIN a : Lettered(a[j]) \/ Mute(a[j])
    <3>1. Len(a) \in Nat /\ Len(a) + 1 \in DOMAIN Append(a, item) /\ Append(a, item)[Len(a) + 1] = item
          /\ \A j \in DOMAIN a : j \in DOMAIN Append(a, item) /\ Append(a, item)[j] = a[j]
      OBVIOUS
    <3> QED BY <3>1
  <2>2. PICK p \in ends : e \in After(text, p, item) BY DEF GoesThrough
  <2>3. p \in 0..Len(text) /\ Follow(text, Text(a), p) BY <1>2, <2>1, <2>2 DEF WayThrough
  <2>4. e \in p..Len(text) /\ SubSeq(text, p + 1, e) \in item.means BY <2>2 DEF After
  <2>5. e \in 0..Len(text) BY <2>3, <2>4
  <2>6. Text(a) \in Seq(Signs) /\ item.written \in Seq(Signs) /\ item.means \in SUBSET Seq(Letters)
    BY TextType DEF PatternItem
  <2>7. Text(Append(a, item)) = Text(a) \o item.written BY TextOf
  <2>8. CASE Lettered(item)
    <3>1. item.written \in Seq(Letters) /\ ToLowerBytes(SubSeq(text, p + 1, e)) = ToLower(item.written)
      BY <2>4, <2>8 DEF Lettered
    <3>2. SubSeq(text, p + 1, e) \in Seq(Letters) BY <2>4, <2>6
    <3>3. Follow(text, Text(a) \o item.written, e) BY <2>3, <2>4, <2>6, <3>1, <3>2, KeptFollows
    <3> QED BY <2>5, <2>7, <3>3
  <2>9. CASE Mute(item)
    <3>1. Follow(text, Text(a) \o item.written, e) BY <2>3, <2>4, <2>6, <2>9, MuteFollows DEF Mute
    <3> QED BY <2>5, <2>7, <3>1
  <2> QED BY <2>1, <2>8, <2>9
<1> HIDE DEF env
<1>4. WayThrough(env, branch, Ways!Fold(env, {i}, branch)) BY <1>1, <1>2, Ways!FoldKeeps
<1> QED BY <1>4, EndsIsFold DEF env

LEMMA PartIs ==
    ASSUME NEW S, NEW t \in Seq(S), NEW i \in Nat, NEW n \in Nat, i + n <= Len(t)
    PROVE  /\ SubSeq(t, i + 1, i + n) \in Seq(S) /\ Len(SubSeq(t, i + 1, i + n)) = n
           /\ \A k \in 1..n : SubSeq(t, i + 1, i + n)[k] = t[i + k]
OBVIOUS

\* Letters of a pattern that lie in a line are a word of the folded line.
LEMMA LiesIn ==
    ASSUME NEW text \in Seq(Letters), NEW pattern \in Seq(Signs), NEW x \in 1..Len(pattern), NEW y \in 1..Len(pattern),
           RunOf(pattern, x, y), NEW d \in Int, NEW e \in 0..Len(text), Lies(text, pattern, x, y, d, e)
    PROVE  IsIn(ToLowerBytes(text), ToLower(SubSeq(pattern, x, y)))
<1> DEFINE w == SubSeq(pattern, x, y)
           t == ToLowerBytes(text)
           i == x + d - 1
<1>1. /\ x <= y /\ Len(w) = y - x + 1 /\ \A k \in 1..Len(w) : w[k] = pattern[x - 1 + k] /\ x - 1 + k \in x..y
  <2>1. x \in Nat /\ y \in Nat /\ x <= y BY DEF RunOf
  <2>2. Len(w) = y - x + 1 BY <2>1
  <2>3. ASSUME NEW k \in 1..(y - x + 1) PROVE w[k] = pattern[x - 1 + k] /\ x - 1 + k \in x..y
    <3>1. w[k] = pattern[x + k - 1] BY ONLY <2>1, x \in 1..Len(pattern), y \in 1..Len(pattern), k \in 1..(y - x + 1), pattern \in Seq(Signs)
    <3>2. x + k - 1 = x - 1 + k /\ x - 1 + k \in x..y BY <2>1
    <3> QED BY <3>1, <3>2
  <2> HIDE DEF w
  <2> QED BY <2>1, <2>2, <2>3
<1>2. w \in Seq(Letters)
  <2>1. \A k \in x..y : pattern[k] \in Letters
    <3>1. \A k \in x..y : k \in 1..Len(pattern) /\ pattern[k] # Meta BY DEF RunOf
    <3> QED BY <3>1 DEF Signs
  <2>2. x \in Int /\ y \in Int OBVIOUS
  <2> QED BY <2>1, <2>2, SubSeqProperties
<1> HIDE DEF w
<1> DEFINE u == ToLower(w)
<1>3. u \in Seq(Letters) /\ Len(u) = y - x + 1 /\ \A k \in 1..(y - x + 1) : u[k] = Lower[pattern[x - 1 + k]]
  <2>1. u \in Seq(Letters) /\ Len(u) = Len(w) /\ \A k \in 1..Len(w) : u[k] = Lower[w[k]]
    BY <1>2, LowerType, Zenon
  <2> HIDE DEF u
  <2>2. \A k \in 1..Len(w) : w[k] = pattern[x - 1 + k] BY <1>1
  <2>3. \A k \in 1..Len(w) : u[k] = Lower[pattern[x - 1 + k]] BY <2>1, <2>2, Zenon
  <2> QED BY <1>1, <2>1, <2>3, Zenon
<1>4. t \in Seq(Letters) /\ Len(t) = Len(text) /\ \A k \in 1..Len(text) : t[k] = LowerASCII[text[k]] BY LowerType
<1> HIDE DEF u, t
<1>5. i \in 0..(Len(t) - Len(u)) /\ i + Len(u) <= Len(text) /\ i \in Nat /\ i + Len(u) = y + d
  BY <1>1, <1>3, <1>4 DEF Lies
<1>6. ASSUME NEW k \in 1..(y - x + 1) PROVE t[i + k] = u[k]
  <2>1. x - 1 + k \in x..y /\ (x - 1 + k) + d = i + k /\ i + k \in 1..Len(text) BY <1>1, <1>3, <1>5
  <2>2. LowerASCII[text[(x - 1 + k) + d]] = Lower[pattern[x - 1 + k]] BY <2>1 DEF Lies
  <2> QED BY <1>3, <1>4, <2>1, <2>2
<1> HIDE DEF i
<1>7. /\ SubSeq(t, i + 1, i + Len(u)) \in Seq(Letters) /\ Len(SubSeq(t, i + 1, i + Len(u))) = Len(u)
      /\ \A k \in 1..Len(u) : SubSeq(t, i + 1, i + Len(u))[k] = t[i + k]
  <2>1. i \in Nat /\ Len(u) \in Nat /\ i + Len(u) <= Len(t) BY <1>3, <1>4, <1>5
  <2>2. t \in Seq(Letters) BY <1>4
  <2> QED BY <2>1, <2>2, PartIs
<1>8. SubSeq(t, i + 1, i + Len(u)) = u BY <1>3, <1>6, <1>7, SeqEqual
<1>9. IsIn(t, u) BY <1>5, <1>8 DEF IsIn
<1> QED BY <1>9 DEF t, u, w

\* A solid rule without a word in a line does not match it.
LEMMA ShortcutIsSound == RulesInv => ShortcutKeepsMatches
<1> SUFFICES ASSUME RulesInv, ~reading, NEW r \in rules, Solid(r), FullMatch(r)
             PROVE  r \in Diagnosed
  BY DEF ShortcutKeepsMatches, Diagnosed
<1>1. r \in RulePool /\ trimmed \in Seq(Letters) /\ line = ToLowerBytes(trimmed)
  BY DEF RulesInv, Trees, Folds
<1>2. CASE Keywords(r) = {} BY <1>2 DEF Diagnosed
<1>3. CASE ~r.regex
  <2>1. \E w \in Keywords(r) : IsIn(line, w) BY <1>3 DEF FullMatch, Keywords
  <2> QED BY <2>1, ExactAutomaton DEF AutomatonIsExact, Diagnosed
<1>4. CASE r.regex /\ Keywords(r) # {}
  <2>1. PICK k \in DOMAIN r.branches, i \in 0..Len(trimmed) : Ends(trimmed, r.branches[k], i) # {}
    BY <1>4 DEF FullMatch
  <2> DEFINE b == r.branches[k]
             w == LongestLiteral(Text(b))
  <2>2. b \in Seq(PatternItem) BY <1>1, BranchType
  <2>3. \A j \in DOMAIN b : Lettered(b[j]) \/ Mute(b[j]) BY <1>4 DEF Solid
  <2>4. ToLower(w) \in Keywords(r) /\ ~(Len(ToLower(w)) < 2) BY <1>4 DEF Keywords
  <2>5. PICK e \in Ends(trimmed, b, i) : TRUE BY <2>1
  <2> HIDE DEF b
  <2>6. Text(b) \in Seq(Signs) BY <2>2, TextType
  <2>7. WayThrough(<<trimmed, i>>, b, Ends(trimmed, b, i)) BY <1>1, <2>2, WayIs
  <2>8. e \in 0..Len(trimmed) /\ Follow(trimmed, Text(b), e) BY <2>3, <2>5, <2>7 DEF WayThrough
  <2>9. Runs(Text(b)) # {}
    <3> SUFFICES ASSUME Runs(Text(b)) = {} PROVE FALSE OBVIOUS
    <3>1. w = << >> BY <2>6, LongestIs
    <3>2. << >> \in Seq(Letters) /\ Len(<< >>) = 0 /\ 0 < 2 OBVIOUS
    <3>3. Len(ToLower(<< >>)) = Len(<< >>) BY <3>2, LowerType, Zenon
    <3>4. ~(Len(ToLower(<< >>)) < 2) BY <2>4, <3>1, Zenon
    <3> QED BY ONLY <3>2, <3>3, <3>4
  <2>10. PICK p \in Runs(Text(b)) : w = SubSeq(Text(b), p[1], p[2]) BY <2>6, <2>9, LongestIs
  <2>11. p[1] \in 1..Len(Text(b)) /\ p[2] \in 1..Len(Text(b)) /\ RunOf(Text(b), p[1], p[2])
    BY <2>6 DEF Runs, RunOf
  <2>12. PICK d \in Int : Lies(trimmed, Text(b), p[1], p[2], d, e) BY <2>8, <2>11 DEF Follow
  <2>13. IsIn(line, ToLower(w)) BY <1>1, <2>6, <2>8, <2>10, <2>11, <2>12, LiesIn
  <2>14. r \in matched BY <2>4, <2>13, ExactAutomaton DEF AutomatonIsExact
  <2> QED BY <2>14 DEF Diagnosed
<1> QED BY <1>1, <1>2, <1>3, <1>4, RulesAssumption

\* Whatever the rules, their words and the line, the automaton puts out exactly
\* the rules one of whose words is in what it has read: words inside one another,
\* words that overlap and the links from one to the next included.
THEOREM AutomatonExact == RuleSpec => []AutomatonIsExact
<1>1. RuleInit => RulesInv BY InitRules
<1>2. RulesInv /\ [RuleNext]_ruleVars => RulesInv' BY NextRules
<1>3. RulesInv => AutomatonIsExact BY ExactAutomaton
<1> QED BY <1>1, <1>2, <1>3, PTL DEF RuleSpec

\* A rule whose items keep their letters, between special characters, is reported
\* of every line that it matches in full, whatever rules there are beside it.
\* The items that keep them are those without a choice, an optional part, an
\* escape with a letter, or a letter that has a form beyond ASCII.
THEOREM ShortcutLosesNothing == RuleSpec => []ShortcutKeepsMatches
<1>1. RuleInit => RulesInv BY InitRules
<1>2. RulesInv /\ [RuleNext]_ruleVars => RulesInv' BY NextRules
<1>3. RulesInv => ShortcutKeepsMatches BY ShortcutIsSound
<1> QED BY <1>1, <1>2, <1>3, PTL DEF RuleSpec

-----------------------------------------------------------------------------
(* The parts of the worker together *)

\* The invariant of the part at work.
UnitsInv ==
    /\ unit = "index" => CacheInv
    /\ unit = "rules" => RulesInv
    /\ unit = "diagnosis" => ReportInv /\ ScoreInv
    /\ unit = "miner" => MinerInv

LEMMA InitUnits == UnitInit => UnitsInv
BY InitIndex, InitRules, InitReport, InitScore, InitMined DEF UnitInit, UnitsInv

LEMMA NextUnits == UnitsInv /\ [UnitNext]_unitVars => UnitsInv'
<1> SUFFICES ASSUME UnitsInv, [UnitNext]_unitVars PROVE UnitsInv' OBVIOUS
<1>1. unit' = unit BY DEF UnitNext, IndexNext, RulesNext, DiagnosisNext, TemplatesNext, unitVars
<1>2. CASE unit = "index"
  <2>1. Indexes!Next \/ UNCHANGED Indexes!vars
    BY <1>2 DEF UnitNext, IndexNext, RulesNext, DiagnosisNext, TemplatesNext, unitVars, indexVars, Indexes!vars
  <2> QED BY <1>1, <1>2, <2>1, NextIndex DEF UnitsInv
<1>3. CASE unit = "rules"
  <2>1. [RuleNext]_ruleVars
    BY <1>3 DEF UnitNext, IndexNext, RulesNext, DiagnosisNext, TemplatesNext, unitVars
  <2> QED BY <1>1, <1>3, <2>1, NextRules DEF UnitsInv
<1>4. CASE unit = "diagnosis"
  <2>1. Diagnoses!Next \/ UNCHANGED Diagnoses!vars
    BY <1>4 DEF UnitNext, IndexNext, RulesNext, DiagnosisNext, TemplatesNext, unitVars, diagnosisVars, Diagnoses!vars
  <2> QED BY <1>1, <1>4, <2>1, NextReport, NextScore DEF UnitsInv
<1>5. CASE unit = "miner"
  <2>1. [MinerNext]_minerVars
    BY <1>5 DEF UnitNext, IndexNext, RulesNext, DiagnosisNext, TemplatesNext, unitVars
  <2> QED BY <1>1, <1>5, <2>1, NextMined DEF UnitsInv
<1>6. CASE unit \notin {"index", "rules", "diagnosis", "miner"} BY <1>1, <1>6 DEF UnitsInv
<1> QED BY <1>2, <1>3, <1>4, <1>5, <1>6

LEMMA UnitsAlways == UnitSpec => []UnitsInv
BY InitUnits, NextUnits, PTL DEF UnitSpec

\* The index a reader is served is whole and of the version it saw, and is built
\* once for it, in every behaviour of the worker.
THEOREM IndexServed == UnitSpec => []IndexIsServed
<1>1. UnitsInv => IndexIsServed
  BY IndexOfInv DEF UnitsInv, IndexIsServed
<1> QED BY <1>1, UnitsAlways, PTL

\* The rules found on a line are the ones whose words are in it, no match of a
\* solid rule is lost, and the report of a package is full or whole.
THEOREM DiagnosisExact == UnitSpec => []DiagnosisIsExact
<1>1. UnitsInv => DiagnosisIsExact
  BY ExactAutomaton, ShortcutIsSound, ReportOfInv DEF UnitsInv, DiagnosisIsExact
<1> QED BY <1>1, UnitsAlways, PTL

\* A template stands for its lines, stays as specific as the threshold asks for
\* and shares its ID only by a collision of digests, in every behaviour of the worker.
THEOREM TemplatesSound == UnitSpec => []TemplatesAreSound
<1>1. UnitsInv => TemplatesAreSound
  BY NamesOfInv, CoversOfInv, SpecificOfInv DEF UnitsInv, TemplatesAreSound
<1> QED BY <1>1, UnitsAlways, PTL
=================================================================================
