-------------------------------- MODULE Searcher --------------------------------
(***************************************************************************)
(* Searches of extracted packages on one worker (SearchLogsContext): the    *)
(* pool that scans files for one search, the cap on its hits, cancellation  *)
(* when the client goes, the cache of results and the pages cut from them.  *)
(* Files are scanned as module FileSearch says; here a file is a number of  *)
(* matching lines, and a hit is a file and a number.                        *)
(***************************************************************************)
EXTENDS Naturals, Sequences, FiniteSets, SequencesExt, FiniteSetsExt

CONSTANTS Searches,     \* requests that may be in work at a time
          Workers,      \* goroutines of one search
          Keys,         \* archive, path, keyword, options: what the cache knows a search by
          TasksOf,      \* [Keys -> Seq(files)]: the files of the path filter, in order
          Hits,         \* [files -> matching lines]
          Cap,          \* maxCollectedHits (5000)
          PerFile,      \* maxPerFileHits (1000)
          Context,      \* hits beyond the limit that were pending when a scan stopped
          PageSize,
          CacheCap,     \* items above which the cache evicts (50)
          MaxSearches,  \* bound: searches computed
          MaxAnswers,   \* bound: pages answered
          None

VARIABLES req,    \* [Searches -> request in work or None]
          work,   \* [Searches -> [Workers -> [file, own]]]: file in hand, length after its own last append
          cache,  \* queryCache: [Keys -> item or None]
          run,    \* searches computed so far
          got     \* pages answered, with the search that computed them

vars == <<req, work, cache, run, got>>

Files == DOMAIN Hits

ASSUME LimitsAssumption == /\ {Cap, Context, CacheCap, MaxSearches} \subseteq Nat
                           /\ {PerFile, PageSize} \subseteq Nat \ {0}
ASSUME WorkersAssumption == IsFiniteSet(Workers) /\ Workers # {}
ASSUME TasksAssumption == /\ Hits \in [Files -> Nat] /\ "none" \notin Files
                          /\ TasksOf \in [Keys -> Seq(Files)] /\ \A k \in Keys : IsInjective(TasksOf[k])

Idle == [w \in Workers |-> [file |-> "none", own |-> 0]]

Init ==
  /\ req = [s \in Searches |-> None]
  /\ work = [s \in Searches |-> Idle]
  /\ cache = [k \in Keys |-> None]
  /\ run = 0
  /\ got = {}

--------------------------------------------------------------------------------

(* Mutant: the offset is one too far back from the second page on.          *)
PageOverlaps(hits, page) ==
  LET offset == (page - 1) * PageSize
      end == IF offset + PageSize > Len(hits) THEN Len(hits) ELSE offset + PageSize
  IN  SubSeq(hits, IF page > 1 THEN offset ELSE 1, end)

(* The page of a result: what lies from its offset on, at most PageSize.    *)
PageOf(hits, page) ==
  LET offset == (page - 1) * PageSize
      end == IF offset + PageSize > Len(hits) THEN Len(hits) ELSE offset + PageSize
  IN  SubSeq(hits, offset + 1, end)

Answer(item, page) == got' = got \cup {[run |-> item.run, page |-> page, total |-> Len(item.hits), hits |-> PageOf(item.hits, page)]}

(* A live item of the cache answers at once; otherwise the files are        *)
(* collected and the pool starts.  A search without files ends here.        *)
AnswerFromCache(k, page) ==
  /\ Cardinality(got) < MaxAnswers
  /\ cache[k] # None /\ cache[k].live
  /\ Answer(cache[k], page)
  /\ UNCHANGED <<req, work, cache, run>>

Begin(s, k, page) ==
  /\ req[s] = None /\ run < MaxSearches
  /\ cache[k] # None => ~cache[k].live
  /\ TasksOf[k] # <<>>
  /\ run' = run + 1
  /\ req' = [req EXCEPT ![s] = [key |-> k, page |-> page, tasks |-> TasksOf[k], hits |-> <<>>,
               sums |-> [f \in Files |-> 0], lens |-> {0}, read |-> 0, cancelled |-> FALSE,
               pool |-> IF Len(TasksOf[k]) = 1 THEN {} ELSE Workers, run |-> run + 1]]
  /\ work' = [work EXCEPT ![s] = Idle]
  /\ UNCHANGED <<cache, got>>

(* The client goes away: its context is cancelled.                          *)
Cancel(s) ==
  /\ req[s] # None /\ ~req[s].cancelled
  /\ req' = [req EXCEPT ![s].cancelled = TRUE]
  /\ UNCHANGED <<work, cache, run, got>>

(* What a scan of a file brings: its hits up to the limit and those that    *)
(* were still pending; a cancelled one stops anywhere.                      *)
Found(f, limit, cancelled) ==
  {n \in 0..Hits[f] : /\ n <= limit + Context
                      /\ cancelled \/ n >= limit \/ n = Hits[f]}

HitsOf(f, n) == [i \in 1..n |-> <<f, i>>]

(* The only file is scanned by the request itself, up to the overall cap.   *)
ScanOnlyFile(s) ==
  /\ req[s] # None /\ Len(TasksOf[req[s].key]) = 1 /\ req[s].tasks # <<>>
  /\ LET f == Head(req[s].tasks) IN
     \E n \in Found(f, Cap, req[s].cancelled) :
       req' = [req EXCEPT ![s].tasks = <<>>, ![s].hits = HitsOf(f, n), ![s].sums[f] = n]
  /\ UNCHANGED <<work, cache, run, got>>

(* A goroutine that finds the channel drained ends.                         *)
Leaves(s, w) ==
  /\ req[s] # None /\ w \in req[s].pool /\ work[s][w].file = "none" /\ req[s].tasks = <<>>
  /\ req' = [req EXCEPT ![s].pool = @ \ {w}]
  /\ UNCHANGED <<work, cache, run, got>>

(* The number of hits is read under one mutex and appended to under         *)
(* another: the read may see any length of the list but those its own last  *)
(* append or an earlier read has put behind it.                             *)
Counts(r, own) == {n \in r.lens : n >= own /\ n >= r.read}

Enough(n) == n >= Cap

(* It takes the next file; cancelled or with hits enough it ends and the    *)
(* file is not scanned.                                                     *)
TakesFile(s, w) ==
  /\ req[s] # None /\ w \in req[s].pool /\ work[s][w].file = "none" /\ req[s].tasks # <<>>
  /\ LET r == req[s] t == [r EXCEPT !.tasks = Tail(@)] IN
     \/ /\ r.cancelled
        /\ req' = [req EXCEPT ![s] = [t EXCEPT !.pool = @ \ {w}]]
        /\ UNCHANGED work
     \/ /\ ~r.cancelled
        /\ \E n \in Counts(r, work[s][w].own) :
             IF Enough(n)
             THEN /\ req' = [req EXCEPT ![s] = [t EXCEPT !.pool = @ \ {w}, !.read = n, !.lens = {m \in @ : m >= n}]]
                  /\ UNCHANGED work
             ELSE /\ req' = [req EXCEPT ![s] = [t EXCEPT !.read = n, !.lens = {m \in @ : m >= n}]]
                  /\ work' = [work EXCEPT ![s][w].file = Head(r.tasks)]
  /\ UNCHANGED <<cache, run, got>>

(* The hits of a file are appended and its summary set in one critical      *)
(* section.                                                                 *)
Collected(r, f, n) ==
  IF n = 0 THEN r
  ELSE [r EXCEPT !.hits = @ \o HitsOf(f, n), !.sums[f] = n, !.lens = @ \cup {Len(r.hits) + n}]

ScansFile(s, w) ==
  /\ req[s] # None /\ work[s][w].file # "none"
  /\ LET f == work[s][w].file IN
     \E n \in Found(f, PerFile, req[s].cancelled) :
       LET r == Collected(req[s], f, n) IN
       /\ req' = [req EXCEPT ![s] = r]
       /\ work' = [work EXCEPT ![s][w] = [file |-> "none", own |-> IF n = 0 THEN @.own ELSE Len(r.hits)]]
  /\ UNCHANGED <<cache, run, got>>

(* setCachedHits: above its limit the cache drops what has expired and, if  *)
(* that is not enough, one item more, whichever comes first.                *)
Entries(c) == {k \in Keys : c[k] # None}
Without(c, gone) == [k \in Keys |-> IF k \in gone THEN None ELSE c[k]]

Evictions(c) ==
  LET fresh == Without(c, {k \in Entries(c) : ~c[k].live}) IN
  IF Cardinality(Entries(c)) <= CacheCap THEN {c}
  ELSE IF Cardinality(Entries(fresh)) <= CacheCap THEN {fresh}
  ELSE {Without(fresh, {k}) : k \in Entries(fresh)}

(* Mutant: a search that was cancelled is stored and answered all the same. *)
MayAnswerAnyway(r) == TRUE

MayAnswer(r) == ~r.cancelled

(* The request waits for all goroutines, and has scanned its only file.     *)
Waited(r) == r.pool = {} /\ (Len(TasksOf[r.key]) = 1 => r.tasks = <<>>)

(* All goroutines have ended: a cancelled search fails, any other stores    *)
(* its result and answers a page of it.                                     *)
Finish(s) ==
  /\ req[s] # None /\ Waited(req[s])
  /\ IF MayAnswer(req[s])
     THEN LET r == req[s]
              item == [hits |-> r.hits, sums |-> r.sums, run |-> r.run, live |-> TRUE] IN
          /\ Answer(item, r.page)
          /\ \E c \in Evictions(cache) : cache' = [c EXCEPT ![r.key] = item]
     ELSE UNCHANGED <<cache, got>>
  /\ req' = [req EXCEPT ![s] = None]
  /\ work' = [work EXCEPT ![s] = Idle]
  /\ UNCHANGED run

(* Sixty seconds pass.                                                      *)
Expire(k) ==
  /\ cache[k] # None /\ cache[k].live
  /\ cache' = [cache EXCEPT ![k].live = FALSE]
  /\ UNCHANGED <<req, work, run, got>>

Pages == 1..2

WorkerStep(s) == ScanOnlyFile(s) \/ Finish(s) \/ \E w \in Workers : Leaves(s, w) \/ TakesFile(s, w) \/ ScansFile(s, w)

Next ==
  \/ \E s \in Searches : WorkerStep(s) \/ Cancel(s) \/ \E k \in Keys, page \in Pages : Begin(s, k, page)
  \/ \E k \in Keys : Expire(k) \/ \E page \in Pages : AnswerFromCache(k, page)

Spec == Init /\ [][Next]_vars

--------------------------------------------------------------------------------

Request ==
  [key : Keys, page : Pages, tasks : Seq(Files), hits : Seq(Files \X Nat), sums : [Files -> Nat],
   lens : SUBSET Nat, read : Nat, cancelled : BOOLEAN, pool : SUBSET Workers, run : Nat]
Item == [hits : Seq(Files \X Nat), sums : [Files -> Nat], run : Nat, live : BOOLEAN]

ASSUME NoRecordAssumption == None \notin Request \cup Item

TypeOK ==
  /\ \A k \in Keys : cache[k] # None => cache[k].live \in BOOLEAN /\ cache[k].run \in 1..run
  /\ \A s \in Searches : req[s] # None =>
       /\ req[s].key \in Keys /\ req[s].pool \subseteq Workers
       /\ Len(TasksOf[req[s].key]) > 1 => Len(req[s].hits) = Max(req[s].lens)
  /\ \A s \in Searches, w \in Workers : work[s][w].file # "none" => req[s] # None /\ w \in req[s].pool
  /\ run \in 0..MaxSearches

Results == {cache[k] : k \in Entries(cache)}

(* A result that is kept is full or complete: fewer hits than the cap means *)
(* that every file was scanned to its own limit or its end.  No search that *)
(* was cut short by its client, or by another's hits, is served later.      *)
KeptResultIsWhole ==
  \A k \in Keys : cache[k] # None =>
    LET i == cache[k] IN
    Len(i.hits) >= Cap \/ \A f \in ToSet(TasksOf[k]) : i.sums[f] = Hits[f] \/ i.sums[f] >= PerFile

(* However the goroutines race on the count, a search ends with less than   *)
(* one more file each above the cap.                                        *)
OvershootIsBounded ==
  \A i \in Results : Len(i.hits) < Cap + Cardinality(Workers) * (PerFile + Context)

(* The summaries of a result add up to its hits, each of which it has once. *)
SummariesAddUp ==
  \A i \in Results :
    /\ \A f \in Files : i.sums[f] = Cardinality({j \in DOMAIN i.hits : i.hits[j][1] = f})
    /\ IsInjective(i.hits)

(* The pages that are cut from one computed result, at once or later from   *)
(* the cache, do not overlap, and together they are all of it.              *)
PagesPartition ==
  \A n \in {g.run : g \in got} :
    LET mine == {g \in got : g.run = n}
        Of(g) == ToSet(g.hits)
    IN  /\ \A g, h \in mine : g.page # h.page => Of(g) \cap Of(h) = {}
        /\ \A g \in mine :
             (\A p \in 1..g.total : (p - 1) * PageSize < g.total => \E h \in mine : h.page = p) =>
                Cardinality(UNION {Of(h) : h \in mine}) = g.total

(* The cache holds one item above its limit at most.                        *)
CacheIsBounded == Cardinality(Entries(cache)) <= CacheCap + 1

(* What the searches hold and what is kept of them: whole or full, little   *)
(* above the cap, with summaries that add up, in a cache that is bounded.   *)
ResultsAreSound ==
  TypeOK /\ KeptResultIsWhole /\ OvershootIsBounded /\ SummariesAddUp /\ CacheIsBounded

================================================================================
