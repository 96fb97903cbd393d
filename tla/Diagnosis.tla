------------------------------- MODULE Diagnosis -------------------------------
(***************************************************************************)
(* The diagnosis of an extracted package (Engine.DiagnoseDirectory): a pool *)
(* of goroutines takes its files, finds their events and adds them to one   *)
(* report of limited size.  What is an event of a line is module            *)
(* RuleMatching; here a file is a sequence of events of three severities.   *)
(***************************************************************************)
EXTENDS Integers, Sequences, FiniteSets, SequencesExt

CONSTANTS Goroutines,
          Tasks,      \* the log files of the package, in order
          Packages,   \* [count: [files -> events in it], broken: files whose scan ends in an error]
          Severity,   \* [files -> severity of their events]
          MaxEvents   \* size of a report (500)

VARIABLES pkg,     \* the package
          left,    \* files still in the channel
          work,    \* [Goroutines -> ["none", file and limit, or "ended"]]
          events,  \* allEvents
          total,   \* totalEvents, read without the lock
          report   \* Running or the health score of the finished report

vars == <<pkg, left, work, events, total, report>>

Running == -1
Files == ToSet(Tasks)
Free == [file |-> "none", limit |-> 0]
Ended == [file |-> "ended", limit |-> 0]

Init ==
  /\ pkg \in Packages
  /\ left = Tasks
  /\ work = [g \in Goroutines |-> Free]
  /\ events = <<>>
  /\ total = 0
  /\ report = Running

(* The number of events so far, read without the lock, is how much of its   *)
(* file a goroutine will look for; a full report ends it.                   *)
Takes(g) ==
  /\ work[g] = Free /\ left # <<>>
  /\ left' = Tail(left)
  /\ work' = [work EXCEPT ![g] = IF total >= MaxEvents THEN Ended
                                 ELSE [file |-> Head(left), limit |-> MaxEvents - total]]
  /\ UNCHANGED <<pkg, events, total, report>>

(* A goroutine that finds the channel closed and empty ends.                *)
Leaves(g) ==
  /\ work[g] = Free /\ left = <<>>
  /\ work' = [work EXCEPT ![g] = Ended]
  /\ UNCHANGED <<pkg, left, events, total, report>>

(* DiagnoseFile: the first events up to the limit; a file that cannot be    *)
(* read to its end has none unless the limit came first.                    *)
Found(f, limit) ==
  IF pkg.count[f] >= limit THEN limit ELSE IF f \in pkg.broken THEN 0 ELSE pkg.count[f]

(* Mutant: what is available is what was before the scan.                   *)
AvailableBefore(limit) == limit

(* What the report has room for when the events are added.                  *)
Available(limit) == MaxEvents - Len(events)

(* Added under the lock, cut to the room there is.                          *)
Adds(g) ==
  /\ work[g] # Free /\ work[g] # Ended
  /\ LET found == Found(work[g].file, work[g].limit)
         room == Available(work[g].limit)
     IN  IF found > 0 /\ Len(events) < MaxEvents
         THEN /\ events' = events \o [i \in 1..(IF found > room THEN room ELSE found) |-> <<work[g].file, i>>]
              /\ total' = Len(events')
         ELSE UNCHANGED <<pkg, events, total>>
  /\ work' = [work EXCEPT ![g] = Free]
  /\ UNCHANGED <<pkg, left, report>>

(* Points are taken off for every event by its severity.                    *)
OfSeverity(evs, sev) == Cardinality({i \in DOMAIN evs : Severity[evs[i][1]] = sev})
HealthScore(evs) ==
  LET score == 100 - 25 * OfSeverity(evs, "FATAL") - 10 * OfSeverity(evs, "CRITICAL") - 3 * OfSeverity(evs, "WARNING")
  IN  IF score < 0 THEN 0 ELSE score

(* All goroutines are waited for.                                           *)
Completes ==
  /\ report = Running /\ \A g \in Goroutines : work[g] = Ended
  /\ report' = HealthScore(events)
  /\ UNCHANGED <<pkg, left, work, events, total>>

Step(g) == Takes(g) \/ Leaves(g) \/ Adds(g)
Next == Completes \/ \E g \in Goroutines : Step(g)

Spec == Init /\ [][Next]_vars

--------------------------------------------------------------------------------

TypeOK ==
  /\ pkg \in Packages /\ IsSuffix(left, Tasks) /\ total = Len(events)
  /\ \A g \in Goroutines : work[g] \in {Free, Ended} \cup [file : Files, limit : 1..MaxEvents]
  /\ report \in Running..100

(* However the goroutines race on the number of events, the report never    *)
(* exceeds its size and has no event twice.  A finished report is full, or  *)
(* it has every event of the files that can be read and none of the others. *)
ReportIsFullOrWhole ==
  /\ Len(events) <= MaxEvents /\ IsInjective(events)
  /\ (report # Running /\ Len(events) < MaxEvents) =>
       ToSet(events) = {e \in Files \X (1..MaxEvents) : e[1] \notin pkg.broken /\ e[2] <= pkg.count[e[1]]}

================================================================================
