------------------------------- MODULE NodeProofs -------------------------------
(* Proofs about the nodes of a manager: the registry of them (NodeRegistry) and *)
(* what their disks and the records of archives have to do with each other      *)
(* (Placement).                                                                 *)
EXTENDS NodeRegistry, Placement, Sums, FiniteSetTheorems, WellFoundedInduction, TLAPS

LEMMA RecordIsSomething == NoNode \notin NodeRecord
BY DEF NoNode, NodeRecord

LEMMA FoundType ==
    ASSUME NEW w \in Worker
    PROVE  Found(w) \subseteq ID \cup {NoID}
BY DEF Found, RecordedIDs

-----------------------------------------------------------------------------
(* The registry: type correctness, handler by handler *)

LEMMA HeartbeatType ==
    ASSUME RegistryTypeOK, NEW w \in Worker, Heartbeat(w)
    PROVE  RegistryTypeOK'
<1> USE DEF RegistryTypeOK, clientVars
<1>0. <<w, "agent">> \in Slot /\ \A i \in ID : <<w, i>> \in Slot BY DEF Slot, ID
<1>1. CASE BeatLooks(w)
  <2>1. PICK i \in Found(w) :
           beat' = [beat EXCEPT ![w] = [at |-> "looked", id |-> i,
                                        keep |-> i # NoID /\ nodes[w, i].status = "maintenance"]]
    BY ONLY <1>1, Zenon DEF BeatLooks
  <2>2. i \in ID \cup {NoID} BY FoundType
  <2>3. (i # NoID /\ nodes[w, i].status = "maintenance") \in BOOLEAN OBVIOUS
  <2>4. beat' \in [Worker -> [at : {"idle", "looked", "accepted", "saved"}, id : ID \cup {NoID}, keep : BOOLEAN]]
        /\ \A v \in Worker : beat'[v].at \in {"accepted", "saved"} => beat'[v].id \in ID
    BY <2>1, <2>2, <2>3
  <2> QED BY <1>1, <2>4 DEF BeatLooks
<1>2. CASE BeatRefused(w) BY <1>2 DEF BeatRefused, NoBeat
<1>3. CASE BeatAccepted(w)
  <2>1. BeatID(w) \in ID BY DEF BeatID, ID
  <2> DEFINE b == [beat[w] EXCEPT !.at = "accepted", !.id = BeatID(w)]
  <2>2. b \in [at : {"idle", "looked", "accepted", "saved"}, id : ID \cup {NoID}, keep : BOOLEAN]
        /\ b.id \in ID
    <3>1. beat[w] \in [at : {"idle", "looked", "accepted", "saved"}, id : ID \cup {NoID}, keep : BOOLEAN]
      OBVIOUS
    <3> HIDE DEF RegistryTypeOK
    <3> QED BY <2>1, <3>1
  <2>3. beat' = [beat EXCEPT ![w] = b] BY <1>3 DEF BeatAccepted
  <2> QED BY <1>3, <2>2, <2>3 DEF BeatAccepted
<1>4. CASE BeatSaves(w)
  <2>1. beat[w].id \in ID BY <1>4 DEF BeatSaves
  <2>2. <<w, beat[w].id>> \in Slot /\ [status |-> BeatStatus(w), age |-> 0] \in NodeRecord
    BY <1>0, <2>1 DEF BeatStatus, NodeRecord
  <2> QED BY <1>4, <2>1, <2>2 DEF BeatSaves
<1>5. CASE BeatResolves(w) BY <1>5 DEF BeatResolves, NoBeat
<1> QED BY <1>1, <1>2, <1>3, <1>4, <1>5 DEF Heartbeat

\* An operation is counted, or not.
LEMMA CountType ==
    ASSUME count \in Count, count.op < MaxOps
    PROVE  [count EXCEPT !.op = @ + 1] \in Count
BY BoundsType DEF Count

LEMMA MonitorType ==
    ASSUME RegistryTypeOK, Monitor \/ Sweep
    PROVE  RegistryTypeOK'
<1> USE DEF RegistryTypeOK, clientVars
<1>1. CASE MonitorLists
  <2>1. \A s \in Stale(1) : s \in Slot /\ nodes[s].age \in 1..2
    BY DEF Stale, NoNode, NodeRecord
  <2> QED BY <1>1, <2>1 DEF MonitorLists
<1>2. ASSUME NEW m \in monitor, MonitorMarks(m) PROVE RegistryTypeOK'
  <2>1. m[1] \in Slot /\ [status |-> "offline", age |-> m[2]] \in NodeRecord BY DEF NodeRecord
  <2> QED BY <1>2, <2>1 DEF MonitorMarks, Raised
<1>3. CASE MonitorRaises BY <1>3 DEF MonitorRaises
<1>4. CASE SweepLists
  <2>1. Stale(2) \subseteq Slot BY DEF Stale
  <2>2. count' \in Count 
    <3>1. [count EXCEPT !.op = @ + 1] \in Count BY <1>4, CountType DEF SweepLists
    <3>2. count' = [[count EXCEPT !.op = @ + 1] EXCEPT !.listed = TRUE] BY <1>4 DEF SweepLists
    <3> QED BY <3>1, <3>2 DEF Count
  <2> QED BY <1>4, <2>1, <2>2 DEF SweepLists
<1>5. ASSUME NEW s \in sweep, SweepMarks(s) PROVE RegistryTypeOK'
  <2>1. [status |-> "offline", age |-> 2] \in NodeRecord BY DEF NodeRecord
  <2> QED BY <1>5, <2>1 DEF SweepMarks
<1> QED BY <1>1, <1>2, <1>3, <1>4, <1>5 DEF Monitor, Sweep

LEMMA ClientsType ==
    ASSUME RegistryTypeOK,
           \/ \E s \in Slot : \E to \in {"online", "maintenance"} : DrainReads(s, to)
           \/ DrainSaves
           \/ \E w \in Worker : AddChecks(w) \/ AddClears(w) \/ AddSaves(w)
           \/ \E s \in Slot : RemoveReads(s) \/ Removal(s)
           \/ \E w \in Worker : \/ DeployChecks(w) \/ DeployClears(w) \/ DeploySaves(w)
                                \/ DeployStartsAgent(w) \/ DeploySucceeds(w) \/ DeployFails(w)
    PROVE  RegistryTypeOK'
<1> USE DEF RegistryTypeOK
<1>0. \A w \in Worker : \A i \in {"agent", "addr", "host"} : <<w, i>> \in Slot BY DEF Slot, ID
<1>1. ASSUME NEW s \in Slot, NEW to \in {"online", "maintenance"}, DrainReads(s, to) PROVE RegistryTypeOK'
  <2>1. nodes[s].age \in 0..2 BY <1>1 DEF DrainReads, NodeRecord
  <2>2. drain' \in [at : Slot, age : 0..2, to : {"online", "maintenance"}] BY <1>1, <2>1 DEF DrainReads
  <2> QED BY <1>1, <2>2, CountType DEF DrainReads
<1>2. CASE DrainSaves
  <2>1. drain \in [at : Slot, age : 0..2, to : {"online", "maintenance"}] BY <1>2 DEF DrainSaves
  <2>2. [status |-> drain.to, age |-> drain.age] \in NodeRecord BY <2>1 DEF NodeRecord
  <2> QED BY <1>2, <2>1, <2>2 DEF DrainSaves
<1>3. ASSUME NEW w \in Worker, AddChecks(w) \/ AddClears(w) \/ AddSaves(w) PROVE RegistryTypeOK'
  <2>1. [status |-> "online", age |-> 0] \in NodeRecord BY DEF NodeRecord
  <2>2. CASE AddChecks(w) BY <2>2, CountType DEF AddChecks
  <2>3. CASE AddClears(w) BY <2>3 DEF AddClears
  <2>4. CASE AddSaves(w)
    <3>1. nodes' \in [Slot -> NodeRecord \cup {NoNode}] BY <1>0, <2>1, <2>4 DEF AddSaves
    <3> QED BY <2>4, <3>1 DEF AddSaves
  <2> QED BY <1>3, <2>2, <2>3, <2>4
<1>4. ASSUME NEW s \in Slot, RemoveReads(s) \/ Removal(s) PROVE RegistryTypeOK'
  <2>1. s[1] \in Worker BY DEF Slot
  <2>2. CASE RemoveReads(s) BY <2>2, CountType DEF RemoveReads
  <2>3. CASE RemoveDecommissions(s) BY <2>3 DEF RemoveDecommissions
  <2>4. CASE RemoveResolves(s) BY <2>4 DEF RemoveResolves, NotRemoving
  <2>5. CASE RemoveOrders(s) BY <2>1, <2>5 DEF RemoveOrders, NotRemoving
  <2> QED BY <1>4, <2>2, <2>3, <2>4, <2>5 DEF Removal
<1>5. ASSUME NEW w \in Worker, DeployChecks(w) \/ DeployClears(w) \/ DeploySaves(w) PROVE RegistryTypeOK'
  <2>1. [status |-> "installing", age |-> 0] \in NodeRecord BY DEF NodeRecord
  <2>2. CASE DeployChecks(w) BY <2>2, CountType DEF DeployChecks
  <2>3. CASE DeployClears(w) BY <2>3 DEF DeployClears
  <2>4. CASE DeploySaves(w)
    <3>1. nodes' \in [Slot -> NodeRecord \cup {NoNode}] BY <1>0, <2>1, <2>4 DEF DeploySaves
    <3> QED BY <2>4, <3>1 DEF DeploySaves
  <2> QED BY <1>5, <2>2, <2>3, <2>4
<1>6. ASSUME NEW w \in Worker, DeployStartsAgent(w) \/ DeploySucceeds(w) \/ DeployFails(w) PROVE RegistryTypeOK'
  <2>1. [status |-> "failed", age |-> 2] \in NodeRecord BY DEF NodeRecord
  <2>2. CASE DeployStartsAgent(w) BY <2>2 DEF DeployStartsAgent, clientVars
  <2>3. CASE DeploySucceeds(w) BY <1>0, <2>3 DEF DeploySucceeds
  <2>4. CASE DeployFails(w) BY <1>0, <2>1, <2>4 DEF DeployFails
  <2> QED BY <1>6, <2>2, <2>3, <2>4
<1> QED BY <1>1, <1>2, <1>3, <1>4, <1>5, <1>6

LEMMA EnvironmentType ==
    ASSUME RegistryTypeOK, NEW w \in Worker, Late(w) \/ Fail(w) \/ Recover(w)
    PROVE  RegistryTypeOK'
<1> USE DEF RegistryTypeOK, clientVars
<1>1. CASE Late(w)
  <2>1. \A s \in Slot : nodes[s] # NoNode /\ nodes[s].age < 2 => [nodes[s] EXCEPT !.age = @ + 1] \in NodeRecord
    BY DEF NodeRecord
  <2>2. nodes' \in [Slot -> NodeRecord \cup {NoNode}] BY <1>1, <2>1 DEF Late
  <2> QED BY <1>1, <2>2 DEF Late
<1>2. CASE Fail(w)
  <2>1. count' \in Count BY <1>2, BoundsType DEF Fail, Count
  <2> QED BY <1>2, <2>1 DEF Fail
<1>3. CASE Recover(w) BY <1>3 DEF Recover
<1> QED BY <1>1, <1>2, <1>3

LEMMA InitType == RegistryInit => RegistryTypeOK
<1> SUFFICES ASSUME RegistryInit PROVE RegistryTypeOK OBVIOUS
<1>1. [status |-> "online", age |-> 0] \in NodeRecord BY DEF NodeRecord
<1>2. nodes \in [Slot -> NodeRecord \cup {NoNode}] BY <1>1 DEF RegistryInit
<1> QED BY <1>2, BoundsType DEF RegistryInit, RegistryTypeOK, NoBeat, NotRemoving, Count

LEMMA StepType == RegistryTypeOK /\ [RegistryNext]_registryVars => RegistryTypeOK'
<1> SUFFICES ASSUME RegistryTypeOK, [RegistryNext]_registryVars PROVE RegistryTypeOK' OBVIOUS
<1>1. CASE UNCHANGED registryVars BY <1>1 DEF registryVars, clientVars, RegistryTypeOK
<1>2. CASE RegistryNext BY <1>2, HeartbeatType, MonitorType, ClientsType, EnvironmentType DEF RegistryNext
<1> QED BY <1>1, <1>2

\* Every state of the registry has its type: a heartbeat that was accepted is
\* always saved under one of the three IDs, and the counts stay in their bounds.
THEOREM RegistryTypeCorrect == RegistrySpec => []RegistryTypeOK
BY InitType, StepType, PTL DEF RegistrySpec

-----------------------------------------------------------------------------
(* A removal is final *)

\* A heartbeat of a removed record is refused.
LEMMA HeartbeatStaysOut ==
    ASSUME RegistryTypeOK, NEW w \in Worker, Heartbeat(w), NEW s \in Slot, Out(s)
    PROVE  Out(s)' \/ s \notin gone'
<1> USE DEF RegistryTypeOK, Out, CopyHeld
<1>0. s = <<s[1], s[2]>> /\ s[1] \in Worker /\ s[2] \in ID BY DEF Slot
<1>1. UNCHANGED <<gone, monitor, sweep, drain, adding, deploying>>
  BY DEF Heartbeat, BeatLooks, BeatRefused, BeatAccepted, BeatSaves, BeatResolves, clientVars
<1>2. CASE BeatAccepted(w)
  <2>1. BeatID(w) = s[2] /\ w = s[1] => Refused(w)
    BY <1>0 DEF BeatID, Refused
  <2>2. ~(beat'[s[1]].at = "accepted" /\ beat'[s[1]].id = s[2])
    BY <1>0, <1>2, <2>1 DEF BeatAccepted
  <2> QED BY <1>1, <1>2, <2>2 DEF BeatAccepted
<1>3. CASE BeatSaves(w)
  <2>1. s # <<w, beat[w].id>> BY <1>3 DEF BeatSaves
  <2>2. nodes'[s] = nodes[s] /\ ~(beat'[s[1]].at = "accepted" /\ beat'[s[1]].id = s[2])
    BY <1>0, <1>3, <2>1 DEF BeatSaves
  <2> QED BY <1>1, <2>2
<1>4. CASE BeatLooks(w) \/ BeatRefused(w) \/ BeatResolves(w)
  <2>1. UNCHANGED nodes BY <1>4 DEF BeatLooks, BeatRefused, BeatResolves
  <2>2. ~(beat'[s[1]].at = "accepted" /\ beat'[s[1]].id = s[2])
    <3>1. beat'[w].at \notin {"accepted"}
      <4>1. CASE BeatLooks(w)
        <5>1. PICK i, keep :
                 beat' = [beat EXCEPT ![w] = [at |-> "looked", id |-> i, keep |-> keep]]
          BY <4>1, Zenon DEF BeatLooks
        <5> QED BY <5>1
      <4>2. CASE BeatRefused(w) \/ BeatResolves(w) BY <4>2 DEF BeatRefused, BeatResolves, NoBeat
      <4> QED BY <1>4, <4>1, <4>2
    <3>2. \A v \in Worker \ {w} : beat'[v] = beat[v]
      BY <1>4 DEF BeatLooks, BeatRefused, BeatResolves
    <3> QED BY <1>0, <3>1, <3>2
  <2> QED BY <1>1, <2>1, <2>2
<1> QED BY <1>2, <1>3, <1>4 DEF Heartbeat

\* Whoever lists the nodes finds no removed record, and whoever has not found
\* one saves none.
LEMMA OthersStayOut ==
    ASSUME RegistryTypeOK, RegistryNext, ~\E w \in Worker : Heartbeat(w), NEW s \in Slot, Out(s)
    PROVE  Out(s)' \/ s \notin gone'
<1> USE DEF RegistryTypeOK, Out, CopyHeld
<1>0. s = <<s[1], s[2]>> /\ s[1] \in Worker /\ s[2] \in ID BY DEF Slot
<1>1. CASE MonitorLists
  <2>1. s \notin Stale(1) BY DEF Stale, NoNode
  <2> QED BY <1>1, <2>1 DEF MonitorLists, clientVars
<1>2. ASSUME NEW m \in monitor, MonitorMarks(m) PROVE Out(s)'
  <2>1. m = <<m[1], m[2]>> /\ m[2] \in 1..2 OBVIOUS
  <2>2. ~\E age \in 1..2 : <<s, age>> \in monitor OBVIOUS
  <2>3. <<m[1], m[2]>> \in monitor /\ m[2] \in 1..2 BY <2>1
  <2>4. m[1] # s BY ONLY <2>2, <2>3
  <2> QED BY <1>2, <2>4 DEF MonitorMarks, clientVars
<1>3. CASE MonitorRaises BY <1>3 DEF MonitorRaises, clientVars
<1>4. CASE SweepLists
  <2>1. s \notin Stale(2) BY DEF Stale, NoNode
  <2> QED BY <1>4, <2>1 DEF SweepLists, clientVars
<1>5. ASSUME NEW t \in sweep, SweepMarks(t) PROVE Out(s)'
  BY <1>5 DEF SweepMarks, clientVars
<1>6. ASSUME NEW t \in Slot, NEW to \in {"online", "maintenance"}, DrainReads(t, to) PROVE Out(s)'
  <2>1. t # s /\ drain'.at = t BY <1>6 DEF DrainReads
  <2> QED BY <1>6, <2>1 DEF DrainReads
<1>7. CASE DrainSaves
  <2>1. drain.at # s BY <1>7 DEF DrainSaves
  <2> QED BY <1>7, <2>1 DEF DrainSaves
<1>8. ASSUME NEW w \in Worker, AddChecks(w) \/ AddClears(w) \/ AddSaves(w) PROVE Out(s)' \/ s \notin gone'
  <2>1. CASE AddChecks(w) BY <1>0, <2>1 DEF AddChecks
  <2>2. CASE AddClears(w)
    <3>1. CASE s = <<w, "addr">> BY <2>2, <3>1 DEF AddClears
    <3>2. CASE s # <<w, "addr">>
      <4>1. ~(adding'[s[1]] = "cleared" /\ s[2] = "addr") BY <1>0, <2>2, <3>2 DEF AddClears
      <4> QED BY <2>2, <3>2, <4>1 DEF AddClears
    <3> QED BY <3>1, <3>2
  <2>3. CASE AddSaves(w)
    <3>1. s # <<w, "addr">> BY <2>3 DEF AddSaves
    <3>2. nodes'[s] = nodes[s] BY <2>3, <3>1 DEF AddSaves
    <3>3. ~(adding'[s[1]] = "cleared" /\ s[2] = "addr") BY <1>0, <2>3 DEF AddSaves
    <3> QED BY <2>3, <3>2, <3>3 DEF AddSaves
  <2> QED BY <1>8, <2>1, <2>2, <2>3
<1>9. ASSUME NEW t \in Slot, RemoveReads(t) \/ Removal(t) PROVE Out(s)'
  BY <1>9 DEF RemoveReads, Removal, RemoveDecommissions, RemoveResolves, RemoveOrders
<1>10. ASSUME NEW w \in Worker, DeployChecks(w) \/ DeployClears(w) \/ DeploySaves(w)
       PROVE  Out(s)' \/ s \notin gone'
  <2>1. CASE DeployChecks(w) BY <1>0, <2>1 DEF DeployChecks
  <2>2. CASE DeployClears(w) /\ deploying[w] = "checked"
    <3>1. gone' = gone \ {<<w, "host">>} BY <2>2 DEF DeployClears
    <3>2. s # <<w, "host">> => ~(deploying'[s[1]] \in {"host", "agent", "installing"} /\ s[2] = "host")
      BY <1>0, <2>2 DEF DeployClears
    <3> QED BY <2>2, <3>1, <3>2 DEF DeployClears
  <2>3. CASE DeployClears(w) /\ deploying[w] = "host"
    <3>1. s # <<w, "host">> BY <2>3
    <3>2. ~(deploying'[s[1]] \in {"host", "agent", "installing"} /\ s[2] = "host")
      BY <1>0, <2>3, <3>1 DEF DeployClears
    <3> QED BY <2>3, <3>2 DEF DeployClears
  <2>4. CASE DeploySaves(w)
    <3>1. s # <<w, "host">> BY <2>4 DEF DeploySaves
    <3>2. nodes'[s] = nodes[s] BY <2>4, <3>1 DEF DeploySaves
    <3>3. ~(deploying'[s[1]] \in {"host", "agent", "installing"} /\ s[2] = "host")
      BY <1>0, <2>4, <3>1 DEF DeploySaves
    <3> QED BY <2>4, <3>2, <3>3 DEF DeploySaves
  <2> QED BY <1>10, <2>1, <2>2, <2>3, <2>4 DEF DeployClears
<1>11. ASSUME NEW w \in Worker, DeployStartsAgent(w) \/ DeploySucceeds(w) \/ DeployFails(w) PROVE Out(s)'
  <2>1. deploying[w] = "installing" BY <1>11 DEF DeployStartsAgent, DeploySucceeds, DeployFails
  <2>2. s # <<w, "host">> BY <2>1
  <2> QED BY <1>0, <1>11, <2>2 DEF DeployStartsAgent, DeploySucceeds, DeployFails, clientVars
<1>12. ASSUME NEW w \in Worker, Late(w) \/ Fail(w) \/ Recover(w) PROVE Out(s)'
  BY <1>12 DEF Late, Fail, Recover, clientVars
<1>13. CASE Monitor \/ Sweep BY <1>1, <1>2, <1>3, <1>4, <1>5, <1>13 DEF Monitor, Sweep
<1> HIDE DEF Out, RegistryTypeOK
<1> QED BY <1>6, <1>7, <1>8, <1>9, <1>10, <1>11, <1>12, <1>13 DEF RegistryNext

\* A removed node nobody holds a copy of stays out until it is added or deployed
\* again, for any number of workers, failures and operations: the heartbeat is
\* refused, and no listing finds it.
THEOREM RemovalIsFinal == RegistrySpec => RemovedStaysOut
<1>1. RegistryTypeOK /\ [RegistryNext]_registryVars => [\A s \in Slot : Out(s) => Out(s)' \/ s \notin gone']_registryVars
  BY HeartbeatStaysOut, OthersStayOut
<1> QED BY <1>1, RegistryTypeCorrect, PTL DEF RegistrySpec, RemovedStaysOut
-----------------------------------------------------------------------------
(* Packages: the invariant *)

Jobs == {"cycle", "user"}
Lists == UNION {[S -> Record] : S \in SUBSET Archives}
Removing ==
    [at : {"idle", "copy", "save", "clean", "order", "record", "end"}, list : Lists,
     origin : Workers \cup {None}, target : Workers \cup {None}, moved : SUBSET Archives]

\* A job has these fields; what it thinks of the use of the disks is left open.
Job(j) ==
    [at : {"idle", "ttl", "nodes", "emergency"}, list : Lists, cleaned : BOOLEAN, nodes : {j.nodes},
     used : {j.used}, node : Workers \cup {None}, spared : SUBSET Archives, old : SUBSET Archives, fresh : BOOLEAN]

Types ==
    /\ TypeOK
    /\ removal \in [Removals -> Removing]
    /\ job = [p \in Jobs |-> job[p]] /\ \A p \in Jobs : job[p] \in Job(job[p])

\* What a removal works on: archives of one node; a migration has another for them.
AtWork ==
    \A r \in Removals :
        /\ removal[r].at # "idle" => removal[r].origin \in Workers
        /\ removal[r].at \in {"copy", "save", "clean"} => removal[r].target \in Workers \ {removal[r].origin}
        /\ removal[r].at \in {"save", "clean", "record"} => removal[r].list # Empty
        /\ \A a \in DOMAIN removal[r].list : removal[r].list[a].node = removal[r].origin
        /\ removal[r].at = "record" => Subject(r) \in deleting
Ordered ==
    \A p \in Jobs :
        /\ job[p].cleaned => job[p].list # Empty /\ First(job[p].list) \in deleting
        /\ job[p].at = "nodes" => job[p].list = Empty

\* Nobody knows of an archive that is not recorded yet.
Waiting(a) == a > uploaded \/ (upload # None /\ upload.archive = a)
Unknown(a) ==
    /\ record[a] = None /\ ~Held(a) /\ a \notin asked \cup deleting
    /\ \A r \in Removals : a \notin removal[r].moved

\* The removals and jobs with a copy of the record.
InRemoval(a) == {r \in Removals : a \in DOMAIN removal[r].list}
InJob(a) == {p \in Jobs : a \in DOMAIN job[p].list}
Edited(a) == edit # None /\ edit.archive = a

\* While one actor at most has a copy of the record, the copy is the record,
\* but for a migration that has just saved it.
Moving(r, a) == removal[r].at = "clean" /\ a = Subject(r)
SoleCopy(a) ==
    /\ Edited(a) => record[a] = edit.copy /\ InRemoval(a) = {} /\ InJob(a) = {}
    /\ \A r \in InRemoval(a) :
          /\ InRemoval(a) = {r} /\ InJob(a) = {}
          /\ record[a] = IF Moving(r, a) THEN [removal[r].list[a] EXCEPT !.node = removal[r].target]
                                         ELSE removal[r].list[a]
    /\ \A p, q \in InJob(a) : p = q

\* Its pin is the one that was acknowledged.
Protected(a) ==
    /\ record[a] # None /\ a \in asked => record[a].pinned
    /\ "cycle" \in InJob(a) => a \notin job["cycle"].spared

\* What a removal has moved is off its node, and is with no other removal.
Left(r, a) ==
    /\ \A q \in InRemoval(a) : q = r
    /\ a \notin DOMAIN removal[r].list => record[a] = None \/ record[a].node # removal[r].origin

\* The package is where the record says, will say, or is about to say.
Package(a) ==
    /\ record[a] # None => FileOf[a] \in disk[record[a].node]
    /\ upload # None /\ upload.archive = a => FileOf[a] \in disk[upload.node]
    /\ \A r \in Removals : removal[r].at = "save" /\ a = Subject(r) => FileOf[a] \in disk[removal[r].target]

Placed(a) ==
    a \in alone =>
        /\ SoleCopy(a) /\ Protected(a)
        /\ \A r \in Removals : a \in removal[r].moved => Left(r, a)
        /\ a \notin deleting /\ OwnName(a) => Package(a)

PInv ==
    /\ Types /\ AtWork /\ Ordered
    /\ \A a \in Archives : (Waiting(a) => Unknown(a)) /\ Placed(a)

-----------------------------------------------------------------------------
(* Packages: lists of copies *)

LEMMA ListFacts ==
    ASSUME NEW l \in Lists
    PROVE  /\ DOMAIN l \subseteq Archives /\ \A a \in DOMAIN l : l[a] \in Record
           /\ l = Empty <=> DOMAIN l = {}
           /\ l # Empty =>
                 /\ First(l) \in DOMAIN l /\ Rest(l) \in Lists /\ DOMAIN Rest(l) = DOMAIN l \ {First(l)}
                 /\ \A a \in DOMAIN Rest(l) : Rest(l)[a] = l[a]
<1>1. PICK S \in SUBSET Archives : l \in [S -> Record] BY DEF Lists
<1>2. DOMAIN l = S /\ \A a \in S : l[a] \in Record BY <1>1
<1>3. l = Empty <=> S = {}
  <2>1. Empty = [a \in {} |-> record[a]] BY DEF Empty, Listing
  <2>2. S = {} => l = [a \in {} |-> record[a]] BY <1>1
  <2>3. l = Empty => DOMAIN l = {} BY <2>1
  <2> QED BY <1>2, <2>1, <2>2, <2>3
<1>4. ASSUME S # {} PROVE First(l) \in S
  <2>1. S \subseteq Nat BY ArchivesAssumption DEF Archives
  <2>2. PICK m \in S : \A n \in S : ~(<<n, m>> \in OpToRel(<, Nat))
    BY <1>4, <2>1, WFMin, NatLessThanWellFounded, Zenon
  <2>3. \A n \in S : m <= n
    <3> SUFFICES ASSUME NEW n \in S PROVE m <= n OBVIOUS
    <3>1. n \in Nat /\ m \in Nat /\ ~(n < m) BY <2>1, <2>2 DEF OpToRel
    <3> QED BY <3>1
  <2>4. \E a \in DOMAIN l : \A b \in DOMAIN l : a <= b BY <1>2, <2>3
  <2> QED BY <1>2, <2>4 DEF First
<1>5. ASSUME S # {} PROVE Rest(l) \in Lists /\ DOMAIN Rest(l) = S \ {First(l)} /\ \A a \in DOMAIN Rest(l) : Rest(l)[a] = l[a]
  <2>1. Rest(l) = [a \in S \ {First(l)} |-> l[a]] BY <1>2 DEF Rest, Restrict
  <2>2. Rest(l) \in [S \ {First(l)} -> Record] BY <1>2, <2>1
  <2>3. S \ {First(l)} \in SUBSET Archives OBVIOUS
  <2>4. Rest(l) \in Lists BY <2>2, <2>3 DEF Lists
  <2> QED BY <2>1, <2>4
<1> QED BY <1>2, <1>3, <1>4, <1>5

LEMMA EmptyFacts == Empty \in Lists /\ DOMAIN Empty = {}
<1>1. Empty = [a \in {} |-> record[a]] BY DEF Empty, Listing
<1>2. Empty \in [{} -> Record] BY <1>1
<1>3. {} \in SUBSET Archives OBVIOUS
<1> QED BY <1>1, <1>2, <1>3 DEF Lists

\* The copies an actor starts with.
LEMMA ListingFacts ==
    ASSUME TypeOK, NEW S, S \subseteq Recorded
    PROVE  /\ Listing(S) \in Lists /\ DOMAIN Listing(S) = S /\ \A a \in S : Listing(S)[a] = record[a]
           /\ S \subseteq Archives /\ \A a \in S : record[a] \in Record
<1>1. S \subseteq Archives /\ \A a \in S : record[a] \in Record BY DEF TypeOK, Recorded
<1>2. Listing(S) \in [S -> Record] BY <1>1 DEF Listing
<1>3. S \in SUBSET Archives BY <1>1
<1>4. Listing(S) \in Lists BY <1>2, <1>3 DEF Lists
<1> QED BY <1>1, <1>4 DEF Listing

\* A prime may come to the empty list.
LEMMA EmptyStays == Empty' = Empty
BY DEF Empty, Listing

-----------------------------------------------------------------------------
(* Packages: what a step leaves alone *)

\* A step that is not about an archive takes copies of its record away, adds
\* files, and leaves its record, its pin and what is done to it.
RemovalQuiet(r, b) ==
    /\ b \in DOMAIN removal'[r].list =>
          /\ b \in DOMAIN removal[r].list /\ removal'[r].list[b] = removal[r].list[b]
          /\ removal'[r].target = removal[r].target /\ (Moving(r, b)' <=> Moving(r, b))
    /\ b \in removal'[r].moved =>
          /\ b \in removal[r].moved /\ removal'[r].origin = removal[r].origin
          /\ b \notin DOMAIN removal'[r].list => b \notin DOMAIN removal[r].list
    /\ removal'[r].at = "save" /\ b = Subject(r)' =>
          removal[r].at = "save" /\ b = Subject(r) /\ removal'[r].target = removal[r].target
JobQuiet(p, b) ==
    b \in DOMAIN job'[p].list =>
        b \in DOMAIN job[p].list /\ (b \in job'[p].spared => b \in job[p].spared)
EditQuiet(b) == Edited(b)' => Edited(b) /\ edit'.copy = edit.copy
UploadQuiet(b) ==
    /\ Waiting(b)' => Waiting(b)
    /\ upload' # None /\ upload'.archive = b => upload # None /\ upload.archive = b /\ upload'.node = upload.node
    /\ OwnName(b)' => OwnName(b)
DiskQuiet(b) == OwnName(b) => \A w \in Workers : FileOf[b] \in disk[w] => FileOf[b] \in disk'[w]
Quiet(b) ==
    /\ record'[b] = record[b] /\ EditQuiet(b) /\ UploadQuiet(b) /\ DiskQuiet(b)
    /\ \A p \in Jobs : JobQuiet(p, b)
    /\ \A r \in Removals : RemovalQuiet(r, b)
    /\ b \in asked' <=> b \in asked
    /\ b \in deleting' <=> b \in deleting
    /\ b \in alone' => b \in alone

LEMMA SameQuiet ==
    ASSUME NEW b
    PROVE  /\ \A r \in Removals : removal'[r] = removal[r] => RemovalQuiet(r, b)
           /\ \A p \in Jobs : job'[p].list = job[p].list /\ job'[p].spared = job[p].spared => JobQuiet(p, b)
           /\ edit' = edit => EditQuiet(b)
           /\ upload' = upload /\ uploaded' = uploaded => UploadQuiet(b)
           /\ (\A w \in Workers : disk[w] \subseteq disk'[w]) => DiskQuiet(b)
<1>1. ASSUME NEW r \in Removals, removal'[r] = removal[r] PROVE RemovalQuiet(r, b)
  BY <1>1 DEF RemovalQuiet, Moving, Subject
<1>2. ASSUME NEW p \in Jobs, job'[p].list = job[p].list, job'[p].spared = job[p].spared PROVE JobQuiet(p, b)
  BY <1>2 DEF JobQuiet
<1>3. edit' = edit => EditQuiet(b) BY DEF EditQuiet, Edited
<1>4. upload' = upload /\ uploaded' = uploaded => UploadQuiet(b) BY DEF UploadQuiet, Waiting, OwnName
<1>5. (\A w \in Workers : disk[w] \subseteq disk'[w]) => DiskQuiet(b) BY DEF DiskQuiet
<1> QED BY <1>1, <1>2, <1>3, <1>4, <1>5

LEMMA QuietStays ==
    ASSUME Types, Types', AtWork, NEW b \in Archives, Quiet(b), Waiting(b) => Unknown(b), Placed(b)
    PROVE  (Waiting(b) => Unknown(b))' /\ Placed(b)'
<1>1. InRemoval(b)' \subseteq InRemoval(b) /\ InJob(b)' \subseteq InJob(b) BY DEF Quiet, InRemoval, InJob, JobQuiet, RemovalQuiet
<1>2. Held(b)' => Held(b)
  <2>1. DOMAIN job = Jobs /\ DOMAIN job' = Jobs BY DEF Types
  <2> QED BY <2>1 DEF Held, Quiet, Edited, EditQuiet, JobQuiet, RemovalQuiet
<1>3. (Waiting(b) => Unknown(b))'
  <2> SUFFICES ASSUME Waiting(b)' PROVE Unknown(b)' OBVIOUS
  <2>1. Unknown(b) BY DEF Quiet, UploadQuiet
  <2> QED BY <1>2, <2>1 DEF Unknown, Quiet, RemovalQuiet
<1>4. ASSUME b \in alone', SoleCopy(b) PROVE SoleCopy(b)'
  <2>1. Edited(b)' => record'[b] = edit'.copy /\ InRemoval(b)' = {} /\ InJob(b)' = {}
    BY <1>1, <1>4 DEF SoleCopy, Quiet, EditQuiet
  <2>2. ASSUME NEW r \in InRemoval(b)'
        PROVE  /\ InRemoval(b)' = {r} /\ InJob(b)' = {}
               /\ record'[b] = IF Moving(r, b)' THEN [removal'[r].list[b] EXCEPT !.node = removal'[r].target]
                                                ELSE removal'[r].list[b]
    <3>1. r \in InRemoval(b) /\ r \in Removals /\ b \in DOMAIN removal'[r].list BY <1>1, <2>2 DEF InRemoval
    <3>2. InRemoval(b)' = {r} /\ InJob(b)' = {} BY <1>1, <1>4, <2>2, <3>1 DEF SoleCopy
    <3>3. record[b] = IF Moving(r, b) THEN [removal[r].list[b] EXCEPT !.node = removal[r].target] ELSE removal[r].list[b]
      BY <1>4, <3>1 DEF SoleCopy
    <3> QED BY <3>1, <3>2, <3>3 DEF Quiet, RemovalQuiet
  <2>3. \A p, q \in InJob(b)' : p = q BY <1>1, <1>4 DEF SoleCopy
  <2> QED BY <2>1, <2>2, <2>3 DEF SoleCopy
<1>5. ASSUME Protected(b) PROVE Protected(b)' BY <1>1, <1>5 DEF Protected, Quiet, InJob, JobQuiet
<1>6. ASSUME NEW r \in Removals, b \in removal'[r].moved, Left(r, b) PROVE Left(r, b)'
  BY <1>1, <1>6 DEF Left, Quiet, RemovalQuiet
<1>7. ASSUME OwnName(b)', Package(b) PROVE Package(b)'
  <2>1. \A w \in Workers : FileOf[b] \in disk[w] => FileOf[b] \in disk'[w]
    BY <1>7 DEF Quiet, UploadQuiet, DiskQuiet
  <2>2. record'[b] # None => FileOf[b] \in disk'[record'[b].node]
    <3>1. record[b] # None => record[b].node \in Workers BY DEF Types, TypeOK, Record
    <3> QED BY <1>7, <2>1, <3>1 DEF Package, Quiet
  <2>3. upload' # None /\ upload'.archive = b => FileOf[b] \in disk'[upload'.node]
    <3>1. upload # None => upload.node \in Workers BY DEF Types, TypeOK
    <3> QED BY <1>7, <2>1, <3>1 DEF Package, Quiet, UploadQuiet
  <2>4. ASSUME NEW r \in Removals, removal'[r].at = "save", b = Subject(r)' PROVE FileOf[b] \in disk'[removal'[r].target]
    <3>1. removal[r].at = "save" /\ b = Subject(r) /\ removal'[r].target = removal[r].target BY <2>4 DEF Quiet, RemovalQuiet
    <3>2. removal[r].target \in Workers BY <3>1 DEF AtWork
    <3> QED BY <1>7, <2>1, <3>1, <3>2 DEF Package
  <2> QED BY <2>2, <2>3, <2>4 DEF Package
<1>8. Placed(b)'
  <2> SUFFICES ASSUME b \in alone' PROVE
        /\ SoleCopy(b)' /\ Protected(b)'
        /\ \A r \in Removals : b \in removal'[r].moved => Left(r, b)'
        /\ b \notin deleting' /\ OwnName(b)' => Package(b)'
    BY DEF Placed
  <2>1. /\ SoleCopy(b) /\ Protected(b) /\ \A r \in Removals : b \in removal[r].moved => Left(r, b)
        /\ b \notin deleting /\ OwnName(b) => Package(b)
    BY DEF Placed, Quiet
  <2>2. \A r \in Removals : b \in removal'[r].moved => Left(r, b)' BY <1>6, <2>1 DEF Quiet, RemovalQuiet
  <2>3. b \notin deleting' /\ OwnName(b)' => Package(b)' BY <1>7, <2>1 DEF Quiet, UploadQuiet
  <2> QED BY <1>4, <1>5, <2>1, <2>2, <2>3
<1> QED BY <1>3, <1>8

\* What is to be shown of a step: the archives that it is about are well placed.
LEMMA Frame ==
    ASSUME PInv, Types', AtWork', Ordered',
           \A b \in Archives : Quiet(b) \/ ((Waiting(b)' => Unknown(b)') /\ Placed(b)')
    PROVE  PInv'
<1>1. ASSUME NEW b \in Archives PROVE (Waiting(b)' => Unknown(b)') /\ Placed(b)'
  <2>1. CASE Quiet(b) BY <2>1, QuietStays DEF PInv
  <2> QED BY <2>1
<1> QED BY <1>1 DEF PInv

-----------------------------------------------------------------------------
(* Packages: each step keeps the invariant *)

LEMMA JobSet ==
    ASSUME Types, NEW p \in Jobs, NEW j, j \in Job(j), job' = [job EXCEPT ![p] = j]
    PROVE  /\ job' = [q \in Jobs |-> job'[q]] /\ \A q \in Jobs : job'[q] \in Job(job'[q])
           /\ job'[p] = j /\ \A q \in Jobs \ {p} : job'[q] = job[q]
<1>1. job'[p] = j /\ \A q \in Jobs \ {p} : job'[q] = job[q] BY DEF Types
<1>2. job' = [q \in Jobs |-> job'[q]] BY DEF Types
<1> QED BY <1>1, <1>2 DEF Types

LEMMA RemovalSet ==
    ASSUME Types, NEW r \in Removals, NEW m \in Removing, removal' = [removal EXCEPT ![r] = m]
    PROVE  /\ removal' \in [Removals -> Removing] /\ removal'[r] = m
           /\ \A q \in Removals \ {r} : removal'[q] = removal[q]
BY DEF Types

LEMMA IdleFacts ==
    /\ Idle \in Job(Idle) /\ Idle.list = Empty /\ Idle.spared = {} /\ ~Idle.cleaned /\ Idle.at = "idle"
    /\ NoRemoval \in Removing /\ NoRemoval.list = Empty /\ NoRemoval.at = "idle" /\ NoRemoval.moved = {}
<1>1. Idle \in Job(Idle) /\ Idle.list = Empty /\ Idle.spared = {} /\ ~Idle.cleaned /\ Idle.at = "idle"
  BY EmptyFacts DEF Idle, Job
<1>2. NoRemoval \in Removing /\ NoRemoval.list = Empty /\ NoRemoval.at = "idle" /\ NoRemoval.moved = {}
  BY EmptyFacts DEF NoRemoval, Removing
<1> QED BY <1>1, <1>2

LEMMA InitPlaced == Init => PInv
<1> SUFFICES ASSUME Init PROVE PInv OBVIOUS
<1>1. /\ \A a \in Archives : record[a] = None
      /\ \A r \in Removals : removal[r] = NoRemoval
      /\ \A p \in Jobs : job[p] = Idle
      /\ DOMAIN job = Jobs
  BY DEF Init, Jobs
<1>2. Types
  <2>1. TypeOK
    <3>1. uploaded \in 0..NArchives BY ArchivesAssumption DEF Init
    <3>2. \A r \in Removals : DOMAIN removal[r].list \cup removal[r].moved \subseteq 1..uploaded
      BY <1>1, IdleFacts, EmptyFacts
    <3>3. \A p \in DOMAIN job : DOMAIN job[p].list \subseteq 1..uploaded BY <1>1, IdleFacts, EmptyFacts
    <3> QED BY <3>1, <3>2, <3>3 DEF Init, TypeOK
  <2>2. removal \in [Removals -> Removing] BY IdleFacts DEF Init
  <2>3. job = [p \in Jobs |-> job[p]] BY DEF Init, Jobs
  <2> QED BY <1>1, <2>1, <2>2, <2>3, IdleFacts DEF Types
<1>3. AtWork BY <1>1, IdleFacts, EmptyFacts DEF AtWork
<1>4. Ordered BY <1>1, IdleFacts DEF Ordered
<1>5. ASSUME NEW a \in Archives PROVE (Waiting(a) => Unknown(a)) /\ Placed(a)
  <2>1. edit = None /\ upload = None /\ asked = {} /\ deleting = {} BY DEF Init
  <2>2. ~Held(a) BY <1>1, <2>1, IdleFacts, EmptyFacts DEF Held
  <2>3. InRemoval(a) = {} /\ InJob(a) = {} BY <1>1, IdleFacts, EmptyFacts DEF InRemoval, InJob
  <2>4. Unknown(a) BY <1>1, <2>1, <2>2, IdleFacts DEF Unknown
  <2>5. SoleCopy(a) /\ Protected(a) BY <1>1, <2>1, <2>3 DEF SoleCopy, Protected, Edited
  <2>6. Package(a) BY <1>1, <2>1, IdleFacts DEF Package
  <2>7. \A r \in Removals : a \notin removal[r].moved BY <1>1, IdleFacts
  <2> QED BY <2>4, <2>5, <2>6, <2>7 DEF Placed
<1> QED BY <1>2, <1>3, <1>4, <1>5 DEF PInv

\* Nothing happens to archives when only these change.
LEMMA NodeKeeps ==
    ASSUME PInv, Types', UNCHANGED <<record, disk, uploaded, upload, edit, removal, job, asked, alone, deleting>>
    PROVE  PInv'
<1>1. AtWork' BY EmptyStays DEF PInv, AtWork, Subject
<1>2. Ordered' BY EmptyStays DEF PInv, Ordered
<1>3. \A b \in Archives : Quiet(b) BY SameQuiet DEF Quiet
<1> QED BY <1>1, <1>2, <1>3, Frame

LEMMA MarksKeep == ASSUME PInv, NEW w \in Workers, MarkOnline(w) \/ MarkOffline(w) PROVE PInv'
<1>1. UNCHANGED <<record, disk, uploaded, upload, edit, removal, job, asked, alone, deleting>>
  BY DEF MarkOnline, MarkOffline
<1>2. node' \in [Workers -> {"online", "offline", "gone"}] BY DEF MarkOnline, MarkOffline, PInv, Types, TypeOK
<1>3. Types' BY <1>1, <1>2 DEF PInv, Types, TypeOK, Job
<1> QED BY <1>1, <1>3, NodeKeeps

\* A worker that takes a file.
LEMMA TakesFacts ==
    ASSUME Types, NEW w \in Workers, NEW f \in Files, Takes(w, f)
    PROVE  /\ disk' \in [Workers -> SUBSET Files] /\ f \in disk'[w] /\ \A v \in Workers : disk[v] \subseteq disk'[v]
           /\ job' = [p \in Jobs |-> job'[p]]
           /\ \A p \in Jobs : /\ job'[p] \in Job(job'[p]) /\ job'[p].list = job[p].list
                              /\ job'[p].cleaned = job[p].cleaned /\ job'[p].spared = job[p].spared /\ job'[p].at = job[p].at
<1>1. disk \in [Workers -> SUBSET Files] /\ disk' = [disk EXCEPT ![w] = @ \cup {f}] BY DEF Types, TypeOK, Takes
<1>2. DOMAIN job = Jobs BY DEF Types
<1>3. job' = [p \in Jobs |-> [job[p] EXCEPT !.fresh = @ /\ job[p].node # w /\ w \notin DOMAIN job[p].nodes]]
  BY <1>2 DEF Takes
<1>4. ASSUME NEW p \in Jobs
      PROVE  /\ job'[p] \in Job(job'[p]) /\ job'[p].list = job[p].list
             /\ job'[p].cleaned = job[p].cleaned /\ job'[p].spared = job[p].spared /\ job'[p].at = job[p].at
  <2>1. PICK x : x = (job[p].fresh /\ job[p].node # w /\ w \notin DOMAIN job[p].nodes) OBVIOUS
  <2>2. x \in BOOLEAN BY <2>1
  <2>3. job'[p] = [job[p] EXCEPT !.fresh = x] BY <1>3, <2>1
  <2>4. job[p] \in Job(job[p]) BY DEF Types
  <2> QED BY <2>2, <2>3, <2>4 DEF Job
<1> QED BY <1>1, <1>3, <1>4

LEMMA UploadStoresKeeps == ASSUME PInv, NEW w \in Workers, UploadStores(w) PROVE PInv'
<1>1. PICK n : n = uploaded + 1 OBVIOUS
<1>2. /\ upload = None /\ uploaded < NArchives /\ uploaded' = n /\ upload' = [archive |-> n, node |-> w]
      /\ Takes(w, FileOf[n]) /\ UNCHANGED <<record, node, edit, removal, asked, alone, deleting>>
  BY <1>1 DEF UploadStores, Stores
<1>3. uploaded \in 0..NArchives /\ NArchives \in Nat BY ArchivesAssumption DEF PInv, Types, TypeOK
<1>4. n \in Archives /\ n \in 1..n /\ n \in 0..NArchives /\ uploaded < n /\ FileOf[n] \in Files /\ 1..uploaded \subseteq 1..n
  BY <1>1, <1>2, <1>3 DEF Archives, Files
<1>5. Types BY DEF PInv
<1>6. /\ disk' \in [Workers -> SUBSET Files] /\ FileOf[n] \in disk'[w] /\ \A v \in Workers : disk[v] \subseteq disk'[v]
      /\ job' = [p \in Jobs |-> job'[p]]
      /\ \A p \in Jobs : /\ job'[p] \in Job(job'[p]) /\ job'[p].list = job[p].list
                         /\ job'[p].cleaned = job[p].cleaned /\ job'[p].spared = job[p].spared /\ job'[p].at = job[p].at
  BY <1>2, <1>4, <1>5, TakesFacts
<1>7. Types'
  <2>1. upload' \in [archive : 1..uploaded', node : Workers] BY <1>2, <1>4
  <2>2. edit' = None \/ edit' \in [archive : 1..uploaded', copy : Record] BY <1>2, <1>4, <1>5 DEF Types, TypeOK
  <2>3. \A r \in Removals : DOMAIN removal'[r].list \cup removal'[r].moved \subseteq 1..uploaded'
    BY <1>2, <1>4, <1>5 DEF Types, TypeOK
  <2>4. \A p \in Jobs : DOMAIN job'[p].list \subseteq 1..uploaded' BY <1>2, <1>4, <1>5, <1>6 DEF Types, TypeOK
  <2>5. asked' \cup deleting' \subseteq 1..uploaded' /\ alone' \subseteq Archives BY <1>2, <1>4, <1>5 DEF Types, TypeOK
  <2>6. uploaded' \in 0..NArchives BY <1>2, <1>4
  <2>7. DOMAIN job' = Jobs BY <1>6
  <2>8. TypeOK' BY <1>2, <1>5, <1>6, <2>1, <2>2, <2>3, <2>4, <2>5, <2>6, <2>7 DEF Types, TypeOK
  <2> QED BY <1>2, <1>5, <1>6, <2>8 DEF Types
<1>8. AtWork' BY <1>2, EmptyStays DEF PInv, AtWork, Subject, First
<1>9. Ordered' BY <1>2, <1>6, EmptyStays DEF PInv, Ordered
<1>10. Waiting(n) BY <1>3, <1>4 DEF Waiting
<1>11. Unknown(n) BY <1>4, <1>10 DEF PInv
<1>12. ~Held(n)'
  <2>1. DOMAIN job = Jobs /\ DOMAIN job' = Jobs BY <1>5, <1>6 DEF Types
  <2> QED BY <1>2, <1>6, <1>11, <2>1 DEF Unknown, Held
<1>13. Unknown(n)' BY <1>2, <1>11, <1>12 DEF Unknown
<1>14. Placed(n)'
  <2>1. Placed(n) BY <1>4 DEF PInv
  <2>2. InRemoval(n)' = {} /\ InJob(n)' = {} /\ ~Edited(n)'
    <3>1. DOMAIN job' = Jobs BY <1>6
    <3> QED BY <1>12, <3>1 DEF InRemoval, InJob, Edited, Held
  <2>3. SoleCopy(n)' /\ Protected(n)' BY <1>13, <2>2 DEF SoleCopy, Protected, Unknown
  <2>4. Package(n)'
    <3>1. \A r \in Removals : removal[r].at = "save" /\ n = Subject(r)' => FALSE
      <4> SUFFICES ASSUME NEW r \in Removals, removal[r].at = "save", n = Subject(r)' PROVE FALSE OBVIOUS
      <4>1. Subject(r)' = Subject(r) BY <1>2 DEF Subject, First
      <4>2. removal[r].list \in Lists /\ removal[r].list # Empty BY <1>5 DEF PInv, AtWork, Types, Removing
      <4>3. n \in DOMAIN removal[r].list BY <4>1, <4>2, ListFacts DEF Subject
      <4> QED BY <1>11, <4>3 DEF Unknown, Held
    <3> QED BY <1>2, <1>6, <1>13, <3>1 DEF Package, Unknown
  <2> QED BY <1>13, <2>3, <2>4 DEF Placed, Unknown
<1>15. ASSUME NEW b \in Archives, b # n PROVE Quiet(b)
  <2>1. b \in Nat /\ (Waiting(b)' => Waiting(b))
    BY <1>1, <1>2, <1>3, <1>15 DEF Waiting, Archives
  <2>2. OwnName(b)' => OwnName(b) BY <1>2, <1>4 DEF OwnName
  <2>3. UploadQuiet(b) BY <1>2, <1>15, <2>1, <2>2 DEF UploadQuiet
  <2> QED BY <1>2, <1>6, <2>3, SameQuiet DEF Quiet
<1> QED BY <1>7, <1>8, <1>9, <1>13, <1>14, <1>15, Frame

\* An archive of which an actor has a copy is recorded.
LEMMA HeldKnown ==
    ASSUME PInv, NEW a \in Archives, Held(a) \/ record[a] # None
    PROVE  ~Waiting(a) /\ a \in 1..uploaded
<1>1. ~Waiting(a) BY DEF PInv, Unknown
<1>2. a \in Nat /\ a >= 1 /\ ~(a > uploaded) /\ uploaded \in Nat
  BY <1>1, ArchivesAssumption DEF Waiting, Archives, PInv, Types, TypeOK
<1> QED BY <1>1, <1>2

LEMMA SubjectFacts ==
    ASSUME PInv, NEW r \in Removals, removal[r].list # Empty
    PROVE  /\ removal[r].list \in Lists /\ Subject(r) \in DOMAIN removal[r].list
           /\ Subject(r) \in Archives /\ Subject(r) \in 1..uploaded /\ Held(Subject(r)) /\ ~Waiting(Subject(r))
           /\ FileOf[Subject(r)] \in Files
           /\ removal[r].list[Subject(r)] \in Record /\ removal[r].list[Subject(r)].node = removal[r].origin
           /\ removal[r].moved \subseteq 1..uploaded /\ DOMAIN removal[r].list \subseteq 1..uploaded
           /\ Rest(removal[r].list) \in Lists
           /\ DOMAIN Rest(removal[r].list) = DOMAIN removal[r].list \ {Subject(r)}
           /\ \A b \in DOMAIN Rest(removal[r].list) : Rest(removal[r].list)[b] = removal[r].list[b]
<1>1. removal[r].list \in Lists BY DEF PInv, Types, Removing
<1>2. /\ Subject(r) \in DOMAIN removal[r].list /\ Subject(r) \in Archives /\ removal[r].list[Subject(r)] \in Record
      /\ Rest(removal[r].list) \in Lists
      /\ DOMAIN Rest(removal[r].list) = DOMAIN removal[r].list \ {Subject(r)}
      /\ \A b \in DOMAIN Rest(removal[r].list) : Rest(removal[r].list)[b] = removal[r].list[b]
  BY <1>1, ListFacts DEF Subject
<1>3. Held(Subject(r)) BY <1>2 DEF Held
<1>4. ~Waiting(Subject(r)) /\ Subject(r) \in 1..uploaded BY <1>2, <1>3, HeldKnown
<1>5. removal[r].list[Subject(r)].node = removal[r].origin BY <1>2 DEF PInv, AtWork
<1>6. removal[r].moved \subseteq 1..uploaded /\ DOMAIN removal[r].list \subseteq 1..uploaded BY DEF PInv, Types, TypeOK
<1> QED BY <1>1, <1>2, <1>3, <1>4, <1>5, <1>6 DEF Files

\* A clean-up takes one file from one worker.
LEMMA CleansFacts ==
    ASSUME Types, NEW w \in Workers, NEW a \in 1..uploaded, Cleans(w, FileOf[a])
    PROVE  /\ disk' \in [Workers -> SUBSET Files]
           /\ \A v \in Workers \ {w} : disk'[v] = disk[v]
           /\ \A b \in Archives : b # a => DiskQuiet(b)
<1>1. disk \in [Workers -> SUBSET Files] BY DEF Types, TypeOK
<1>2. disk' = disk \/ disk' = [disk EXCEPT ![w] = @ \ {FileOf[a]}] BY DEF Cleans, Frees
<1>3. disk' \in [Workers -> SUBSET Files] /\ \A v \in Workers \ {w} : disk'[v] = disk[v] BY <1>1, <1>2
<1>4. ASSUME NEW b \in Archives, b # a PROVE DiskQuiet(b)
  <2>1. OwnName(b) => FileOf[a] # FileOf[b] BY <1>4 DEF OwnName
  <2>2. ASSUME NEW v \in Workers, FileOf[b] \in disk[v], FileOf[a] # FileOf[b] PROVE FileOf[b] \in disk'[v]
    BY <1>1, <1>2, <2>2
  <2> QED BY <2>1, <2>2 DEF DiskQuiet
<1> QED BY <1>3, <1>4

LEMMA UploadSavesKeeps == ASSUME PInv, UploadSaves PROVE PInv'
<1>0. PICK n : n = upload.archive OBVIOUS
<1>1. /\ n = upload.archive /\ upload # None /\ record' = [record EXCEPT ![n] = [node |-> upload.node, pinned |-> FALSE]] /\ upload' = None
      /\ UNCHANGED <<disk, node, uploaded, edit, removal, job, asked, alone, deleting, events>>
  BY <1>0 DEF UploadSaves
<1>2. Types BY DEF PInv
<1>3. n \in 1..uploaded /\ upload.node \in Workers /\ uploaded \in 0..NArchives BY <1>1, <1>2 DEF Types, TypeOK
<1>4. n \in Archives /\ ~(n > uploaded) BY <1>3, ArchivesAssumption DEF Archives
<1>5. [node |-> upload.node, pinned |-> FALSE] \in Record BY <1>3 DEF Record
<1>6. Waiting(n) BY <1>1 DEF Waiting
<1>7. Unknown(n) /\ Placed(n) BY <1>4, <1>6 DEF PInv
<1>8. record'[n] = [node |-> upload.node, pinned |-> FALSE] /\ \A b \in Archives \ {n} : record'[b] = record[b]
  BY <1>1, <1>2, <1>4 DEF Types, TypeOK
<1>9. Types'
  <2>1. record' \in [Archives -> Record \cup {None}] BY <1>1, <1>2, <1>5 DEF Types, TypeOK
  <2> QED BY <1>1, <1>2, <2>1 DEF Types, TypeOK, Job
<1>10. AtWork' BY <1>1, EmptyStays DEF PInv, AtWork, Subject
<1>11. Ordered' BY <1>1, EmptyStays DEF PInv, Ordered
<1>12. ASSUME NEW b \in Archives, b # n PROVE Quiet(b)
  <2>1. UploadQuiet(b) BY <1>1, <1>12 DEF UploadQuiet, Waiting, OwnName
  <2> QED BY <1>1, <1>8, <1>12, <2>1, SameQuiet DEF Quiet
<1>13. ~Waiting(n)' BY <1>1, <1>4 DEF Waiting
<1>14. Placed(n)'
  <2>1. InRemoval(n)' = {} /\ InJob(n)' = {} /\ ~Edited(n)'
    <3>1. DOMAIN job = Jobs BY <1>2 DEF Types
    <3> QED BY <1>1, <1>7, <3>1 DEF InRemoval, InJob, Edited, Unknown, Held
  <2>2. SoleCopy(n)' BY <2>1 DEF SoleCopy
  <2>3. Protected(n)' BY <1>1, <1>7, <2>1 DEF Protected, Unknown
  <2>4. \A r \in Removals : n \notin removal'[r].moved BY <1>1, <1>7 DEF Unknown
  <2>5. n \in alone /\ OwnName(n) => Package(n) BY <1>7 DEF Placed, Unknown
  <2>6. Package(n) => Package(n)'
    BY <1>1, <1>8 DEF Package, Subject
  <2>7. OwnName(n)' = OwnName(n) BY <1>1 DEF OwnName
  <2> QED BY <1>1, <2>2, <2>3, <2>4, <2>5, <2>6, <2>7 DEF Placed
<1> QED BY <1>9, <1>10, <1>11, <1>12, <1>13, <1>14, Frame

LEMMA EditReadsKeeps == ASSUME PInv, NEW a \in Archives, EditReads(a) PROVE PInv'
<1>1. /\ edit = None /\ record[a] # None /\ edit' = [archive |-> a, copy |-> record[a]]
      /\ alone' = alone \ {x \in {a} : Held(x)}
      /\ UNCHANGED <<record, disk, node, uploaded, upload, removal, job, asked, deleting>>
  BY DEF EditReads, Meet
<1>2. Types BY DEF PInv
<1>3. ~Waiting(a) /\ a \in 1..uploaded BY <1>1, HeldKnown
<1>4. record[a] \in Record BY <1>1, <1>2 DEF Types, TypeOK
<1>5. Types'
  <2>1. edit' \in [archive : 1..uploaded', copy : Record] BY <1>1, <1>3, <1>4
  <2> QED BY <1>1, <1>2, <2>1 DEF Types, TypeOK, Job
<1>6. AtWork' BY <1>1, EmptyStays DEF PInv, AtWork, Subject
<1>7. Ordered' BY <1>1, EmptyStays DEF PInv, Ordered
<1>8. ASSUME NEW b \in Archives, b # a PROVE Quiet(b)
  <2>1. EditQuiet(b) BY <1>1, <1>8 DEF EditQuiet, Edited
  <2> QED BY <1>1, <2>1, SameQuiet DEF Quiet
<1>9. ~Waiting(a)' BY <1>1, <1>3 DEF Waiting
<1>10. Placed(a)'
  <2> SUFFICES ASSUME a \in alone' PROVE Placed(a)' BY DEF Placed
  <2>1. a \in alone /\ ~Held(a) BY <1>1
  <2>2. InRemoval(a)' = {} /\ InJob(a)' = {}
    <3>1. DOMAIN job = Jobs BY <1>2 DEF Types
    <3> QED BY <1>1, <2>1, <3>1 DEF InRemoval, InJob, Held
  <2>3. SoleCopy(a)' BY <1>1, <2>2 DEF SoleCopy
  <2>4. Placed(a) BY DEF PInv
  <2>5. Protected(a)' BY <1>1, <2>1, <2>2, <2>4 DEF Protected, Placed
  <2>6. \A r \in Removals : a \in removal'[r].moved => Left(r, a)' BY <1>1, <2>1, <2>2, <2>4 DEF Left, Placed
  <2>7. Package(a)' = Package(a) /\ OwnName(a)' = OwnName(a) BY <1>1 DEF Package, OwnName, Subject
  <2> QED BY <1>1, <2>1, <2>3, <2>4, <2>5, <2>6, <2>7 DEF Placed
<1> QED BY <1>5, <1>6, <1>7, <1>8, <1>9, <1>10, Frame

LEMMA EditSavesKeeps == ASSUME PInv, EditSaves PROVE PInv'
<1>0. PICK a : a = edit.archive OBVIOUS
<1>1. /\ a = edit.archive /\ edit # None /\ record' = [record EXCEPT ![a] = edit.copy] /\ edit' = None
      /\ UNCHANGED <<disk, node, uploaded, upload, removal, job, asked, alone, deleting, events>>
  BY <1>0 DEF EditSaves
<1>2. Types BY DEF PInv
<1>3. a \in 1..uploaded /\ edit.copy \in Record /\ uploaded \in 0..NArchives BY <1>1, <1>2 DEF Types, TypeOK
<1>4. a \in Archives BY <1>3, ArchivesAssumption DEF Archives
<1>5. ~Waiting(a)
  <2>1. Held(a) BY <1>1 DEF Held
  <2> QED BY <1>4, <2>1, HeldKnown
<1>6. record'[a] = edit.copy /\ \A b \in Archives \ {a} : record'[b] = record[b]
  BY <1>1, <1>2, <1>4 DEF Types, TypeOK
<1>7. Types'
  <2>1. record' \in [Archives -> Record \cup {None}] BY <1>1, <1>2, <1>3 DEF Types, TypeOK
  <2> QED BY <1>1, <1>2, <2>1 DEF Types, TypeOK, Job
<1>8. AtWork' BY <1>1, EmptyStays DEF PInv, AtWork, Subject
<1>9. Ordered' BY <1>1, EmptyStays DEF PInv, Ordered
<1>10. ASSUME NEW b \in Archives, record'[b] = record[b] PROVE Quiet(b)
  <2>1. EditQuiet(b) BY <1>1 DEF EditQuiet, Edited
  <2> QED BY <1>1, <1>10, <2>1, SameQuiet DEF Quiet
<1>11. a \in alone => record'[a] = record[a]
  <2>1. Edited(a) BY <1>1 DEF Edited
  <2> QED BY <1>1, <1>4, <1>6, <2>1 DEF PInv, Placed, SoleCopy
<1>12. a \notin alone => (Waiting(a)' => Unknown(a)') /\ Placed(a)' BY <1>1, <1>5 DEF Waiting, Placed
<1> QED BY <1>6, <1>7, <1>8, <1>9, <1>10, <1>11, <1>12, Frame

LEMMA PinKeeps == ASSUME PInv, NEW a \in Archives, NEW pinned \in BOOLEAN, Pin(a, pinned) PROVE PInv'
<1>1. /\ record[a] # None /\ record' = [record EXCEPT ![a].pinned = pinned]
      /\ asked' = IF pinned THEN asked \cup {a} ELSE asked \ {a}
      /\ job' = [p \in DOMAIN job |-> [job[p] EXCEPT !.spared = @ \cap asked']]
      /\ alone' = alone \ {x \in {a} : Held(x)}
      /\ UNCHANGED <<disk, node, uploaded, upload, edit, removal, deleting>>
  BY DEF Pin, Meet
<1>2. Types BY DEF PInv
<1>3. ~Waiting(a) /\ a \in 1..uploaded BY <1>1, HeldKnown
<1>4. record[a] \in Record /\ record'[a] = [record[a] EXCEPT !.pinned = pinned]
      /\ \A b \in Archives \ {a} : record'[b] = record[b]
  BY <1>1, <1>2 DEF Types, TypeOK
<1>5. record'[a] \in Record /\ record'[a].node = record[a].node /\ record'[a].pinned = pinned BY <1>4 DEF Record
<1>6. /\ job' = [p \in Jobs |-> job'[p]]
      /\ \A p \in Jobs : /\ job'[p] \in Job(job'[p]) /\ job'[p].list = job[p].list /\ job'[p].at = job[p].at
                         /\ job'[p].cleaned = job[p].cleaned /\ job'[p].spared = job[p].spared \cap asked'
  <2>1. DOMAIN job = Jobs /\ \A p \in Jobs : job[p] \in Job(job[p]) BY <1>2 DEF Types
  <2>2. job' = [p \in Jobs |-> [job[p] EXCEPT !.spared = @ \cap asked']] BY <1>1, <2>1
  <2>3. ASSUME NEW p \in Jobs
        PROVE  /\ job'[p] \in Job(job'[p]) /\ job'[p].list = job[p].list /\ job'[p].at = job[p].at
               /\ job'[p].cleaned = job[p].cleaned /\ job'[p].spared = job[p].spared \cap asked'
    <3>1. PICK x : x = job[p].spared \cap asked' OBVIOUS
    <3>2. job[p].spared \in SUBSET Archives BY <2>1 DEF Job
    <3>3. x \in SUBSET Archives BY <3>1, <3>2
    <3>4. job'[p] = [job[p] EXCEPT !.spared = x] BY <2>2, <3>1
    <3> QED BY <2>1, <3>1, <3>3, <3>4 DEF Job
  <2> QED BY <2>2, <2>3
<1>7. Types'
  <2>1. record' \in [Archives -> Record \cup {None}]
    <3>1. record' = [record EXCEPT ![a] = record'[a]] BY <1>1, <1>2 DEF Types, TypeOK
    <3> QED BY <1>2, <1>5, <3>1 DEF Types, TypeOK
  <2>2. asked' \cup deleting' \subseteq 1..uploaded' /\ alone' \subseteq Archives
    BY <1>1, <1>2, <1>3 DEF Types, TypeOK
  <2>3. \A p \in DOMAIN job' : DOMAIN job'[p].list \subseteq 1..uploaded' BY <1>1, <1>2, <1>6 DEF Types, TypeOK
  <2> QED BY <1>1, <1>2, <1>6, <2>1, <2>2, <2>3 DEF Types, TypeOK
<1>8. AtWork' BY <1>1, EmptyStays DEF PInv, AtWork, Subject
<1>9. Ordered' BY <1>1, <1>6, EmptyStays DEF PInv, Ordered
<1>10. ASSUME NEW b \in Archives, b # a PROVE Quiet(b)
  <2>1. \A p \in Jobs : JobQuiet(p, b) BY <1>6 DEF JobQuiet
  <2>2. b \in asked' <=> b \in asked BY <1>1, <1>10
  <2> QED BY <1>1, <1>4, <1>10, <2>1, <2>2, SameQuiet DEF Quiet
<1>11. ~Waiting(a)' BY <1>1, <1>3 DEF Waiting
<1>12. Placed(a)'
  <2> SUFFICES ASSUME a \in alone' PROVE Placed(a)' BY DEF Placed
  <2>1. a \in alone /\ ~Held(a) BY <1>1
  <2>2. InRemoval(a) = {} /\ InRemoval(a)' = {} /\ InJob(a)' = {} /\ ~Edited(a)'
    <3>1. DOMAIN job = Jobs BY <1>2 DEF Types
    <3> QED BY <1>1, <1>6, <2>1, <3>1 DEF InRemoval, InJob, Edited, Held
  <2>3. SoleCopy(a)' BY <2>2 DEF SoleCopy
  <2>4. Placed(a) BY DEF PInv
  <2>5. Protected(a)' BY <1>1, <1>5, <2>2 DEF Protected
  <2>6. \A r \in Removals : a \in removal'[r].moved => Left(r, a)'
    BY <1>1, <1>5, <2>1, <2>2, <2>4 DEF Left, Placed
  <2>7. (Package(a) => Package(a)') /\ OwnName(a)' = OwnName(a) BY <1>1, <1>5 DEF Package, OwnName, Subject
  <2> QED BY <1>1, <2>1, <2>3, <2>4, <2>5, <2>6, <2>7 DEF Placed
<1> QED BY <1>7, <1>8, <1>9, <1>10, <1>11, <1>12, Frame

LEMMA RemovalStartsKeeps ==
    ASSUME PInv, NEW r \in Removals, NEW w \in Workers, NEW at \in {"copy", "order", "end"}, NEW target \in Workers,
           RemovalStarts(r, w, at, target)
    PROVE  PInv'
<1>0. PICK S : S = IF at = "end" THEN {} ELSE On(w) OBVIOUS
<1>1. /\ removal[r] = NoRemoval /\ (at = "copy" => target # w)
      /\ removal' = [q \in Removals |->
          IF q = r THEN [at |-> at, list |-> Listing(S), origin |-> w, target |-> target, moved |-> S]
                   ELSE [removal[q] EXCEPT !.moved = @ \ S]]
      /\ alone' = alone \ {a \in S : Held(a)}
      /\ UNCHANGED <<record, disk, node, uploaded, upload, edit, job, asked, deleting>>
  BY <1>0 DEF RemovalStarts, Meet
<1>2. Types BY DEF PInv
<1>3. S \subseteq Recorded /\ \A a \in S : record[a].node = w BY <1>0 DEF On
<1>4. /\ Listing(S) \in Lists /\ DOMAIN Listing(S) = S /\ \A a \in S : Listing(S)[a] = record[a]
      /\ S \subseteq Archives /\ \A a \in S : record[a] \in Record /\ record[a] # None
  BY <1>2, <1>3, ListingFacts DEF Types, Recorded
<1>5. \A a \in S : ~Waiting(a) /\ a \in 1..uploaded BY <1>4, HeldKnown
<1>6. PICK l : l = Listing(S) OBVIOUS
<1>7. /\ removal'[r] = [at |-> at, list |-> l, origin |-> w, target |-> target, moved |-> S]
      /\ removal'[r] \in Removing
  <2>1. removal'[r] = [at |-> at, list |-> l, origin |-> w, target |-> target, moved |-> S] BY <1>1, <1>6
  <2> QED BY <1>4, <1>6, <2>1 DEF Removing
<1>8. ASSUME NEW q \in Removals, q # r
      PROVE  /\ removal'[q] \in Removing
             /\ removal'[q].at = removal[q].at /\ removal'[q].list = removal[q].list
             /\ removal'[q].origin = removal[q].origin /\ removal'[q].target = removal[q].target
             /\ removal'[q].moved = removal[q].moved \ S
  <2>1. PICK x : x = removal[q].moved \ S OBVIOUS
  <2>2. removal'[q] = [removal[q] EXCEPT !.moved = x] BY <1>1, <1>8, <2>1
  <2>3. removal[q] \in Removing /\ x \in SUBSET Archives BY <1>2, <2>1 DEF Types, Removing
  <2> QED BY <2>1, <2>2, <2>3 DEF Removing
<1>9. Types'
  <2>1. removal' = [q \in Removals |-> removal'[q]] BY <1>1
  <2>2. removal' \in [Removals -> Removing] BY <1>7, <1>8, <2>1
  <2>3. \A q \in Removals : DOMAIN removal'[q].list \cup removal'[q].moved \subseteq 1..uploaded'
    <3>1. DOMAIN removal'[r].list \cup removal'[r].moved \subseteq 1..uploaded' BY <1>1, <1>4, <1>5, <1>6, <1>7
    <3> QED BY <1>1, <1>2, <1>8, <3>1 DEF Types, TypeOK
  <2>4. alone' \subseteq Archives BY <1>1, <1>2 DEF Types, TypeOK
  <2>5. TypeOK' BY <1>1, <1>2, <2>3, <2>4 DEF Types, TypeOK
  <2> QED BY <1>1, <1>2, <2>2, <2>5 DEF Types, Job
<1>10. AtWork'
  <2>1. /\ removal'[r].at \notin {"save", "clean", "record", "idle"} /\ removal'[r].origin = w /\ removal'[r].target = target
        /\ \A a \in DOMAIN removal'[r].list : removal'[r].list[a].node = removal'[r].origin
    BY <1>3, <1>4, <1>6, <1>7
  <2>2. ASSUME NEW q \in Removals, q # r PROVE Subject(q)' = Subject(q) BY <1>8, <2>2 DEF Subject
  <2>3. removal'[r].at \in {"save", "clean", "copy"} => removal'[r].target # removal'[r].origin BY <1>1, <1>7
  <2> QED BY <1>1, <1>8, <2>1, <2>2, <2>3, EmptyStays DEF PInv, AtWork
<1>11. Ordered' BY <1>1, EmptyStays DEF PInv, Ordered
<1>12. ASSUME NEW q \in Removals, q # r, NEW b PROVE Subject(q)' = Subject(q) /\ (Moving(q, b)' <=> Moving(q, b))
  BY <1>8, <1>12 DEF Moving, Subject
<1>13. ASSUME NEW b \in Archives, b \notin S PROVE Quiet(b)
  <2>1. RemovalQuiet(r, b) BY <1>4, <1>6, <1>7, <1>13 DEF RemovalQuiet
  <2>2. ASSUME NEW q \in Removals, q # r PROVE RemovalQuiet(q, b) BY <1>8, <1>12, <2>2 DEF RemovalQuiet
  <2> QED BY <1>1, <1>13, <2>1, <2>2, SameQuiet DEF Quiet
<1>14. ASSUME NEW a \in S PROVE ~Waiting(a)' /\ Placed(a)'
  <2>1. ~Waiting(a)' BY <1>1, <1>5 DEF Waiting
  <2> SUFFICES ASSUME a \in alone' PROVE Placed(a)' BY <2>1 DEF Placed
  <2>2. a \in alone /\ ~Held(a) /\ a \in Archives BY <1>1, <1>4
  <2>3. InRemoval(a) = {} /\ InJob(a)' = {} /\ ~Edited(a)'
    <3>1. DOMAIN job = Jobs BY <1>2 DEF Types
    <3> QED BY <1>1, <2>2, <3>1 DEF InRemoval, InJob, Edited, Held
  <2>4. InRemoval(a)' = {r} BY <1>4, <1>6, <1>7, <1>8, <2>3 DEF InRemoval
  <2>5. Placed(a) BY <2>2 DEF PInv
  <2>6. SoleCopy(a)'
    <3>1. ~Moving(r, a)' BY <1>7 DEF Moving
    <3>2. record'[a] = removal'[r].list[a] BY <1>1, <1>4, <1>6, <1>7
    <3> QED BY <2>3, <2>4, <3>1, <3>2 DEF SoleCopy
  <2>7. Protected(a)' BY <1>1, <2>2, <2>3, <2>5 DEF Protected, Placed
  <2>8. ASSUME NEW q \in Removals, a \in removal'[q].moved PROVE Left(q, a)'
    <3>1. q = r BY <1>8, <2>8
    <3>2. a \in DOMAIN removal'[q].list BY <1>4, <1>6, <1>7, <3>1
    <3> QED BY <2>4, <3>1, <3>2 DEF Left
  <2>9. Package(a) => Package(a)'
    <3>1. removal'[r].at # "save" BY <1>7
    <3> QED BY <1>1, <1>8, <1>12, <3>1 DEF Package
  <2>10. OwnName(a)' = OwnName(a) BY <1>1 DEF OwnName
  <2> QED BY <1>1, <2>2, <2>5, <2>6, <2>7, <2>8, <2>9, <2>10 DEF Placed
<1>15. \A b \in Archives : Quiet(b) \/ ((Waiting(b)' => Unknown(b)') /\ Placed(b)') BY <1>13, <1>14
<1> QED BY <1>9, <1>10, <1>11, <1>15, Frame

\* A removal goes on with the archive it is about, or is done with it.
After(r, at, list, moved) ==
    [at |-> at, list |-> list, origin |-> removal[r].origin, target |-> removal[r].target, moved |-> moved]

LEMMA AfterIs ==
    ASSUME Types, NEW r \in Removals
    PROVE  /\ \A at : [removal[r] EXCEPT !.at = at] = After(r, at, removal[r].list, removal[r].moved)
           /\ \A l : [removal[r] EXCEPT !.list = l] = After(r, removal[r].at, l, removal[r].moved)
<1>1. PICK m : m = removal[r] OBVIOUS
<1>2. m \in Removing BY <1>1 DEF Types
<1>3. \A at : [m EXCEPT !.at = at] = [at |-> at, list |-> m.list, origin |-> m.origin, target |-> m.target, moved |-> m.moved]
  BY <1>2 DEF Removing
<1>4. \A l : [m EXCEPT !.list = l] = [at |-> m.at, list |-> l, origin |-> m.origin, target |-> m.target, moved |-> m.moved]
  BY <1>2 DEF Removing
<1> QED BY <1>1, <1>3, <1>4 DEF After

Continues(r, at, list, moved) ==
    /\ removal[r].list # Empty /\ removal[r].at # "idle" /\ moved \subseteq removal[r].moved
    /\ removal' = [removal EXCEPT ![r] = After(r, at, list, moved)]
    /\ \/ list = removal[r].list /\ at \in {"save", "clean", "record"}
       \/ list = Rest(removal[r].list) /\ at \in {"copy", "order"}
    /\ at \in {"copy", "save", "clean"} => removal[r].at \in {"copy", "save", "clean"}
    /\ at = "record" => Subject(r) \in deleting'
    /\ deleting \subseteq deleting' /\ uploaded' = uploaded

LEMMA RemovalContinues ==
    ASSUME PInv, NEW r \in Removals, NEW at, NEW list, NEW moved,
           Continues(r, at, list, moved)
    PROVE  /\ removal' \in [Removals -> Removing] /\ AtWork'
           /\ \A q \in Removals : DOMAIN removal'[q].list \cup removal'[q].moved \subseteq 1..uploaded'
           /\ removal'[r] = After(r, at, list, moved) /\ \A q \in Removals \ {r} : removal'[q] = removal[q]
           /\ \A b \in Archives : b # Subject(r) => \A q \in Removals : RemovalQuiet(q, b)
<1> USE DEF Continues
<1>1. Types BY DEF PInv
<1>2. /\ removal[r].list \in Lists /\ list \in Lists
      /\ DOMAIN list \subseteq DOMAIN removal[r].list /\ \A b \in DOMAIN list : list[b] = removal[r].list[b]
      /\ DOMAIN removal[r].list \subseteq 1..uploaded /\ removal[r].moved \subseteq 1..uploaded
  BY SubjectFacts
<1>3. After(r, at, list, moved) \in Removing
  <2>1. moved \in SUBSET Archives BY <1>1 DEF Types, Removing
  <2> QED BY <1>1, <1>2, <2>1 DEF After, Types, Removing
<1>4. /\ removal' \in [Removals -> Removing] /\ removal'[r] = After(r, at, list, moved)
      /\ \A q \in Removals \ {r} : removal'[q] = removal[q]
  BY <1>1, <1>3 DEF Types
<1>5. \A q \in Removals : DOMAIN removal'[q].list \cup removal'[q].moved \subseteq 1..uploaded'
  <2>1. DOMAIN removal'[r].list \cup removal'[r].moved \subseteq 1..uploaded' BY <1>2, <1>4 DEF After
  <2> QED BY <1>1, <1>4, <2>1 DEF Types, TypeOK
<1>6. /\ removal'[r].at = at /\ removal'[r].list = list /\ removal'[r].moved = moved
      /\ removal'[r].origin = removal[r].origin /\ removal'[r].target = removal[r].target
  BY <1>4 DEF After
<1>7. AtWork'
  <2>1. \A q \in Removals : removal'[q] = removal[q] => Subject(q)' = Subject(q) BY DEF Subject
  <2>2. list = removal[r].list => Subject(r)' = Subject(r) BY <1>6 DEF Subject
  <2>3. at \in {"save", "clean", "record"} => removal'[r].list # Empty' BY <1>6, ListFacts, EmptyStays, SubjectFacts
  <2>4. \A a \in DOMAIN removal'[r].list : removal'[r].list[a].node = removal'[r].origin BY <1>2, <1>6 DEF PInv, AtWork
  <2>5. at = "record" => Subject(r)' \in deleting' BY <2>2
  <2>6. \A q \in Removals \ {r} : removal[q].at = "record" => Subject(q)' \in deleting' BY <1>4, <2>1 DEF PInv, AtWork
  <2> QED BY <1>4, <1>6, <2>3, <2>4, <2>5, <2>6, EmptyStays DEF PInv, AtWork
<1>8. ASSUME NEW b \in Archives, b # Subject(r), NEW q \in Removals PROVE RemovalQuiet(q, b)
  <2>1. CASE q # r
    <3>1. removal'[q] = removal[q] BY <1>4, <2>1
    <3> QED BY <3>1, SameQuiet
  <2>2. CASE q = r
    <3>1. ~Moving(r, b) BY <1>8 DEF Moving
    <3>2. at \in {"save", "clean"} => Subject(r)' = Subject(r) BY <1>6 DEF Subject
    <3>3. ~Moving(r, b)' BY <1>6, <1>8, <3>2 DEF Moving
    <3>4. b \in DOMAIN removal[r].list => b \in DOMAIN list BY <1>8, SubjectFacts
    <3> QED BY <1>2, <1>6, <1>8, <2>2, <3>1, <3>2, <3>3, <3>4 DEF RemovalQuiet
  <2> QED BY <2>1, <2>2
<1> QED BY <1>4, <1>5, <1>7, <1>8

\* An archive of which no two actors had copies at a time is the business of one removal.
LEMMA SoleSubject ==
    ASSUME PInv, NEW r \in Removals, removal[r].list # Empty, NEW a, a = Subject(r), a \in alone
    PROVE  /\ InRemoval(a) = {r} /\ InJob(a) = {} /\ ~Edited(a) /\ Placed(a)
           /\ record[a] = IF removal[r].at = "clean" THEN [removal[r].list[a] EXCEPT !.node = removal[r].target]
                                                     ELSE removal[r].list[a]
           /\ \A q \in Removals : a \in removal[q].moved => q = r
           /\ \A q \in Removals : removal[q].at = "save" /\ a = Subject(q) => q = r
<1>1. a \in Archives /\ r \in InRemoval(a) BY SubjectFacts DEF InRemoval
<1>2. Placed(a) BY <1>1 DEF PInv
<1>3. InRemoval(a) = {r} /\ InJob(a) = {} /\ ~Edited(a) BY <1>1, <1>2 DEF Placed, SoleCopy
<1>4. record[a] = IF removal[r].at = "clean" THEN [removal[r].list[a] EXCEPT !.node = removal[r].target]
                                             ELSE removal[r].list[a]
  BY <1>1, <1>2 DEF Placed, SoleCopy, Moving
<1>5. \A q \in Removals : a \in removal[q].moved => q = r BY <1>1, <1>2 DEF Placed, Left
<1>6. ASSUME NEW q \in Removals, removal[q].at = "save", a = Subject(q) PROVE q = r
  <2>1. removal[q].list # Empty BY <1>6 DEF PInv, AtWork
  <2>2. q \in InRemoval(a) BY <1>6, <2>1, SubjectFacts DEF InRemoval
  <2> QED BY <1>3, <2>2
<1> QED BY <1>2, <1>3, <1>4, <1>5, <1>6

LEMMA MigrateCopiesKeeps == ASSUME PInv, NEW r \in Removals, MigrateCopies(r) PROVE PInv'
<1>0. PICK a : a = Subject(r) OBVIOUS
<1>1. /\ removal[r].at = "copy" /\ removal[r].list # Empty /\ Takes(removal[r].target, FileOf[a])
      /\ removal' = [removal EXCEPT ![r].at = "save"]
      /\ UNCHANGED <<record, node, uploaded, upload, edit, asked, alone, deleting>>
  BY <1>0 DEF MigrateCopies, Working, Stores
<1>2. Types BY DEF PInv
<1>3. removal' = [removal EXCEPT ![r] = After(r, "save", removal[r].list, removal[r].moved)]
  BY <1>1, <1>2, AfterIs
<1>4. /\ removal' \in [Removals -> Removing] /\ AtWork'
      /\ \A q \in Removals : DOMAIN removal'[q].list \cup removal'[q].moved \subseteq 1..uploaded'
      /\ removal'[r] = After(r, "save", removal[r].list, removal[r].moved)
      /\ \A q \in Removals \ {r} : removal'[q] = removal[q]
      /\ \A b \in Archives : b # a => \A q \in Removals : RemovalQuiet(q, b)
  <2>1. Continues(r, "save", removal[r].list, removal[r].moved) BY <1>0, <1>1, <1>3 DEF Continues
  <2> QED BY <1>0, <2>1, RemovalContinues
<1>5. a \in Archives /\ FileOf[a] \in Files /\ ~Waiting(a) BY <1>0, <1>1, SubjectFacts
<1>6. removal[r].target \in Workers BY <1>1 DEF PInv, AtWork
<1>7. PICK v \in Workers : v = removal[r].target BY <1>6
<1>8. /\ disk' \in [Workers -> SUBSET Files] /\ FileOf[a] \in disk'[v] /\ \A u \in Workers : disk[u] \subseteq disk'[u]
      /\ job' = [p \in Jobs |-> job'[p]]
      /\ \A p \in Jobs : /\ job'[p] \in Job(job'[p]) /\ job'[p].list = job[p].list /\ job'[p].cleaned = job[p].cleaned
                         /\ job'[p].spared = job[p].spared /\ job'[p].at = job[p].at
  BY <1>1, <1>2, <1>5, <1>7, TakesFacts
<1>9. Types' BY <1>1, <1>2, <1>4, <1>8 DEF Types, TypeOK
<1>10. Ordered' BY <1>1, <1>8, EmptyStays DEF PInv, Ordered
<1>11. ASSUME NEW b \in Archives, b # a PROVE Quiet(b) BY <1>1, <1>4, <1>8, <1>11, SameQuiet DEF Quiet
<1>12. ~Waiting(a)' BY <1>1, <1>5 DEF Waiting
<1>13. Placed(a)'
  <2> SUFFICES ASSUME a \in alone' PROVE Placed(a)' BY DEF Placed
  <2>1. a \in alone BY <1>1
  <2>2. /\ InRemoval(a) = {r} /\ InJob(a) = {} /\ ~Edited(a) /\ Placed(a) /\ record[a] = removal[r].list[a]
        /\ \A q \in Removals : a \in removal[q].moved => q = r
        /\ \A q \in Removals : removal[q].at = "save" /\ a = Subject(q) => q = r
    BY <1>0, <1>1, <2>1, SoleSubject
  <2>3. /\ removal'[r].at = "save" /\ removal'[r].list = removal[r].list /\ removal'[r].target = removal[r].target
        /\ \A q \in Removals : removal'[q].moved = removal[q].moved /\ removal'[q].list = removal[q].list
    BY <1>4 DEF After
  <2>4. InRemoval(a)' = {r} /\ InJob(a)' = {} /\ ~Edited(a)' BY <1>1, <1>8, <2>2, <2>3 DEF InRemoval, InJob, Edited
  <2>5. SoleCopy(a)' BY <1>1, <2>2, <2>3, <2>4 DEF SoleCopy, Moving
  <2>6. Protected(a)' BY <1>1, <2>1, <2>2, <2>4 DEF Protected, Placed
  <2>7. \A q \in Removals : a \in removal'[q].moved => Left(q, a)'
    <3>1. a \in DOMAIN removal'[r].list BY <2>4 DEF InRemoval
    <3> QED BY <2>2, <2>3, <2>4, <3>1 DEF Left
  <2>8. Package(a) => Package(a)'
    <3>1. ASSUME NEW q \in Removals, removal'[q].at = "save", a = Subject(q)' PROVE q = r
      <4>1. CASE q # r
        <5>1. removal[q].at = "save" /\ a = Subject(q) BY <1>4, <3>1, <4>1 DEF Subject
        <5> QED BY <2>2, <5>1
      <4> QED BY <4>1
    <3>2. record[a] # None => record[a].node \in Workers BY <1>2, <1>5 DEF Types, TypeOK, Record
    <3>3. upload # None => upload.node \in Workers BY <1>2 DEF Types, TypeOK
    <3> QED BY <1>1, <1>7, <1>8, <2>3, <3>1, <3>2, <3>3 DEF Package
  <2>9. OwnName(a)' = OwnName(a) BY <1>1 DEF OwnName
  <2> QED BY <1>1, <2>1, <2>2, <2>5, <2>6, <2>7, <2>8, <2>9 DEF Placed
<1> QED BY <1>4, <1>9, <1>10, <1>11, <1>12, <1>13, Frame

LEMMA MigrateSkipsKeeps == ASSUME PInv, NEW r \in Removals, MigrateSkips(r) PROVE PInv'
<1>0. PICK a : a = Subject(r) OBVIOUS
<1>1. /\ removal[r].at = "copy" /\ removal[r].list # Empty
      /\ UNCHANGED <<disk, job>> \/ Takes(removal[r].target, FileOf[a])
      /\ removal' = [removal EXCEPT ![r].list = Rest(@), ![r].moved = @ \ {a}]
      /\ UNCHANGED <<record, node, uploaded, upload, edit, asked, alone, deleting, events>>
  BY <1>0 DEF MigrateSkips, Working
<1>2. Types BY DEF PInv
<1>3. removal' = [removal EXCEPT ![r] = After(r, "copy", Rest(removal[r].list), removal[r].moved \ {a})]
  <2>1. PICK n : n = [removal[r] EXCEPT !.list = Rest(@)] OBVIOUS
  <2>2. n = After(r, "copy", Rest(removal[r].list), removal[r].moved) BY <1>1, <1>2, <2>1, AfterIs
  <2>3. removal' = [removal EXCEPT ![r] = [n EXCEPT !.moved = @ \ {a}]] BY <1>1, <1>2, <2>1 DEF Types
  <2>4. [n EXCEPT !.moved = @ \ {a}] = After(r, "copy", Rest(removal[r].list), removal[r].moved \ {a})
    BY <2>2 DEF After
  <2> QED BY <2>3, <2>4
<1>4. /\ removal' \in [Removals -> Removing] /\ AtWork'
      /\ \A q \in Removals : DOMAIN removal'[q].list \cup removal'[q].moved \subseteq 1..uploaded'
      /\ removal'[r] = After(r, "copy", Rest(removal[r].list), removal[r].moved \ {a})
      /\ \A q \in Removals \ {r} : removal'[q] = removal[q]
      /\ \A b \in Archives : b # a => \A q \in Removals : RemovalQuiet(q, b)
  <2>1. Continues(r, "copy", Rest(removal[r].list), removal[r].moved \ {a}) BY <1>0, <1>1, <1>3 DEF Continues
  <2> QED BY <1>0, <2>1, RemovalContinues
<1>5. /\ a \in Archives /\ FileOf[a] \in Files /\ DOMAIN Rest(removal[r].list) = DOMAIN removal[r].list \ {a}
  BY <1>0, <1>1, SubjectFacts
<1>6. removal[r].target \in Workers BY <1>1 DEF PInv, AtWork
<1>7. PICK v \in Workers : v = removal[r].target BY <1>6
<1>8. /\ disk' \in [Workers -> SUBSET Files] /\ \A u \in Workers : disk[u] \subseteq disk'[u]
      /\ job' = [p \in Jobs |-> job'[p]]
      /\ \A p \in Jobs : /\ job'[p] \in Job(job'[p]) /\ job'[p].list = job[p].list /\ job'[p].cleaned = job[p].cleaned
                         /\ job'[p].spared = job[p].spared /\ job'[p].at = job[p].at
  <2>1. CASE UNCHANGED <<disk, job>> BY <1>2, <2>1 DEF Types, TypeOK, Job
  <2>2. CASE Takes(v, FileOf[a]) BY <1>2, <1>5, <2>2, TakesFacts
  <2> QED BY <1>1, <1>7, <2>1, <2>2
<1>9. Types' BY <1>1, <1>2, <1>4, <1>8 DEF Types, TypeOK
<1>10. Ordered' BY <1>1, <1>8, EmptyStays DEF PInv, Ordered
<1>11. ASSUME NEW b \in Archives PROVE Quiet(b)
  <2>1. b = a => RemovalQuiet(r, b)
    <3>1. removal'[r].at = "copy" /\ a \notin DOMAIN removal'[r].list /\ a \notin removal'[r].moved
      BY <1>4, <1>5 DEF After
    <3> QED BY <3>1 DEF RemovalQuiet
  <2>2. \A q \in Removals : RemovalQuiet(q, b) BY <1>4, <2>1, SameQuiet
  <2> QED BY <1>1, <1>8, <2>2, SameQuiet DEF Quiet
<1> QED BY <1>4, <1>9, <1>10, <1>11, Frame

LEMMA MigrateSavesKeeps == ASSUME PInv, NEW r \in Removals, MigrateSaves(r) PROVE PInv'
<1>0. PICK a, l : a = Subject(r) /\ l = removal[r].list OBVIOUS
<1>1. /\ removal[r].at = "save" /\ l # Empty
      /\ record' = [record EXCEPT ![a] = [l[a] EXCEPT !.node = removal[r].target]]
      /\ removal' = [removal EXCEPT ![r].at = "clean"]
      /\ UNCHANGED <<disk, node, uploaded, upload, edit, job, asked, alone, deleting, events>>
  BY <1>0 DEF MigrateSaves, Working
<1>2. Types BY DEF PInv
<1>3. removal' = [removal EXCEPT ![r] = After(r, "clean", l, removal[r].moved)] BY <1>0, <1>1, <1>2, AfterIs
<1>4. /\ removal' \in [Removals -> Removing] /\ AtWork'
      /\ \A q \in Removals : DOMAIN removal'[q].list \cup removal'[q].moved \subseteq 1..uploaded'
      /\ removal'[r] = After(r, "clean", l, removal[r].moved)
      /\ \A q \in Removals \ {r} : removal'[q] = removal[q]
      /\ \A b \in Archives : b # a => \A q \in Removals : RemovalQuiet(q, b)
  <2>1. Continues(r, "clean", l, removal[r].moved) BY <1>0, <1>1, <1>3 DEF Continues
  <2> QED BY <1>0, <2>1, RemovalContinues
<1>5. a \in Archives /\ a \in DOMAIN l /\ ~Waiting(a) /\ l[a] \in Record /\ l[a].node = removal[r].origin
  BY <1>0, <1>1, SubjectFacts
<1>6. removal[r].target \in Workers /\ removal[r].target # removal[r].origin BY <1>1 DEF PInv, AtWork
<1>7. /\ record'[a] = [l[a] EXCEPT !.node = removal[r].target] /\ record'[a] \in Record
      /\ record'[a].node = removal[r].target /\ record'[a].pinned = l[a].pinned
      /\ \A b \in Archives \ {a} : record'[b] = record[b]
  <2>1. record'[a] = [l[a] EXCEPT !.node = removal[r].target] /\ \A b \in Archives \ {a} : record'[b] = record[b]
    BY <1>1, <1>2, <1>5 DEF Types, TypeOK
  <2> QED BY <1>5, <1>6, <2>1 DEF Record
<1>8. Types'
  <2>1. record' = [record EXCEPT ![a] = record'[a]] BY <1>1, <1>2, <1>5 DEF Types, TypeOK
  <2>2. record' \in [Archives -> Record \cup {None}] BY <1>2, <1>7, <2>1 DEF Types, TypeOK
  <2> QED BY <1>1, <1>2, <1>4, <2>2 DEF Types, TypeOK, Job
<1>9. Ordered' BY <1>1, EmptyStays DEF PInv, Ordered
<1>10. ASSUME NEW b \in Archives, b # a PROVE Quiet(b) BY <1>1, <1>4, <1>7, <1>10, SameQuiet DEF Quiet
<1>11. ~Waiting(a)' BY <1>1, <1>5 DEF Waiting
<1>12. Placed(a)'
  <2> SUFFICES ASSUME a \in alone' PROVE Placed(a)' BY DEF Placed
  <2>1. a \in alone BY <1>1
  <2>2. /\ InRemoval(a) = {r} /\ InJob(a) = {} /\ ~Edited(a) /\ Placed(a) /\ record[a] = l[a]
        /\ \A q \in Removals : a \in removal[q].moved => q = r
        /\ \A q \in Removals : removal[q].at = "save" /\ a = Subject(q) => q = r
    BY <1>0, <1>1, <2>1, SoleSubject
  <2>3. /\ removal'[r].at = "clean" /\ removal'[r].list = l /\ removal'[r].target = removal[r].target
        /\ \A q \in Removals : removal'[q].moved = removal[q].moved /\ removal'[q].list = removal[q].list
    BY <1>0, <1>4 DEF After
  <2>4. InRemoval(a)' = {r} /\ InJob(a)' = {} /\ ~Edited(a)' BY <1>1, <2>2, <2>3 DEF InRemoval, InJob, Edited
  <2>5. SoleCopy(a)'
    <3>1. Moving(r, a)' BY <1>0, <2>3 DEF Moving, Subject
    <3> QED BY <1>7, <2>3, <2>4, <3>1 DEF SoleCopy
  <2>6. Protected(a)'
    <3>1. record[a] # None BY <1>5, <2>2, NoneAssumption DEF Record
    <3> QED BY <1>1, <1>7, <2>1, <2>2, <2>4, <3>1 DEF Protected, Placed
  <2>7. \A q \in Removals : a \in removal'[q].moved => Left(q, a)'
    <3>1. a \in DOMAIN removal'[r].list BY <2>4 DEF InRemoval
    <3> QED BY <2>2, <2>3, <2>4, <3>1 DEF Left
  <2>8. Package(a) => Package(a)'
    <3>1. ASSUME NEW q \in Removals, removal'[q].at = "save", a = Subject(q)' PROVE FALSE
      <4>1. q # r BY <2>3, <3>1
      <4>2. removal[q].at = "save" /\ a = Subject(q) BY <1>4, <3>1, <4>1 DEF Subject
      <4> QED BY <2>2, <4>1, <4>2
    <3>2. Package(a) => FileOf[a] \in disk[removal[r].target] BY <1>0, <1>1 DEF Package
    <3> QED BY <1>1, <1>7, <3>1, <3>2 DEF Package
  <2>9. OwnName(a)' = OwnName(a) BY <1>1 DEF OwnName
  <2> QED BY <1>1, <2>1, <2>2, <2>5, <2>6, <2>7, <2>8, <2>9 DEF Placed
<1> QED BY <1>4, <1>8, <1>9, <1>10, <1>11, <1>12, Frame

LEMMA MigrateCleansKeeps == ASSUME PInv, NEW r \in Removals, MigrateCleans(r) PROVE PInv'
<1>0. PICK a, l : a = Subject(r) /\ l = removal[r].list OBVIOUS
<1>1. /\ removal[r].at = "clean" /\ l # Empty /\ Cleans(removal[r].origin, FileOf[a])
      /\ removal' = [removal EXCEPT ![r].at = "copy", ![r].list = Rest(@)]
      /\ UNCHANGED <<record, node, uploaded, upload, edit, job, asked, alone, deleting, events>>
  BY <1>0 DEF MigrateCleans, Working
<1>2. Types BY DEF PInv
<1>3. removal' = [removal EXCEPT ![r] = After(r, "copy", Rest(l), removal[r].moved)]
  <2>1. PICK n : n = [removal[r] EXCEPT !.at = "copy"] OBVIOUS
  <2>2. n = After(r, "copy", l, removal[r].moved) BY <1>0, <1>2, <2>1, AfterIs
  <2>3. removal' = [removal EXCEPT ![r] = [n EXCEPT !.list = Rest(@)]] BY <1>1, <1>2, <2>1 DEF Types
  <2>4. [n EXCEPT !.list = Rest(@)] = After(r, "copy", Rest(l), removal[r].moved) BY <2>2 DEF After
  <2> QED BY <2>3, <2>4
<1>4. /\ removal' \in [Removals -> Removing] /\ AtWork'
      /\ \A q \in Removals : DOMAIN removal'[q].list \cup removal'[q].moved \subseteq 1..uploaded'
      /\ removal'[r] = After(r, "copy", Rest(l), removal[r].moved)
      /\ \A q \in Removals \ {r} : removal'[q] = removal[q]
      /\ \A b \in Archives : b # a => \A q \in Removals : RemovalQuiet(q, b)
  <2>1. Continues(r, "copy", Rest(l), removal[r].moved) BY <1>0, <1>1, <1>3 DEF Continues
  <2> QED BY <1>0, <2>1, RemovalContinues
<1>5. /\ a \in Archives /\ a \in 1..uploaded /\ ~Waiting(a) /\ l[a] \in Record /\ l[a].node = removal[r].origin
      /\ DOMAIN Rest(l) = DOMAIN l \ {a}
  BY <1>0, <1>1, SubjectFacts
<1>6. /\ removal[r].origin \in Workers /\ removal[r].target \in Workers /\ removal[r].target # removal[r].origin
  BY <1>1 DEF PInv, AtWork
<1>7. PICK v \in Workers : v = removal[r].origin BY <1>6
<1>8. /\ disk' \in [Workers -> SUBSET Files] /\ \A u \in Workers \ {v} : disk'[u] = disk[u]
      /\ \A b \in Archives : b # a => DiskQuiet(b)
  BY <1>1, <1>2, <1>5, <1>7, CleansFacts
<1>9. Types' BY <1>1, <1>2, <1>4, <1>8 DEF Types, TypeOK, Job
<1>10. Ordered' BY <1>1, EmptyStays DEF PInv, Ordered
<1>11. ASSUME NEW b \in Archives, b # a PROVE Quiet(b) BY <1>1, <1>4, <1>8, <1>11, SameQuiet DEF Quiet
<1>12. ~Waiting(a)' BY <1>1, <1>5 DEF Waiting
<1>13. Placed(a)'
  <2> SUFFICES ASSUME a \in alone' PROVE Placed(a)' BY DEF Placed
  <2>1. a \in alone BY <1>1
  <2>2. /\ InRemoval(a) = {r} /\ InJob(a) = {} /\ ~Edited(a) /\ Placed(a)
        /\ record[a] = [l[a] EXCEPT !.node = removal[r].target]
        /\ \A q \in Removals : a \in removal[q].moved => q = r
        /\ \A q \in Removals : removal[q].at = "save" /\ a = Subject(q) => q = r
    BY <1>0, <1>1, <2>1, SoleSubject
  <2>3. /\ removal'[r].at = "copy" /\ removal'[r].list = Rest(l) /\ removal'[r].origin = removal[r].origin
        /\ \A q \in Removals : removal'[q].moved = removal[q].moved
    BY <1>4 DEF After
  <2>4. InRemoval(a)' = {} /\ InJob(a)' = {} /\ ~Edited(a)'
    <3>1. InRemoval(a)' = {} BY <1>4, <1>5, <2>2, <2>3 DEF InRemoval
    <3> QED BY <1>1, <2>2, <3>1 DEF InJob, Edited
  <2>5. SoleCopy(a)' BY <2>4 DEF SoleCopy
  <2>6. Protected(a)' BY <1>1, <2>1, <2>2, <2>4 DEF Protected, Placed
  <2>7. record[a].node = removal[r].target BY <1>5, <2>2 DEF Record
  <2>8. \A q \in Removals : a \in removal'[q].moved => Left(q, a)' BY <1>1, <1>6, <2>2, <2>3, <2>4, <2>7 DEF Left
  <2>9. Package(a) => Package(a)'
    <3>1. ASSUME NEW q \in Removals, removal'[q].at = "save", a = Subject(q)' PROVE FALSE
      <4>1. q # r BY <2>3, <3>1
      <4>2. removal[q].at = "save" /\ a = Subject(q) BY <1>4, <3>1, <4>1 DEF Subject
      <4> QED BY <2>2, <4>1, <4>2
    <3>2. disk'[record[a].node] = disk[record[a].node] BY <1>6, <1>7, <1>8, <2>7
    <3>3. ~(upload # None /\ upload.archive = a) BY <1>5 DEF Waiting
    <3> QED BY <1>1, <3>1, <3>2, <3>3 DEF Package
  <2>10. OwnName(a)' = OwnName(a) BY <1>1 DEF OwnName
  <2> QED BY <1>1, <2>1, <2>2, <2>5, <2>6, <2>8, <2>9, <2>10 DEF Placed
<1> QED BY <1>4, <1>9, <1>10, <1>11, <1>12, <1>13, Frame

LEMMA RemovalOrdersKeeps == ASSUME PInv, NEW r \in Removals, RemovalOrders(r) PROVE PInv'
<1>0. PICK a, l : a = Subject(r) /\ l = removal[r].list OBVIOUS
<1>1. /\ removal[r].at = "order" /\ l # Empty /\ Cleans(removal[r].origin, FileOf[a])
      /\ deleting' = deleting \cup {a} /\ removal' = [removal EXCEPT ![r].at = "record"]
      /\ UNCHANGED <<record, node, uploaded, upload, edit, job, asked, alone, events>>
  BY <1>0 DEF RemovalOrders, Working
<1>2. Types BY DEF PInv
<1>3. removal' = [removal EXCEPT ![r] = After(r, "record", l, removal[r].moved)] BY <1>0, <1>1, <1>2, AfterIs
<1>4. /\ removal' \in [Removals -> Removing] /\ AtWork'
      /\ \A q \in Removals : DOMAIN removal'[q].list \cup removal'[q].moved \subseteq 1..uploaded'
      /\ removal'[r] = After(r, "record", l, removal[r].moved)
      /\ \A q \in Removals \ {r} : removal'[q] = removal[q]
      /\ \A b \in Archives : b # a => \A q \in Removals : RemovalQuiet(q, b)
  <2>1. Continues(r, "record", l, removal[r].moved) BY <1>0, <1>1, <1>3 DEF Continues
  <2> QED BY <1>0, <2>1, RemovalContinues
<1>5. a \in Archives /\ a \in 1..uploaded /\ ~Waiting(a) BY <1>0, <1>1, SubjectFacts
<1>6. removal[r].origin \in Workers BY <1>1 DEF PInv, AtWork
<1>7. PICK v \in Workers : v = removal[r].origin BY <1>6
<1>8. disk' \in [Workers -> SUBSET Files] /\ \A b \in Archives : b # a => DiskQuiet(b)
  BY <1>1, <1>2, <1>5, <1>7, CleansFacts
<1>9. Types'
  <2>1. asked' \cup deleting' \subseteq 1..uploaded' BY <1>1, <1>2, <1>5 DEF Types, TypeOK
  <2> QED BY <1>1, <1>2, <1>4, <1>8, <2>1 DEF Types, TypeOK, Job
<1>10. Ordered' BY <1>1, EmptyStays DEF PInv, Ordered
<1>11. ASSUME NEW b \in Archives, b # a PROVE Quiet(b) BY <1>1, <1>4, <1>8, <1>11, SameQuiet DEF Quiet
<1>12. ~Waiting(a)' BY <1>1, <1>5 DEF Waiting
<1>13. Placed(a)'
  <2> SUFFICES ASSUME a \in alone' PROVE Placed(a)' BY DEF Placed
  <2>1. a \in alone BY <1>1
  <2>2. /\ InRemoval(a) = {r} /\ InJob(a) = {} /\ ~Edited(a) /\ Placed(a) /\ record[a] = l[a]
        /\ \A q \in Removals : a \in removal[q].moved => q = r
    <3>1. removal[r].list # Empty /\ removal[r].at # "clean" BY <1>0, <1>1
    <3>2. /\ InRemoval(a) = {r} /\ InJob(a) = {} /\ ~Edited(a) /\ Placed(a)
          /\ record[a] = IF removal[r].at = "clean" THEN [removal[r].list[a] EXCEPT !.node = removal[r].target]
                                                    ELSE removal[r].list[a]
          /\ \A q \in Removals : a \in removal[q].moved => q = r
      BY <1>0, <2>1, <3>1, SoleSubject
    <3> QED BY <1>0, <3>1, <3>2
  <2>3. /\ removal'[r].at = "record"
        /\ \A q \in Removals : removal'[q].moved = removal[q].moved /\ removal'[q].list = removal[q].list
    BY <1>0, <1>4 DEF After
  <2>4. InRemoval(a)' = {r} /\ InJob(a)' = {} /\ ~Edited(a)' BY <1>1, <2>2, <2>3 DEF InRemoval, InJob, Edited
  <2>5. SoleCopy(a)' BY <1>0, <1>1, <2>2, <2>3, <2>4 DEF SoleCopy, Moving
  <2>6. Protected(a)' BY <1>1, <2>1, <2>2, <2>4 DEF Protected, Placed
  <2>7. \A q \in Removals : a \in removal'[q].moved => Left(q, a)'
    <3>1. a \in DOMAIN removal'[r].list BY <2>4 DEF InRemoval
    <3> QED BY <2>2, <2>3, <2>4, <3>1 DEF Left
  <2> QED BY <1>1, <2>5, <2>6, <2>7 DEF Placed
<1> QED BY <1>4, <1>9, <1>10, <1>11, <1>12, <1>13, Frame

LEMMA RemovalDeletesKeeps == ASSUME PInv, NEW r \in Removals, RemovalDeletes(r) PROVE PInv'
<1>0. PICK a, l : a = Subject(r) /\ l = removal[r].list OBVIOUS
<1>1. /\ removal[r].at = "record" /\ l # Empty /\ record' = [record EXCEPT ![a] = None]
      /\ removal' = [removal EXCEPT ![r].at = "order", ![r].list = Rest(@)]
      /\ UNCHANGED <<disk, node, uploaded, upload, edit, job, asked, alone, deleting, events>>
  BY <1>0 DEF RemovalDeletes, Working
<1>2. Types BY DEF PInv
<1>3. removal' = [removal EXCEPT ![r] = After(r, "order", Rest(l), removal[r].moved)]
  <2>1. PICK n : n = [removal[r] EXCEPT !.at = "order"] OBVIOUS
  <2>2. n = After(r, "order", l, removal[r].moved) BY <1>0, <1>2, <2>1, AfterIs
  <2>3. removal' = [removal EXCEPT ![r] = [n EXCEPT !.list = Rest(@)]] BY <1>1, <1>2, <2>1 DEF Types
  <2>4. [n EXCEPT !.list = Rest(@)] = After(r, "order", Rest(l), removal[r].moved) BY <2>2 DEF After
  <2> QED BY <2>3, <2>4
<1>4. /\ removal' \in [Removals -> Removing] /\ AtWork'
      /\ \A q \in Removals : DOMAIN removal'[q].list \cup removal'[q].moved \subseteq 1..uploaded'
      /\ removal'[r] = After(r, "order", Rest(l), removal[r].moved)
      /\ \A q \in Removals \ {r} : removal'[q] = removal[q]
      /\ \A b \in Archives : b # a => \A q \in Removals : RemovalQuiet(q, b)
  <2>1. Continues(r, "order", Rest(l), removal[r].moved) BY <1>0, <1>1, <1>3 DEF Continues
  <2> QED BY <1>0, <2>1, RemovalContinues
<1>5. a \in Archives /\ ~Waiting(a) /\ DOMAIN Rest(l) = DOMAIN l \ {a} BY <1>0, <1>1, SubjectFacts
<1>6. a \in deleting BY <1>0, <1>1 DEF PInv, AtWork
<1>7. record'[a] = None /\ \A b \in Archives \ {a} : record'[b] = record[b] BY <1>1, <1>2, <1>5 DEF Types, TypeOK
<1>8. Types'
  <2>1. record' \in [Archives -> Record \cup {None}] BY <1>1, <1>2 DEF Types, TypeOK
  <2> QED BY <1>1, <1>2, <1>4, <2>1 DEF Types, TypeOK, Job
<1>9. Ordered' BY <1>1, EmptyStays DEF PInv, Ordered
<1>10. ASSUME NEW b \in Archives, b # a PROVE Quiet(b) BY <1>1, <1>4, <1>7, <1>10, SameQuiet DEF Quiet
<1>11. ~Waiting(a)' BY <1>1, <1>5 DEF Waiting
<1>12. Placed(a)'
  <2> SUFFICES ASSUME a \in alone' PROVE Placed(a)' BY DEF Placed
  <2>1. a \in alone BY <1>1
  <2>2. /\ InRemoval(a) = {r} /\ InJob(a) = {} /\ ~Edited(a) /\ Placed(a)
        /\ \A q \in Removals : a \in removal[q].moved => q = r
    BY <1>0, <1>1, <2>1, SoleSubject
  <2>3. removal'[r].list = Rest(l) /\ \A q \in Removals : removal'[q].moved = removal[q].moved BY <1>4 DEF After
  <2>4. InRemoval(a)' = {} /\ InJob(a)' = {} /\ ~Edited(a)'
    <3>1. InRemoval(a)' = {} BY <1>4, <1>5, <2>2, <2>3 DEF InRemoval
    <3> QED BY <1>1, <2>2, <3>1 DEF InJob, Edited
  <2>5. SoleCopy(a)' BY <2>4 DEF SoleCopy
  <2>6. Protected(a)' BY <1>7, <2>4 DEF Protected
  <2>7. \A q \in Removals : a \in removal'[q].moved => Left(q, a)' BY <1>7, <2>4 DEF Left
  <2> QED BY <1>1, <1>6, <2>5, <2>6, <2>7 DEF Placed
<1> QED BY <1>4, <1>8, <1>9, <1>10, <1>11, <1>12, Frame

LEMMA RemovalEndsKeeps == ASSUME PInv, NEW r \in Removals, RemovalEnds(r) PROVE PInv'
<1>1. /\ removal[r].at \in {"copy", "order", "end"}
      /\ node' = [node EXCEPT ![removal[r].origin] = "gone"] /\ removal' = [removal EXCEPT ![r] = NoRemoval]
      /\ UNCHANGED <<record, disk, uploaded, upload, edit, job, asked, alone, deleting, events>>
  BY DEF RemovalEnds
<1>2. Types BY DEF PInv
<1>3. /\ removal' \in [Removals -> Removing] /\ removal'[r] = NoRemoval
      /\ \A q \in Removals \ {r} : removal'[q] = removal[q]
  BY <1>1, <1>2, IdleFacts, RemovalSet
<1>4. removal'[r].at = "idle" /\ DOMAIN removal'[r].list = {} /\ removal'[r].moved = {} BY <1>3, IdleFacts, EmptyFacts
<1>5. Types'
  <2>1. node' \in [Workers -> {"online", "offline", "gone"}] BY <1>1, <1>2 DEF Types, TypeOK
  <2>2. \A q \in Removals : DOMAIN removal'[q].list \cup removal'[q].moved \subseteq 1..uploaded'
    BY <1>1, <1>2, <1>3, <1>4 DEF Types, TypeOK
  <2>3. TypeOK' BY <1>1, <1>2, <2>1, <2>2 DEF Types, TypeOK
  <2> QED BY <1>1, <1>2, <1>3, <2>3 DEF Types, Job
<1>6. AtWork'
  <2>1. \A q \in Removals \ {r} : Subject(q)' = Subject(q) BY <1>3 DEF Subject
  <2> QED BY <1>1, <1>3, <1>4, <2>1, EmptyStays DEF PInv, AtWork
<1>7. Ordered' BY <1>1, EmptyStays DEF PInv, Ordered
<1>8. ASSUME NEW b \in Archives PROVE Quiet(b)
  <2>1. RemovalQuiet(r, b) BY <1>4 DEF RemovalQuiet
  <2>2. \A q \in Removals \ {r} : RemovalQuiet(q, b) BY <1>3, SameQuiet
  <2> QED BY <1>1, <2>1, <2>2, SameQuiet DEF Quiet
<1> QED BY <1>5, <1>6, <1>7, <1>8, Frame

\* A job takes copies of the records of S.
Begins(p, S, j) ==
    /\ S \subseteq Recorded /\ j \in Job(j) /\ j.list = Listing(S) /\ ~j.cleaned /\ j.at # "nodes"
    /\ p = "cycle" => j.spared = asked /\ \A a \in S : ~record[a].pinned
    /\ job' = [job EXCEPT ![p] = j] /\ alone' = alone \ {a \in S : Held(a)}
    /\ UNCHANGED <<record, disk, node, uploaded, upload, edit, removal, asked, deleting>>

LEMMA BeginsKeeps == ASSUME PInv, NEW p \in Jobs, NEW S, NEW j, Begins(p, S, j) PROVE PInv'
<1>1. /\ S \subseteq Recorded /\ j \in Job(j) /\ j.list = Listing(S) /\ ~j.cleaned /\ j.at # "nodes"
      /\ (p = "cycle" => j.spared = asked /\ \A a \in S : ~record[a].pinned)
      /\ job' = [job EXCEPT ![p] = j] /\ alone' = alone \ {a \in S : Held(a)}
      /\ UNCHANGED <<record, disk, node, uploaded, upload, edit, removal, asked, deleting>>
  BY DEF Begins
<1>2. Types /\ TypeOK BY DEF PInv, Types
<1>3. /\ DOMAIN Listing(S) = S /\ S \subseteq Archives /\ \A a \in S : record[a] \in Record /\ record[a] # None
  BY <1>1, <1>2, ListingFacts DEF Recorded
<1>4. \A a \in S : ~Waiting(a) /\ a \in 1..uploaded BY <1>3, HeldKnown
<1>5. /\ job' = [q \in Jobs |-> job'[q]] /\ \A q \in Jobs : job'[q] \in Job(job'[q])
      /\ job'[p] = j /\ \A q \in Jobs \ {p} : job'[q] = job[q]
  BY <1>1, <1>2, JobSet
<1>6. Types'
  <2>1. \A q \in DOMAIN job' : DOMAIN job'[q].list \subseteq 1..uploaded'
    <3>1. DOMAIN job = Jobs /\ DOMAIN job' = Jobs BY <1>2, <1>5 DEF Types
    <3> QED BY <1>1, <1>2, <1>3, <1>4, <1>5, <3>1 DEF TypeOK
  <2>2. alone' \subseteq Archives BY <1>1, <1>2 DEF TypeOK
  <2>3. TypeOK' BY <1>1, <1>2, <2>1, <2>2 DEF TypeOK
  <2> QED BY <1>1, <1>2, <1>5, <2>3 DEF Types
<1>7. AtWork' BY <1>1, EmptyStays DEF PInv, AtWork, Subject
<1>8. Ordered' BY <1>1, <1>5, EmptyStays DEF PInv, Ordered
<1>9. ASSUME NEW b \in Archives, b \notin S PROVE Quiet(b)
  <2>1. JobQuiet(p, b) BY <1>1, <1>3, <1>5, <1>9 DEF JobQuiet
  <2>2. \A q \in Jobs \ {p} : JobQuiet(q, b) BY <1>5, SameQuiet
  <2> QED BY <1>1, <1>9, <2>1, <2>2, SameQuiet DEF Quiet
<1>10. ASSUME NEW a \in S PROVE ~Waiting(a)' /\ Placed(a)'
  <2>1. ~Waiting(a)' BY <1>1, <1>4 DEF Waiting
  <2> SUFFICES ASSUME a \in alone' PROVE Placed(a)' BY <2>1 DEF Placed
  <2>2. a \in alone /\ ~Held(a) /\ a \in Archives BY <1>1, <1>3
  <2>3. InRemoval(a)' = {} /\ InRemoval(a) = {} /\ InJob(a) = {} /\ ~Edited(a)'
    <3>1. DOMAIN job = Jobs BY <1>2 DEF Types
    <3> QED BY <1>1, <2>2, <3>1 DEF InRemoval, InJob, Edited, Held
  <2>4. InJob(a)' = {p} BY <1>1, <1>3, <1>5, <2>3 DEF InJob
  <2>5. Placed(a) BY <2>2 DEF PInv
  <2>6. SoleCopy(a)' BY <2>3, <2>4 DEF SoleCopy
  <2>7. Protected(a)'
    <3>1. p = "cycle" => a \notin asked BY <1>1, <1>3, <2>2, <2>5 DEF Placed, Protected
    <3> QED BY <1>1, <1>5, <2>2, <2>4, <2>5, <3>1 DEF Placed, Protected
  <2>8. \A r \in Removals : a \in removal'[r].moved => Left(r, a)'
    BY <1>1, <2>2, <2>3, <2>5 DEF Left, Placed
  <2>9. Package(a)' = Package(a) /\ OwnName(a)' = OwnName(a) BY <1>1 DEF Package, OwnName, Subject
  <2> QED BY <1>1, <2>2, <2>5, <2>6, <2>7, <2>8, <2>9 DEF Placed
<1>11. \A b \in Archives : Quiet(b) \/ ((Waiting(b)' => Unknown(b)') /\ Placed(b)') BY <1>9, <1>10
<1> QED BY <1>6, <1>7, <1>8, <1>11, Frame

LEMMA CycleStartsKeeps == ASSUME PInv, NEW cutoff, CycleStarts(cutoff) PROVE PInv'
<1>0. PICK S, l, k : S = {a \in Recorded : ~Exempt(record[a]) /\ a <= cutoff} /\ l = Listing(S) /\ k = asked OBVIOUS
<1>1. PICK j : j = [Idle EXCEPT !.at = "ttl", !.list = l, !.spared = k] OBVIOUS
<1>2. /\ job' = [job EXCEPT !["cycle"] = j] /\ alone' = alone \ {a \in S : Held(a)}
      /\ UNCHANGED <<record, disk, node, uploaded, upload, edit, removal, asked, deleting>>
  BY <1>0, <1>1 DEF CycleStarts, Meet
<1>3. S \subseteq Recorded /\ \A a \in S : ~record[a].pinned BY <1>0 DEF Exempt
<1>4. TypeOK BY DEF PInv, Types
<1>5. l \in Lists /\ k \in SUBSET Archives
  <2>1. 1..uploaded \subseteq Archives BY <1>4, ArchivesAssumption DEF TypeOK, Archives
  <2> QED BY <1>0, <1>3, <1>4, <2>1, ListingFacts DEF TypeOK
<1>6. j \in Job(j) /\ j.list = l /\ ~j.cleaned /\ j.at # "nodes" /\ j.spared = k
  BY <1>1, <1>5, IdleFacts DEF Job
<1>7. Begins("cycle", S, j) BY <1>0, <1>2, <1>3, <1>6 DEF Begins
<1> QED BY <1>7, BeginsKeeps DEF Jobs

LEMMA UserDeletesKeeps == ASSUME PInv, NEW a \in Archives, UserDeletes(a) PROVE PInv'
<1>0. PICK l : l = Listing({a}) OBVIOUS
<1>1. PICK j : j = [Idle EXCEPT !.at = "ttl", !.list = l] OBVIOUS
<1>2. /\ record[a] # None /\ job' = [job EXCEPT !["user"] = j] /\ alone' = alone \ {x \in {a} : Held(x)}
      /\ UNCHANGED <<record, disk, node, uploaded, upload, edit, removal, asked, deleting>>
  BY <1>0, <1>1 DEF UserDeletes, Meet
<1>3. {a} \subseteq Recorded BY <1>2 DEF Recorded
<1>4. l \in Lists BY <1>0, <1>3, ListingFacts DEF PInv, Types
<1>5. j \in Job(j) /\ j.list = l /\ ~j.cleaned /\ j.at # "nodes" BY <1>1, <1>4, IdleFacts DEF Job
<1>6. Begins("user", {a}, j) BY <1>0, <1>2, <1>3, <1>5 DEF Begins
<1> QED BY <1>6, BeginsKeeps DEF Jobs

LEMMA CycleTakesNodeKeeps == ASSUME PInv, NEW w \in Workers, CycleTakesNode(w) PROVE PInv'
<1>0. PICK c, S, l, k : /\ c = job["cycle"] /\ S = {a \in On(w) : ~Exempt(record[a])}
                        /\ l = Listing(S) /\ k = asked
  OBVIOUS
<1>1. PICK f, u, n : /\ f = (c.fresh /\ \A a \in S : FileOf[a] \in disk[w] /\ <<w, FileOf[a]>> \notin cut) /\ u = c.nodes[w]
                     /\ n = Restrict(c.nodes, DOMAIN c.nodes \ {w})
  OBVIOUS
<1>2. PICK j : j = [c EXCEPT !.at = "emergency", !.list = l, !.used = u, !.node = w, !.old = S,
                             !.nodes = n, !.spared = k, !.fresh = f]
  OBVIOUS
<1>3. /\ c.at = "nodes" /\ job' = [job EXCEPT !["cycle"] = j] /\ alone' = alone \ {a \in S : Held(a)}
      /\ UNCHANGED <<record, disk, node, uploaded, upload, edit, removal, asked, deleting>>
  BY <1>0, <1>1, <1>2 DEF CycleTakesNode, Meet
<1>4. S \subseteq Recorded /\ \A a \in S : ~record[a].pinned BY <1>0 DEF Exempt, On
<1>5. TypeOK /\ c \in Job(c) BY <1>0 DEF PInv, Types, Jobs
<1>6. l \in Lists /\ k \in SUBSET Archives /\ S \in SUBSET Archives /\ f \in BOOLEAN
  <2>1. 1..uploaded \subseteq Archives BY <1>5, ArchivesAssumption DEF TypeOK, Archives
  <2> QED BY <1>0, <1>1, <1>4, <1>5, <2>1, ListingFacts DEF TypeOK
<1>7. ~c.cleaned BY <1>0, <1>3 DEF PInv, Ordered, Jobs
<1>8. j \in Job(j) /\ j.list = l /\ ~j.cleaned /\ j.at # "nodes" /\ j.spared = k
  BY <1>2, <1>5, <1>6, <1>7 DEF Job
<1>9. Begins("cycle", S, j) BY <1>0, <1>3, <1>4, <1>8 DEF Begins
<1> QED BY <1>9, BeginsKeeps DEF Jobs

\* A job goes on with its list, or is done with some of it.
GoesOn(p, j) ==
    /\ j \in Job(j) /\ job' = [job EXCEPT ![p] = j] /\ uploaded' = uploaded
    /\ j.list = Empty \/ (j.list = job[p].list /\ j.spared = job[p].spared)
                      \/ (job[p].list # Empty /\ j.list = Rest(job[p].list) /\ j.spared = job[p].spared)

LEMMA GoesOnFacts ==
    ASSUME PInv, NEW p \in Jobs, NEW j, GoesOn(p, j)
    PROVE  /\ job' = [q \in Jobs |-> job'[q]] /\ \A q \in Jobs : job'[q] \in Job(job'[q])
           /\ job'[p] = j /\ \A q \in Jobs \ {p} : job'[q] = job[q]
           /\ \A q \in DOMAIN job' : DOMAIN job'[q].list \subseteq 1..uploaded'
           /\ \A b, q \in Jobs : b \in DOMAIN job'[q].list => b \in DOMAIN job[q].list
           /\ \A b : \A q \in Jobs : JobQuiet(q, b)
<1>1. /\ j \in Job(j) /\ job' = [job EXCEPT ![p] = j] /\ uploaded' = uploaded
      /\ j.list = Empty \/ (j.list = job[p].list /\ j.spared = job[p].spared)
                        \/ (job[p].list # Empty /\ j.list = Rest(job[p].list) /\ j.spared = job[p].spared)
  BY DEF GoesOn
<1>2. Types BY DEF PInv
<1>3. /\ job' = [q \in Jobs |-> job'[q]] /\ \A q \in Jobs : job'[q] \in Job(job'[q])
      /\ job'[p] = j /\ \A q \in Jobs \ {p} : job'[q] = job[q]
  BY <1>1, <1>2, JobSet
<1>4. job[p].list \in Lists BY <1>2 DEF Types, Job
<1>5. DOMAIN j.list \subseteq DOMAIN job[p].list BY <1>1, <1>4, ListFacts, EmptyFacts
<1>6. DOMAIN j.list # {} => j.spared = job[p].spared BY <1>1, EmptyFacts
<1>7. \A b : \A q \in Jobs : JobQuiet(q, b) BY <1>3, <1>5, <1>6 DEF JobQuiet
<1>8. \A q \in DOMAIN job' : DOMAIN job'[q].list \subseteq 1..uploaded'
  <2>1. DOMAIN job = Jobs /\ DOMAIN job' = Jobs BY <1>2, <1>3 DEF Types
  <2> QED BY <1>1, <1>2, <1>3, <1>5, <2>1 DEF Types, TypeOK
<1>9. \A b, q \in Jobs : b \in DOMAIN job'[q].list => b \in DOMAIN job[q].list BY <1>3, <1>5
<1> QED BY <1>3, <1>7, <1>8, <1>9

LEMMA JobSubject ==
    ASSUME PInv, NEW p \in Jobs, job[p].list # Empty
    PROVE  LET l == job[p].list a == First(l) IN
           /\ l \in Lists /\ a \in DOMAIN l /\ a \in Archives /\ a \in 1..uploaded /\ ~Waiting(a) /\ FileOf[a] \in Files
           /\ l[a].node \in Workers /\ Rest(l) \in Lists /\ DOMAIN Rest(l) = DOMAIN l \ {a}
<1>0. PICK l, a : l = job[p].list /\ a = First(l) OBVIOUS
<1>1. l \in Lists BY <1>0 DEF PInv, Types, Job
<1>2. a \in DOMAIN l /\ a \in Archives /\ l[a] \in Record /\ Rest(l) \in Lists /\ DOMAIN Rest(l) = DOMAIN l \ {a}
  BY <1>0, <1>1, ListFacts
<1>3. Held(a)
  <2>1. DOMAIN job = Jobs BY DEF PInv, Types
  <2> QED BY <1>0, <1>2, <2>1 DEF Held
<1>4. ~Waiting(a) /\ a \in 1..uploaded BY <1>2, <1>3, HeldKnown
<1> QED BY <1>0, <1>1, <1>2, <1>4 DEF Record, Files

\* An archive being deleted of which one job had a copy at a time is its business alone.
LEMMA SoleJob ==
    ASSUME PInv, NEW p \in Jobs, NEW a \in DOMAIN job[p].list, a \in alone, a \in Archives
    PROVE  InJob(a) = {p} /\ InRemoval(a) = {} /\ ~Edited(a) /\ Placed(a)
<1>1. p \in InJob(a) BY DEF InJob
<1>2. Placed(a) BY DEF PInv
<1> QED BY <1>1, <1>2 DEF Placed, SoleCopy, InJob

LEMMA JobOrdersKeeps == ASSUME PInv, NEW p \in Jobs, JobOrders(p) PROVE PInv'
<1>0. PICK c, a, v : c = job[p] /\ a = First(c.list) /\ v = c.list[a].node OBVIOUS
<1>1. /\ c.list # Empty /\ deleting' = deleting \cup {a}
      /\ UNCHANGED <<record, node, uploaded, upload, edit, removal, asked, alone, events>>
  BY <1>0 DEF JobOrders
<1>2. Types BY DEF PInv
<1>3. a \in Archives /\ a \in 1..uploaded /\ ~Waiting(a) /\ v \in Workers BY <1>0, <1>1, JobSubject
<1>4. c \in Job(c) BY <1>0, <1>2 DEF Types
<1>5. PICK j : /\ job' = [job EXCEPT ![p] = j] /\ j \in Job(j) /\ j.list = c.list /\ j.spared = c.spared /\ j.at = c.at
  <2>1. CASE job' = [job EXCEPT ![p].cleaned = TRUE]
    <3>1. PICK j : j = [c EXCEPT !.cleaned = TRUE] OBVIOUS
    <3>2. job' = [job EXCEPT ![p] = j] BY <1>0, <2>1, <3>1
    <3>3. j \in Job(j) /\ j.list = c.list /\ j.spared = c.spared /\ j.at = c.at BY <1>4, <3>1 DEF Job
    <3> QED BY <3>2, <3>3
  <2>2. CASE job' = [job EXCEPT ![p].cleaned = TRUE, ![p].fresh = FALSE]
    <3>1. PICK j : j = [c EXCEPT !.cleaned = TRUE, !.fresh = FALSE] OBVIOUS
    <3>2. job' = [job EXCEPT ![p] = j] BY <1>0, <1>2, <2>2, <3>1 DEF Types
    <3>3. j \in Job(j) /\ j.list = c.list /\ j.spared = c.spared /\ j.at = c.at BY <1>4, <3>1 DEF Job
    <3> QED BY <3>2, <3>3
  <2> QED BY <2>1, <2>2 DEF JobOrders
<1>6. /\ job' = [q \in Jobs |-> job'[q]] /\ \A q \in Jobs : job'[q] \in Job(job'[q])
      /\ job'[p] = j /\ \A q \in Jobs \ {p} : job'[q] = job[q]
      /\ \A q \in DOMAIN job' : DOMAIN job'[q].list \subseteq 1..uploaded'
      /\ \A b : \A q \in Jobs : JobQuiet(q, b)
  <2>1. GoesOn(p, j) BY <1>0, <1>1, <1>5 DEF GoesOn
  <2> QED BY <2>1, GoesOnFacts
<1>7. /\ disk' \in [Workers -> SUBSET Files] /\ \A b \in Archives : b # a => DiskQuiet(b)
  <2>1. Cleans(v, FileOf[a]) BY <1>0 DEF JobOrders, Cleans
  <2> QED BY <1>2, <1>3, <2>1, CleansFacts
<1>8. Types'
  <2>1. asked' \cup deleting' \subseteq 1..uploaded' BY <1>1, <1>2, <1>3 DEF Types, TypeOK
  <2>2. TypeOK' BY <1>1, <1>2, <1>6, <1>7, <2>1 DEF Types, TypeOK
  <2> QED BY <1>1, <1>2, <1>6, <2>2 DEF Types
<1>9. AtWork' BY <1>1, EmptyStays DEF PInv, AtWork, Subject
<1>10. Ordered' BY <1>0, <1>1, <1>5, <1>6, EmptyStays DEF PInv, Ordered
<1>11. ASSUME NEW b \in Archives, b # a PROVE Quiet(b) BY <1>1, <1>6, <1>7, <1>11, SameQuiet DEF Quiet
<1>12. ~Waiting(a)' BY <1>1, <1>3 DEF Waiting
<1>13. Placed(a)'
  <2> SUFFICES ASSUME a \in alone' PROVE Placed(a)' BY DEF Placed
  <2>1. /\ InJob(a) = {p} /\ InRemoval(a) = {} /\ ~Edited(a) /\ Placed(a)
    <3>1. a \in DOMAIN job[p].list BY <1>0, <1>1, JobSubject
    <3> QED BY <1>1, <1>3, <3>1, SoleJob
  <2>2. InJob(a)' = {p} /\ InRemoval(a)' = {} /\ ~Edited(a)'
    <3>1. InJob(a)' = InJob(a) BY <1>0, <1>5, <1>6 DEF InJob
    <3> QED BY <1>1, <2>1, <3>1 DEF InRemoval, Edited
  <2>3. SoleCopy(a)' BY <2>2 DEF SoleCopy
  <2>4. Protected(a)' BY <1>0, <1>1, <1>5, <1>6, <2>1, <2>2 DEF Protected, Placed
  <2>5. \A r \in Removals : a \in removal'[r].moved => Left(r, a)' BY <1>1, <2>1, <2>2 DEF Left, Placed
  <2> QED BY <1>1, <2>3, <2>4, <2>5 DEF Placed
<1> QED BY <1>3, <1>8, <1>9, <1>10, <1>11, <1>12, <1>13, Frame

LEMMA JobDeletesKeeps == ASSUME PInv, NEW p \in Jobs, JobDeletes(p) PROVE PInv'
<1>0. PICK c, a, l : c = job[p] /\ a = First(c.list) /\ l = Rest(c.list) OBVIOUS
<1>1. PICK u : u = IF record[a] = None THEN c.used ELSE IF c.used - SizeMB[a] < 0 THEN 0 ELSE c.used - SizeMB[a]
  OBVIOUS
<1>2. PICK j : j = [c EXCEPT !.list = l, !.cleaned = FALSE, !.used = u] OBVIOUS
<1>3. Types BY DEF PInv
<1>4. /\ c.list # Empty /\ c.cleaned /\ record' = [record EXCEPT ![a] = None]
      /\ job' = [job EXCEPT ![p] = j]
      /\ UNCHANGED <<disk, node, uploaded, upload, edit, removal, asked, alone, deleting, events>>
  <2>1. /\ c.list # Empty /\ c.cleaned /\ record' = [record EXCEPT ![a] = None]
        /\ job' = [job EXCEPT ![p].list = l, ![p].cleaned = FALSE, ![p].used = u]
        /\ UNCHANGED <<disk, node, uploaded, upload, edit, removal, asked, alone, deleting, events>>
    BY <1>0, <1>1, <1>3 DEF JobDeletes, Types, Job
  <2>2. job' = [job EXCEPT ![p] = j] BY <1>0, <1>2, <1>3, <2>1 DEF Types
  <2> QED BY <2>1, <2>2
<1>5. a \in Archives /\ a \in DOMAIN c.list /\ ~Waiting(a) /\ l \in Lists /\ DOMAIN l = DOMAIN c.list \ {a}
  BY <1>0, <1>4, JobSubject
<1>6. a \in deleting BY <1>0, <1>4 DEF PInv, Ordered
<1>7. c \in Job(c) BY <1>0, <1>3 DEF Types
<1>8. j \in Job(j) /\ j.list = l /\ j.spared = c.spared /\ ~j.cleaned /\ j.at = c.at BY <1>2, <1>5, <1>7 DEF Job
<1>9. /\ job' = [q \in Jobs |-> job'[q]] /\ \A q \in Jobs : job'[q] \in Job(job'[q])
      /\ job'[p] = j /\ \A q \in Jobs \ {p} : job'[q] = job[q]
      /\ \A q \in DOMAIN job' : DOMAIN job'[q].list \subseteq 1..uploaded'
      /\ \A b : \A q \in Jobs : JobQuiet(q, b)
  <2>1. GoesOn(p, j) BY <1>0, <1>4, <1>8 DEF GoesOn
  <2> QED BY <2>1, GoesOnFacts
<1>10. record'[a] = None /\ \A b \in Archives \ {a} : record'[b] = record[b] BY <1>3, <1>4, <1>5 DEF Types, TypeOK
<1>11. Types'
  <2>1. record' \in [Archives -> Record \cup {None}] BY <1>3, <1>4 DEF Types, TypeOK
  <2>2. TypeOK' BY <1>3, <1>4, <1>9, <2>1 DEF Types, TypeOK
  <2> QED BY <1>3, <1>4, <1>9, <2>2 DEF Types
<1>12. AtWork' BY <1>4, EmptyStays DEF PInv, AtWork, Subject
<1>13. Ordered'
  <2>1. c.at # "nodes" BY <1>0, <1>4 DEF PInv, Ordered
  <2> QED BY <1>4, <1>8, <1>9, <2>1, EmptyStays DEF PInv, Ordered
<1>14. ASSUME NEW b \in Archives, b # a PROVE Quiet(b) BY <1>4, <1>9, <1>10, <1>14, SameQuiet DEF Quiet
<1>15. ~Waiting(a)' BY <1>4, <1>5 DEF Waiting
<1>16. Placed(a)'
  <2> SUFFICES ASSUME a \in alone' PROVE Placed(a)' BY DEF Placed
  <2>1. InJob(a) = {p} /\ InRemoval(a) = {} /\ ~Edited(a) /\ Placed(a) BY <1>0, <1>4, <1>5, SoleJob
  <2>2. InJob(a)' = {} /\ InRemoval(a)' = {} /\ ~Edited(a)'
    <3>1. InJob(a)' = {} BY <1>5, <1>8, <1>9, <2>1 DEF InJob
    <3> QED BY <1>4, <2>1, <3>1 DEF InRemoval, Edited
  <2>3. SoleCopy(a)' BY <2>2 DEF SoleCopy
  <2>4. Protected(a)' BY <1>10, <2>2 DEF Protected
  <2>5. \A r \in Removals : a \in removal'[r].moved => Left(r, a)' BY <1>10, <2>2 DEF Left
  <2> QED BY <1>4, <1>6, <2>3, <2>4, <2>5 DEF Placed
<1> QED BY <1>5, <1>11, <1>12, <1>13, <1>14, <1>15, <1>16, Frame

\* Nothing happens to archives when a job only moves on.
LEMMA JobMovesKeeps ==
    ASSUME PInv, NEW p \in Jobs, NEW j, GoesOn(p, j), ~j.cleaned, j.list = Empty,
           UNCHANGED <<record, disk, node, uploaded, upload, edit, removal, asked, alone, deleting, events>>
    PROVE  PInv'
<1>1. Types BY DEF PInv
<1>2. /\ job' = [q \in Jobs |-> job'[q]] /\ \A q \in Jobs : job'[q] \in Job(job'[q])
      /\ job'[p] = j /\ \A q \in Jobs \ {p} : job'[q] = job[q]
      /\ \A q \in DOMAIN job' : DOMAIN job'[q].list \subseteq 1..uploaded'
      /\ \A b : \A q \in Jobs : JobQuiet(q, b)
  BY GoesOnFacts
<1>3. Types'
  <2>1. TypeOK' BY <1>1, <1>2 DEF Types, TypeOK
  <2> QED BY <1>1, <1>2, <2>1 DEF Types
<1>4. AtWork' BY EmptyStays DEF PInv, AtWork, Subject
<1>5. Ordered' BY <1>2, EmptyStays DEF PInv, Ordered
<1>6. ASSUME NEW b \in Archives PROVE Quiet(b) BY <1>2, SameQuiet DEF Quiet
<1> QED BY <1>3, <1>4, <1>5, <1>6, Frame

LEMMA CycleListsNodesKeeps == ASSUME PInv, CycleListsNodes PROVE PInv'
<1>0. PICK c : c = job["cycle"] OBVIOUS
<1>1. /\ c.list = Empty
      /\ UNCHANGED <<record, disk, node, uploaded, upload, edit, removal, asked, alone, deleting, events>>
  BY <1>0 DEF CycleListsNodes
<1>2. PICK n, f : f \in BOOLEAN /\ job' = [job EXCEPT !["cycle"].at = "nodes", !["cycle"].nodes = n,
                                                    !["cycle"].spared = {}, !["cycle"].fresh = f]
  <2>1. PICK S, n : job' = [job EXCEPT !["cycle"].at = "nodes", !["cycle"].nodes = n,
                                       !["cycle"].spared = {}, !["cycle"].fresh = \A w \in S : n[w] >= Used(w)]
    BY DEF CycleListsNodes
  <2>2. PICK f : f = (\A w \in S : n[w] >= Used(w)) OBVIOUS
  <2>3. f \in BOOLEAN BY <2>2
  <2> QED BY <2>1, <2>2, <2>3
<1>3. PICK j : j = [c EXCEPT !.at = "nodes", !.nodes = n, !.spared = {}, !.fresh = f] OBVIOUS
<1>4. job' = [job EXCEPT !["cycle"] = j] BY <1>0, <1>2, <1>3 DEF PInv, Types, Jobs
<1>5. c \in Job(c) BY <1>0 DEF PInv, Types, Jobs
<1>6. j \in Job(j) /\ j.list = Empty /\ j.cleaned = c.cleaned BY <1>1, <1>2, <1>3, <1>5 DEF Job
<1>7. ~c.cleaned BY <1>0, <1>1 DEF PInv, Ordered, Jobs
<1>8. GoesOn("cycle", j) BY <1>1, <1>4, <1>6 DEF GoesOn
<1> QED BY <1>1, <1>6, <1>7, <1>8, JobMovesKeeps DEF Jobs

LEMMA CycleLeavesNodeKeeps == ASSUME PInv, CycleLeavesNode PROVE PInv'
<1>0. PICK c : c = job["cycle"] OBVIOUS
<1>1. PICK e : e = Empty OBVIOUS
<1>2. PICK j : j = [c EXCEPT !.at = "nodes", !.list = e, !.node = None, !.old = {}, !.used = 0, !.spared = {}] OBVIOUS
<1>3. /\ c.list = Empty \/ ~c.cleaned
      /\ job' = [job EXCEPT !["cycle"] = j]
      /\ UNCHANGED <<record, disk, node, uploaded, upload, edit, removal, asked, alone, deleting, events>>
  BY <1>0, <1>1, <1>2 DEF CycleLeavesNode
<1>4. c \in Job(c) BY <1>0 DEF PInv, Types, Jobs
<1>5. j \in Job(j) /\ j.list = Empty /\ j.cleaned = c.cleaned BY <1>1, <1>2, <1>4, EmptyFacts DEF Job
<1>6. ~c.cleaned BY <1>0, <1>3 DEF PInv, Ordered, Jobs
<1>7. GoesOn("cycle", j) BY <1>3, <1>5 DEF GoesOn
<1> QED BY <1>3, <1>5, <1>6, <1>7, JobMovesKeeps DEF Jobs

LEMMA JobEndsKeeps == ASSUME PInv, NEW p \in Jobs, JobEnds(p) PROVE PInv'
<1>1. /\ job' = [job EXCEPT ![p] = Idle]
      /\ UNCHANGED <<record, disk, node, uploaded, upload, edit, removal, asked, alone, deleting, events>>
  BY DEF JobEnds
<1>2. GoesOn(p, Idle) BY <1>1, IdleFacts DEF GoesOn
<1> QED BY <1>1, <1>2, IdleFacts, JobMovesKeeps

LEMMA NextPlaced == PInv /\ [Next]_vars => PInv'
<1> SUFFICES ASSUME PInv, [Next]_vars PROVE PInv' OBVIOUS
<1>1. ASSUME NEW w \in Workers, WorkerStep(w) PROVE PInv'
  BY <1>1, MarksKeep, UploadStoresKeeps DEF WorkerStep
<1>2. CASE UploadSaves BY <1>2, UploadSavesKeeps
<1>3. ASSUME NEW a \in Archives, EditReads(a) \/ \E pinned \in BOOLEAN : Pin(a, pinned) PROVE PInv'
  BY <1>3, EditReadsKeeps, PinKeeps
<1>4. CASE EditSaves BY <1>4, EditSavesKeeps
<1>5. ASSUME NEW r \in Removals, RemovalStep(r) PROVE PInv'
  BY <1>5, RemovalStartsKeeps, MigrateCopiesKeeps, MigrateSkipsKeeps, MigrateSavesKeeps, MigrateCleansKeeps,
     RemovalOrdersKeeps, RemovalDeletesKeeps, RemovalEndsKeeps DEF RemovalStep
<1>6. CASE JobStep
  <2>1. DOMAIN job = Jobs BY DEF PInv, Types
  <2>2. ASSUME NEW p \in Jobs, JobOrders(p) \/ JobDeletes(p) \/ JobEnds(p) PROVE PInv'
    BY <2>2, JobOrdersKeeps, JobDeletesKeeps, JobEndsKeeps
  <2>3. ASSUME NEW a \in Archives, UserDeletes(a) PROVE PInv' BY <2>3, UserDeletesKeeps
  <2>4. ASSUME NEW w \in Workers, CycleTakesNode(w) PROVE PInv' BY <2>4, CycleTakesNodeKeeps
  <2>5. ASSUME NEW cutoff, CycleStarts(cutoff) PROVE PInv' BY <2>5, CycleStartsKeeps
  <2>6. CASE CycleListsNodes BY <2>6, CycleListsNodesKeeps
  <2>7. CASE CycleLeavesNode BY <2>7, CycleLeavesNodeKeeps
  <2> QED BY <1>6, <2>1, <2>2, <2>3, <2>4, <2>5, <2>6, <2>7 DEF JobStep
<1>7. CASE UNCHANGED vars
  <2>1. UNCHANGED <<record, disk, uploaded, upload, edit, removal, job, asked, alone, deleting>> /\ node' = node
    BY <1>7 DEF vars
  <2>2. Types' BY <2>1 DEF PInv, Types, TypeOK, Job
  <2> QED BY <2>1, <2>2, NodeKeeps
<1> QED BY <1>1, <1>2, <1>3, <1>4, <1>5, <1>6, <1>7 DEF Next

-----------------------------------------------------------------------------
(* Packages: what is where the record points is whole *)

\* The copy that the record stands for, or will, is whole unless a write of the
\* file was cut unseen.
Whole(a) ==
    a \in alone /\ a \notin deleting /\ OwnName(a) =>
        /\ record[a] # None => Intact(record[a].node, FileOf[a])
        /\ upload # None /\ upload.archive = a => Intact(upload.node, FileOf[a])
        /\ \A r \in Removals :
              removal[r].at = "save" /\ a = Subject(r) => Intact(removal[r].target, FileOf[a])
WholeInv == FlawsOK /\ \A a \in Archives : Whole(a)

\* A step that does no harm to the file and takes the record nowhere where it is
\* not whole.
LEMMA WholeStays ==
    ASSUME NEW b \in Archives,
           b \in alone' /\ b \notin deleting' /\ OwnName(b)' =>
              /\ \A w : Intact(w, FileOf[b]) => Intact(w, FileOf[b])'
              /\ record'[b] # None => Intact(record'[b].node, FileOf[b])
              /\ upload' # None /\ upload'.archive = b => Intact(upload'.node, FileOf[b])
              /\ \A r \in Removals :
                    removal'[r].at = "save" /\ b = Subject(r)' => Intact(removal'[r].target, FileOf[b])
    PROVE  Whole(b)'
BY DEF Whole, Intact

\* The steps that only take files from disks, if that.
Shrinks == torn' = torn /\ cut' \subseteq cut

LEMMA ShrinksFacts ==
    ASSUME Shrinks
    PROVE  \A w : \A f : Intact(w, f) => Intact(w, f)'
BY DEF Shrinks, Intact

LEMMA SubjectStays ==
    ASSUME NEW r, removal'[r].list = removal[r].list
    PROVE  Subject(r)' = Subject(r)
BY DEF Subject, First

\* A step that leaves the record and its copies where they are.
RemovalSteady(r, b) ==
    removal'[r].at = "save" /\ b = Subject(r)' =>
        removal[r].at = "save" /\ b = Subject(r) /\ removal'[r].target = removal[r].target
Later(b) == (b \in alone' => b \in alone) /\ (b \notin deleting' => b \notin deleting) /\ (OwnName(b)' => OwnName(b))

LEMMA SteadyWhole ==
    ASSUME WholeInv, NEW b \in Archives, Later(b), Shrinks,
           record'[b] = None \/ (record[b] # None /\ record'[b].node = record[b].node),
           upload' = upload, \A r \in Removals : RemovalSteady(r, b)
    PROVE  Whole(b)'
<1> SUFFICES ASSUME b \in alone', b \notin deleting', OwnName(b)'
             PROVE  /\ \A w : Intact(w, FileOf[b]) => Intact(w, FileOf[b])'
                    /\ record'[b] # None => Intact(record'[b].node, FileOf[b])
                    /\ upload' # None /\ upload'.archive = b => Intact(upload'.node, FileOf[b])
                    /\ \A r \in Removals :
                          removal'[r].at = "save" /\ b = Subject(r)' => Intact(removal'[r].target, FileOf[b])
  BY WholeStays
<1>1. /\ record[b] # None => Intact(record[b].node, FileOf[b])
      /\ upload # None /\ upload.archive = b => Intact(upload.node, FileOf[b])
      /\ \A r \in Removals :
            removal[r].at = "save" /\ b = Subject(r) => Intact(removal[r].target, FileOf[b])
  BY DEF WholeInv, Whole, Later
<1> QED BY <1>1, ShrinksFacts DEF RemovalSteady

\* Nothing is forgotten.
LEMMA SameLater ==
    ASSUME NEW b, UNCHANGED uploaded, alone' \subseteq alone, deleting \subseteq deleting'
    PROVE  Later(b)
BY DEF Later, OwnName

LEMMA SameSteady ==
    ASSUME NEW b, NEW r, removal'[r].at = removal[r].at, removal'[r].list = removal[r].list,
           removal'[r].target = removal[r].target
    PROVE  RemovalSteady(r, b)
BY SubjectStays DEF RemovalSteady

LEMMA CleansShrinks ==
    ASSUME FlawsOK, NEW w, NEW f, Cleans(w, f) \/ Frees(w, f) \/ UNCHANGED <<disk, cut>>, torn' = torn
    PROVE  Shrinks /\ FlawsOK'
BY DEF Cleans, Frees, Shrinks, FlawsOK

LEMMA SameFlaws == ASSUME FlawsOK, UNCHANGED flaws PROVE Shrinks /\ FlawsOK'
BY DEF flaws, Shrinks, FlawsOK

\* Whatever does not touch a removal.
LEMMA ElsewhereWhole ==
    ASSUME PInv, WholeInv,
           \/ \E w \in Workers : MarkOnline(w) \/ MarkOffline(w)
           \/ \E a \in Archives : EditReads(a) \/ \E pinned \in BOOLEAN : Pin(a, pinned)
           \/ EditSaves \/ UploadSaves \/ UNCHANGED vars
    PROVE  WholeInv'
<1>1. UNCHANGED <<uploaded, flaws, removal, deleting>> /\ alone' \subseteq alone
  BY DEF MarkOnline, MarkOffline, EditReads, Pin, EditSaves, UploadSaves, Meet, vars
<1>2. Shrinks /\ FlawsOK' BY <1>1, SameFlaws DEF WholeInv
<1>3. ASSUME NEW b \in Archives PROVE Later(b) /\ \A r \in Removals : RemovalSteady(r, b)
  BY <1>1, SameLater, SameSteady
<1>4. record \in [Archives -> Record \cup {None}] BY DEF PInv, Types, TypeOK
<1>5. CASE \/ \E w \in Workers : MarkOnline(w) \/ MarkOffline(w)
           \/ \E a \in Archives : EditReads(a) \/ \E pinned \in BOOLEAN : Pin(a, pinned)
           \/ UNCHANGED vars
  <2>1. upload' = upload BY <1>5 DEF MarkOnline, MarkOffline, EditReads, Pin, vars
  <2>2. ASSUME NEW b \in Archives PROVE record'[b] = None \/ (record[b] # None /\ record'[b].node = record[b].node)
    <3>1. CASE record' = record BY <3>1
    <3>2. ASSUME NEW a \in Archives, NEW pinned \in BOOLEAN, Pin(a, pinned)
          PROVE  record'[b] = None \/ (record[b] # None /\ record'[b].node = record[b].node)
      <4>1. record[a] \in Record /\ record' = [record EXCEPT ![a] = [record[a] EXCEPT !.pinned = pinned]]
        BY <1>4, <3>2 DEF Pin
      <4>2. [record[a] EXCEPT !.pinned = pinned].node = record[a].node BY <4>1 DEF Record
      <4> QED BY <1>4, <3>2, <4>1, <4>2 DEF Pin
    <3> QED BY <1>5, <3>1, <3>2 DEF MarkOnline, MarkOffline, EditReads, vars
  <2>3. \A b \in Archives : Whole(b)' BY <1>2, <1>3, <2>1, <2>2, SteadyWhole
  <2> QED BY <1>2, <2>3 DEF WholeInv
<1>6. CASE EditSaves
  <2>1. /\ edit # None /\ record' = [record EXCEPT ![edit.archive] = edit.copy] /\ upload' = upload /\ alone' = alone
    BY <1>6 DEF EditSaves
  <2>2. ASSUME NEW b \in Archives, b \in alone' PROVE record'[b] = record[b]
    <3>1. CASE b = edit.archive
      <4>1. Edited(b) BY <2>1, <3>1 DEF Edited
      <4>2. record[b] = edit.copy BY <2>1, <2>2, <4>1 DEF PInv, Placed, SoleCopy
      <4> QED BY <1>4, <2>1, <3>1, <4>2
    <3>2. CASE b # edit.archive BY <2>1, <3>2
    <3> QED BY <3>1, <3>2
  <2>3. ASSUME NEW b \in Archives PROVE Whole(b)'
    <3>1. CASE b \in alone' BY <1>2, <1>3, <2>1, <2>2, <3>1, SteadyWhole
    <3>2. CASE b \notin alone' BY <3>2 DEF Whole
    <3> QED BY <3>1, <3>2
  <2> QED BY <1>2, <2>3 DEF WholeInv
<1>7. CASE UploadSaves
  <2>1. PICK n, v : n = upload.archive /\ v = upload.node OBVIOUS
  <2>2. /\ upload # None /\ record' = [record EXCEPT ![n] = [node |-> v, pinned |-> FALSE]]
        /\ upload' = None
    BY <1>7, <2>1 DEF UploadSaves
  <2>3. ASSUME NEW b \in Archives PROVE Whole(b)'
    <3>1. ASSUME b \in alone', b \notin deleting', OwnName(b)'
          PROVE  /\ record'[b] # None => Intact(record'[b].node, FileOf[b])
                 /\ \A r \in Removals :
                       removal'[r].at = "save" /\ b = Subject(r)' => Intact(removal'[r].target, FileOf[b])
      <4>1. /\ record[b] # None => Intact(record[b].node, FileOf[b])
            /\ upload # None /\ upload.archive = b => Intact(upload.node, FileOf[b])
            /\ \A r \in Removals :
                  removal[r].at = "save" /\ b = Subject(r) => Intact(removal[r].target, FileOf[b])
        BY <1>3, <3>1 DEF WholeInv, Whole, Later
      <4>2. record'[b] = IF b = n THEN [node |-> v, pinned |-> FALSE] ELSE record[b] BY <1>4, <2>2
      <4>3. [node |-> v, pinned |-> FALSE].node = v OBVIOUS
      <4>4. b = n => Intact(v, FileOf[b]) BY <2>1, <2>2, <4>1
      <4> QED BY <1>3, <4>1, <4>2, <4>3, <4>4 DEF RemovalSteady
    <3> QED BY <1>2, <2>2, <3>1, ShrinksFacts, WholeStays
  <2> QED BY <1>2, <2>3 DEF WholeInv
<1> QED BY <1>5, <1>6, <1>7

\* Of the jobs only an order to clean up and a deletion reach a file or a record.
LEMMA JobWhole == ASSUME PInv, WholeInv, JobStep PROVE WholeInv'
<1>1. UNCHANGED <<uploaded, upload, removal>> /\ alone' \subseteq alone /\ deleting \subseteq deleting'
  BY DEF JobStep, CycleStarts, CycleListsNodes, CycleLeavesNode, CycleTakesNode, UserDeletes, JobOrders, JobDeletes,
         JobEnds, Meet
<1>2. Shrinks /\ FlawsOK'
  <2>1. CASE \E p \in DOMAIN job : JobOrders(p)
    <3>1. PICK w, f : (Frees(w, f) \/ UNCHANGED <<disk, cut>>) /\ torn' = torn BY <2>1 DEF JobOrders
    <3> QED BY <3>1, CleansShrinks DEF WholeInv
  <2>2. CASE ~\E p \in DOMAIN job : JobOrders(p)
    <3>1. UNCHANGED flaws
      BY <2>2 DEF JobStep, CycleStarts, CycleListsNodes, CycleLeavesNode, CycleTakesNode, UserDeletes, JobDeletes, JobEnds
    <3> QED BY <3>1, SameFlaws DEF WholeInv
  <2> QED BY <2>1, <2>2
<1>3. ASSUME NEW b \in Archives PROVE record'[b] = None \/ (record[b] # None /\ record'[b].node = record[b].node)
  <2>1. record \in [Archives -> Record \cup {None}] BY DEF PInv, Types, TypeOK
  <2>2. CASE \E p \in DOMAIN job : JobDeletes(p)
    <3>1. PICK a : record' = [record EXCEPT ![a] = None] BY <2>2 DEF JobDeletes
    <3> QED BY <2>1, <3>1
  <2>3. CASE ~\E p \in DOMAIN job : JobDeletes(p)
    <3>1. record' = record
      BY <2>3 DEF JobStep, CycleStarts, CycleListsNodes, CycleLeavesNode, CycleTakesNode, UserDeletes, JobOrders, JobEnds
    <3> QED BY <3>1
  <2> QED BY <2>2, <2>3
<1>4. ASSUME NEW b \in Archives PROVE Whole(b)'
  <2>1. Later(b) /\ \A r \in Removals : RemovalSteady(r, b) BY <1>1, SameLater, SameSteady
  <2> QED BY <1>1, <1>2, <1>3, <2>1, SteadyWhole
<1> QED BY <1>2, <1>4 DEF WholeInv

\* A removal that begins or ends, and one with deletion.
LEMMA RemovalWhole ==
    ASSUME PInv, WholeInv, NEW r \in Removals,
           \/ \E w \in Workers, at \in {"copy", "order", "end"}, target \in Workers : RemovalStarts(r, w, at, target)
           \/ MigrateCleans(r) \/ RemovalOrders(r) \/ RemovalDeletes(r) \/ RemovalEnds(r)
    PROVE  WholeInv'
<1>0. /\ record \in [Archives -> Record \cup {None}] /\ removal \in [Removals -> Removing]
  BY DEF PInv, Types, TypeOK
<1>1. UNCHANGED <<uploaded, upload>> /\ alone' \subseteq alone /\ deleting \subseteq deleting'
  BY DEF RemovalStarts, MigrateCleans, RemovalOrders, RemovalDeletes, RemovalEnds, Meet
<1>2. Shrinks /\ FlawsOK'
  <2>1. CASE MigrateCleans(r) \/ RemovalOrders(r)
    <3>1. PICK w, f : Cleans(w, f) /\ torn' = torn BY <2>1 DEF MigrateCleans, RemovalOrders
    <3> QED BY <3>1, CleansShrinks DEF WholeInv
  <2>2. CASE ~(MigrateCleans(r) \/ RemovalOrders(r))
    <3>1. UNCHANGED flaws BY <2>2 DEF RemovalStarts, RemovalDeletes, RemovalEnds
    <3> QED BY <3>1, SameFlaws DEF WholeInv
  <2> QED BY <2>1, <2>2
<1>3. ASSUME NEW b \in Archives PROVE record'[b] = None \/ (record[b] # None /\ record'[b].node = record[b].node)
  <2>1. CASE RemovalDeletes(r)
    <3>1. PICK a : record' = [record EXCEPT ![a] = None] BY <2>1 DEF RemovalDeletes
    <3> QED BY <1>0, <3>1
  <2>2. CASE ~RemovalDeletes(r)
    <3>1. record' = record BY <2>2 DEF RemovalStarts, MigrateCleans, RemovalOrders, RemovalEnds
    <3> QED BY <3>1
  <2> QED BY <2>1, <2>2
<1>4. ASSUME NEW q \in Removals
      PROVE  \/ removal'[q].at # "save"
             \/ /\ removal'[q].at = removal[q].at /\ removal'[q].list = removal[q].list
                /\ removal'[q].target = removal[q].target
  <2>1. ASSUME NEW w \in Workers, NEW at \in {"copy", "order", "end"}, NEW target \in Workers,
               RemovalStarts(r, w, at, target)
        PROVE  \/ removal'[q].at # "save"
               \/ /\ removal'[q].at = removal[q].at /\ removal'[q].list = removal[q].list
                  /\ removal'[q].target = removal[q].target
    <3>1. PICK S, l : removal' = [x \in Removals |->
             IF x = r THEN [at |-> at, list |-> l, origin |-> w, target |-> target, moved |-> S]
                      ELSE [removal[x] EXCEPT !.moved = @ \ S]]
      BY <2>1 DEF RemovalStarts
    <3>2. CASE q = r
      <4>1. removal'[q] = [at |-> at, list |-> l, origin |-> w, target |-> target, moved |-> S] BY <3>1, <3>2
      <4> QED BY <4>1
    <3>3. CASE q # r
      <4>1. removal'[q] = [removal[q] EXCEPT !.moved = @ \ S] BY <3>1, <3>3
      <4> QED BY <1>0, <4>1 DEF Removing
    <3> QED BY <3>2, <3>3
  <2>2. ASSUME MigrateCleans(r) \/ RemovalOrders(r) \/ RemovalDeletes(r) \/ RemovalEnds(r)
        PROVE  q = r => removal'[q].at # "save"
    BY <1>0, <2>2, IdleFacts DEF MigrateCleans, RemovalOrders, RemovalDeletes, RemovalEnds, Removing
  <2>3. ASSUME MigrateCleans(r) \/ RemovalOrders(r) \/ RemovalDeletes(r) \/ RemovalEnds(r), q # r
        PROVE  removal'[q] = removal[q]
    BY <1>0, <2>3 DEF MigrateCleans, RemovalOrders, RemovalDeletes, RemovalEnds
  <2> QED BY <2>1, <2>2, <2>3
<1>5. ASSUME NEW b \in Archives PROVE Whole(b)'
  <2>1. Later(b) BY <1>1, SameLater
  <2>2. \A q \in Removals : RemovalSteady(q, b) BY <1>4, SameSteady DEF RemovalSteady
  <2> QED BY <1>1, <1>2, <1>3, <2>1, <2>2, SteadyWhole
<1> QED BY <1>2, <1>5 DEF WholeInv

\* The record is saved with the target, which has what the origin had.
LEMMA MigrateSavesWhole == ASSUME PInv, WholeInv, NEW r \in Removals, MigrateSaves(r) PROVE WholeInv'
<1>0. /\ record \in [Archives -> Record \cup {None}] /\ removal \in [Removals -> Removing]
  BY DEF PInv, Types, TypeOK
<1>1. PICK a, v : a = Subject(r) /\ v = removal[r].target OBVIOUS
<1>2. /\ removal[r].at = "save" /\ removal[r].list # Empty
      /\ record' = [record EXCEPT ![a] = [removal[r].list[a] EXCEPT !.node = v]]
      /\ removal' = [removal EXCEPT ![r].at = "clean"]
      /\ UNCHANGED <<uploaded, upload, alone, deleting, flaws>>
  BY <1>1 DEF MigrateSaves, Working
<1>3. Shrinks /\ FlawsOK' BY <1>2, SameFlaws DEF WholeInv
<1>4. removal[r].list[a] \in Record BY <1>1, <1>2, SubjectFacts
<1>5. [removal[r].list[a] EXCEPT !.node = v].node = v BY <1>4 DEF Record
<1>6. removal'[r].at = "clean" /\ \A q \in Removals \ {r} : removal'[q] = removal[q] BY <1>0, <1>2 DEF Removing
<1>7. ASSUME NEW b \in Archives PROVE Whole(b)'
  <2>1. ASSUME b \in alone', b \notin deleting', OwnName(b)'
        PROVE  /\ record'[b] # None => Intact(record'[b].node, FileOf[b])
               /\ upload' # None /\ upload'.archive = b => Intact(upload'.node, FileOf[b])
               /\ \A q \in Removals :
                     removal'[q].at = "save" /\ b = Subject(q)' => Intact(removal'[q].target, FileOf[b])
    <3>1. /\ record[b] # None => Intact(record[b].node, FileOf[b])
          /\ upload # None /\ upload.archive = b => Intact(upload.node, FileOf[b])
          /\ \A q \in Removals :
                removal[q].at = "save" /\ b = Subject(q) => Intact(removal[q].target, FileOf[b])
      BY <1>2, <2>1, SameLater DEF WholeInv, Whole, Later
    <3>2. record'[b] # None => Intact(record'[b].node, FileOf[b])
      <4>1. CASE b = a
        <5>1. record'[b] = [removal[r].list[a] EXCEPT !.node = v] BY <1>0, <1>2, <4>1
        <5>2. Intact(v, FileOf[b]) BY <1>1, <1>2, <3>1, <4>1
        <5> QED BY <1>5, <5>1, <5>2
      <4>2. CASE b # a BY <1>0, <1>2, <3>1, <4>2
      <4> QED BY <4>1, <4>2
    <3>3. \A q \in Removals : RemovalSteady(q, b)
      <4>1. ASSUME NEW q \in Removals PROVE RemovalSteady(q, b)
        <5>1. CASE q = r BY <1>6, <5>1 DEF RemovalSteady
        <5>2. CASE q # r BY <1>6, <5>2, SameSteady
        <5> QED BY <5>1, <5>2
      <4> QED BY <4>1
    <3> QED BY <1>2, <3>1, <3>2, <3>3 DEF RemovalSteady
  <2> QED BY <1>3, <2>1, ShrinksFacts, WholeStays
<1> QED BY <1>3, <1>7 DEF WholeInv

\* A worker that stores a file harms no file of another name.
LEMMA OthersIntact ==
    ASSUME NEW w, NEW f, torn \subseteq torn',
           \A v, g : <<v, g>> \in cut' => <<v, g>> \in cut \/ (v = w /\ g = f)
    PROVE  /\ \A v, g : g # f /\ Intact(v, g) => Intact(v, g)'
           /\ \A v, g : v # w /\ Intact(v, g) => Intact(v, g)'
BY DEF Intact

LEMMA StoresFacts ==
    ASSUME FlawsOK, NEW w \in Workers, NEW f \in Files, NEW whole, Stores(w, f, whole)
    PROVE  /\ FlawsOK' /\ torn \subseteq torn'
           /\ \A v, g : <<v, g>> \in cut' => <<v, g>> \in cut \/ (v = w /\ g = f)
           /\ whole \/ f \in torn => Intact(w, f)'
BY DEF FlawsOK, Stores, Intact

\* What an upload stores is whole, unless a write is cut unseen.
LEMMA UploadStoresWhole == ASSUME PInv, WholeInv, NEW w \in Workers, UploadStores(w) PROVE WholeInv'
<1>1. PICK n : n = uploaded + 1 OBVIOUS
<1>2. /\ upload = None /\ uploaded < NArchives /\ uploaded' = n /\ upload' = [archive |-> n, node |-> w]
      /\ Stores(w, FileOf[n], TRUE) /\ UNCHANGED <<record, removal, alone, deleting>>
  BY <1>1 DEF UploadStores
<1>3. uploaded \in 0..NArchives /\ NArchives \in Nat BY ArchivesAssumption DEF PInv, Types, TypeOK
<1>4. n \in Archives /\ n \in 1..n /\ FileOf[n] \in Files /\ 1..uploaded \subseteq 1..n
  BY <1>1, <1>2, <1>3 DEF Archives, Files
<1>5. /\ FlawsOK' /\ torn \subseteq torn' /\ Intact(w, FileOf[n])'
      /\ \A v, g : <<v, g>> \in cut' => <<v, g>> \in cut \/ (v = w /\ g = FileOf[n])
  BY <1>2, <1>4, StoresFacts DEF WholeInv
<1>6. ASSUME NEW b \in Archives, b # n PROVE Whole(b)'
  <2>1. ASSUME b \in alone', b \notin deleting', OwnName(b)'
        PROVE  /\ \A v : Intact(v, FileOf[b]) => Intact(v, FileOf[b])'
               /\ record'[b] # None => Intact(record'[b].node, FileOf[b])
               /\ upload'.archive # b
               /\ \A q \in Removals :
                     removal'[q].at = "save" /\ b = Subject(q)' => Intact(removal'[q].target, FileOf[b])
    <3>1. FileOf[b] # FileOf[n] BY <1>2, <1>4, <1>6, <2>1 DEF OwnName
    <3>2. OwnName(b) BY <1>2, <1>4, <2>1 DEF OwnName
    <3>3. /\ record[b] # None => Intact(record[b].node, FileOf[b])
          /\ \A q \in Removals :
                removal[q].at = "save" /\ b = Subject(q) => Intact(removal[q].target, FileOf[b])
      BY <1>2, <2>1, <3>2 DEF WholeInv, Whole
    <3>4. \A v : Intact(v, FileOf[b]) => Intact(v, FileOf[b])' BY <1>5, <3>1, OthersIntact
    <3>5. \A q \in Removals : Subject(q)' = Subject(q) BY <1>2, SubjectStays
    <3> QED BY <1>2, <1>6, <3>3, <3>4, <3>5
  <2> QED BY <2>1, WholeStays
<1>7. Whole(n)'
  <2>1. Unknown(n) BY <1>1, <1>3, <1>4 DEF PInv, Waiting
  <2>2. record'[n] = None BY <1>2, <2>1 DEF Unknown
  <2>3. ASSUME NEW q \in Removals, removal'[q].at = "save", n = Subject(q)' PROVE FALSE
    <3>1. removal[q].at = "save" /\ Subject(q)' = Subject(q) BY <1>2, <2>3, SubjectStays
    <3>2. removal[q].list # Empty BY <3>1 DEF PInv, AtWork
    <3>3. Held(n) BY <2>3, <3>1, <3>2, SubjectFacts
    <3> QED BY <2>1, <3>3 DEF Unknown
  <2>4. [archive |-> n, node |-> w].node = w OBVIOUS
  <2> QED BY <1>2, <1>5, <2>2, <2>3, <2>4 DEF Whole, Intact
<1> QED BY <1>5, <1>6, <1>7 DEF WholeInv

\* The target has a copy as whole as the origin's, unless a write is cut unseen;
\* what a failed attempt leaves there is not what the record stands for.
LEMMA MigrateWhole == ASSUME PInv, WholeInv, NEW r \in Removals, MigrateCopies(r) \/ MigrateSkips(r) PROVE WholeInv'
<1>0. removal \in [Removals -> Removing] BY DEF PInv, Types
<1>1. PICK a, u, v : a = Subject(r) /\ u = removal[r].origin /\ v = removal[r].target OBVIOUS
<1>2. /\ removal[r].at = "copy" /\ removal[r].list # Empty
      /\ UNCHANGED <<record, uploaded, upload, alone, deleting>>
  BY DEF MigrateCopies, MigrateSkips, Working
<1>3. a \in Archives /\ a \in 1..uploaded /\ FileOf[a] \in Files /\ ~Waiting(a) /\ removal[r].list[a].node = u
  BY <1>1, <1>2, SubjectFacts
<1>4. v \in Workers /\ v # u BY <1>1, <1>2 DEF PInv, AtWork
<1>5. /\ FlawsOK' /\ torn \subseteq torn'
      /\ \A x, g : <<x, g>> \in cut' => <<x, g>> \in cut \/ (x = v /\ g = FileOf[a])
      /\ MigrateCopies(r) /\ Intact(u, FileOf[a]) => Intact(v, FileOf[a])'
  <2>1. CASE MigrateCopies(r)
    <3>1. PICK whole : whole = (<<u, FileOf[a]>> \notin cut) /\ Stores(v, FileOf[a], whole)
      BY <1>1, <2>1 DEF MigrateCopies
    <3>2. Intact(u, FileOf[a]) => whole \/ FileOf[a] \in torn BY <3>1 DEF Intact
    <3> QED BY <1>3, <1>4, <3>1, <3>2, StoresFacts DEF WholeInv
  <2>2. CASE MigrateSkips(r)
    <3>1. /\ torn' = torn
          /\ cut' = cut \/ cut' = cut \cup {<<v, FileOf[a]>>} \/ cut' = cut \ {<<v, FileOf[a]>>}
      BY <1>1, <2>2 DEF MigrateSkips
    <3>2. FlawsOK' BY <1>3, <1>4, <3>1 DEF WholeInv, FlawsOK
    <3>3. CASE MigrateCopies(r) BY <2>1, <3>3
    <3> QED BY <3>1, <3>2, <3>3
  <2> QED BY <2>1, <2>2
<1>6. \A q \in Removals \ {r} : removal'[q] = removal[q]
  BY <1>0 DEF MigrateCopies, MigrateSkips
<1>7. /\ MigrateCopies(r) => removal' = [removal EXCEPT ![r].at = "save"]
      /\ MigrateSkips(r) => removal' = [removal EXCEPT ![r].list = Rest(@), ![r].moved = @ \ {a}]
  BY <1>1 DEF MigrateCopies, MigrateSkips
<1>8. /\ removal'[r].target = v
      /\ MigrateCopies(r) => removal'[r].list = removal[r].list
      /\ ~MigrateCopies(r) => removal'[r].at = "copy"
  <2>1. removal[r] \in Removing BY <1>0
  <2>2. CASE MigrateCopies(r) BY <1>0, <1>1, <1>7, <2>1, <2>2 DEF Removing
  <2>3. CASE ~MigrateCopies(r) BY <1>0, <1>1, <1>2, <1>7, <2>1, <2>3 DEF Removing
  <2> QED BY <2>2, <2>3
<1>9. ASSUME NEW b \in Archives, b \in alone', b \notin deleting', OwnName(b)'
      PROVE  /\ record[b] # None => Intact(record[b].node, FileOf[b])
             /\ upload # None /\ upload.archive = b => Intact(upload.node, FileOf[b])
             /\ \A q \in Removals :
                   removal[q].at = "save" /\ b = Subject(q) => Intact(removal[q].target, FileOf[b])
             /\ b \in alone
  BY <1>2, <1>9, SameLater DEF WholeInv, Whole, Later
<1>10. ASSUME NEW b \in Archives, b # a PROVE Whole(b)'
  <2>1. ASSUME b \in alone', b \notin deleting', OwnName(b)'
        PROVE  /\ \A x : Intact(x, FileOf[b]) => Intact(x, FileOf[b])'
               /\ record'[b] # None => Intact(record'[b].node, FileOf[b])
               /\ upload' # None /\ upload'.archive = b => Intact(upload'.node, FileOf[b])
               /\ \A q \in Removals :
                     removal'[q].at = "save" /\ b = Subject(q)' => Intact(removal'[q].target, FileOf[b])
    <3>1. FileOf[b] # FileOf[a] BY <1>2, <1>3, <1>10, <2>1 DEF OwnName
    <3>2. \A x : Intact(x, FileOf[b]) => Intact(x, FileOf[b])' BY <1>5, <3>1, OthersIntact
    <3>3. ASSUME NEW q \in Removals, removal'[q].at = "save", b = Subject(q)' PROVE q # r
      <4>1. CASE q = r
        <5>1. Subject(r)' = Subject(r) BY <1>8, <3>3, <4>1, SubjectStays
        <5> QED BY <1>1, <1>10, <3>3, <4>1, <5>1
      <4> QED BY <4>1
    <3>4. \A q \in Removals \ {r} : Subject(q)' = Subject(q) BY <1>6, SubjectStays
    <3>5. ASSUME NEW q \in Removals, removal'[q].at = "save", b = Subject(q)'
          PROVE  Intact(removal'[q].target, FileOf[b])
      <4>1. removal'[q] = removal[q] /\ Subject(q)' = Subject(q) BY <1>6, <3>3, <3>4, <3>5
      <4> QED BY <1>9, <1>10, <2>1, <3>5, <4>1
    <3> QED BY <1>2, <1>9, <1>10, <2>1, <3>2, <3>5
  <2> QED BY <2>1, WholeStays
<1>11. Whole(a)'
  <2> SUFFICES ASSUME a \in alone', a \notin deleting', OwnName(a)'
               PROVE  /\ \A x : x = record'[a].node => Intact(x, FileOf[a])'
                      /\ ~(upload' # None /\ upload'.archive = a)
                      /\ \A q \in Removals : \A x :
                            removal'[q].at = "save" /\ a = Subject(q)' /\ x = removal'[q].target
                                => Intact(x, FileOf[a])'
    BY DEF Whole, Intact
  <2>1. /\ record[a] = removal[r].list[a]
        /\ \A q \in Removals : removal[q].at = "save" /\ a = Subject(q) => q = r
    BY <1>1, <1>2, <1>3, <1>9, SoleSubject
  <2>2. record[a] # None
    <3>1. removal[r].list[a] \in Record BY <1>1, <1>2, SubjectFacts
    <3> QED BY <2>1, <3>1, NoneAssumption DEF Record
  <2>3. Intact(u, FileOf[a]) BY <1>3, <1>9, <2>1, <2>2
  <2>4. Intact(u, FileOf[a])' BY <1>4, <1>5, <2>3, OthersIntact
  <2>5. record'[a].node = u BY <1>2, <1>3, <2>1
  <2>6. ~(upload' # None /\ upload'.archive = a) BY <1>2, <1>3 DEF Waiting
  <2>7. ASSUME NEW q \in Removals, NEW x, removal'[q].at = "save", a = Subject(q)', x = removal'[q].target
        PROVE  Intact(x, FileOf[a])'
    <3>1. CASE q = r
      <4>1. MigrateCopies(r) BY <1>8, <2>7, <3>1
      <4>2. Intact(v, FileOf[a])' BY <1>5, <2>3, <4>1
      <4>3. x = v BY <1>8, <2>7, <3>1
      <4> QED BY <4>2, <4>3
    <3>2. CASE q # r
      <4>1. removal'[q] = removal[q] /\ Subject(q)' = Subject(q) BY <1>6, <3>2, SubjectStays
      <4> QED BY <2>1, <2>7, <3>2, <4>1
    <3> QED BY <3>1, <3>2
  <2> QED BY <2>4, <2>5, <2>6, <2>7
<1> QED BY <1>5, <1>10, <1>11 DEF WholeInv

LEMMA NextWhole == PInv /\ WholeInv /\ [Next]_vars => WholeInv'
<1> SUFFICES ASSUME PInv, WholeInv, [Next]_vars PROVE WholeInv' OBVIOUS
<1>1. ASSUME NEW w \in Workers, WorkerStep(w) PROVE WholeInv'
  BY <1>1, ElsewhereWhole, UploadStoresWhole DEF WorkerStep
<1>2. CASE UploadSaves \/ EditSaves \/ UNCHANGED vars BY <1>2, ElsewhereWhole
<1>3. ASSUME NEW a \in Archives, EditReads(a) \/ \E pinned \in BOOLEAN : Pin(a, pinned) PROVE WholeInv'
  BY <1>3, ElsewhereWhole
<1>4. ASSUME NEW r \in Removals, RemovalStep(r) PROVE WholeInv'
  BY <1>4, RemovalWhole, MigrateSavesWhole, MigrateWhole DEF RemovalStep
<1>5. CASE JobStep BY <1>5, JobWhole
<1> QED BY <1>1, <1>2, <1>3, <1>4, <1>5 DEF Next

LEMMA InitWhole == Init => WholeInv
BY DEF Init, WholeInv, FlawsOK, Whole, Intact

\* Every copy an actor holds is of an archive that was uploaded, the package of
\* a record is where the record points, whole unless a write of the file was cut
\* and answered as if it were whole, and no cycle holds a protected archive for
\* deletion, for every number of workers, removals, archives and such failures.
THEOREM PlacementSound == Spec => []PlacementIsSound
<1>1. PInv /\ WholeInv => PlacementIsSound
  <2> SUFFICES ASSUME PInv, WholeInv PROVE PlacementIsSound OBVIOUS
  <2>1. TypeOK BY DEF PInv, Types
  <2>2. PackageFollowsRecord
    BY DEF PInv, Placed, Package, WholeInv, Whole, PackageFollowsRecord, Recorded
  <2>3. ASSUME NEW a \in DOMAIN job["cycle"].list, a \in job["cycle"].spared PROVE a \notin alone
    <3>1. a \in Archives
      <4>1. job["cycle"].list \in Lists BY DEF PInv, Types, Job, Jobs
      <4> QED BY <4>1, ListFacts
    <3> QED BY <2>3, <3>1 DEF PInv, Placed, Protected, InJob, Jobs
  <2> QED BY <2>1, <2>2, <2>3 DEF PlacementIsSound, ProtectedIsSpared, WholeInv
<1> QED BY <1>1, InitPlaced, NextPlaced, InitWhole, NextWhole, PTL DEF Spec

\* A removal is over only when its list is empty.
LEMMA EndsEmpty ==
    ASSUME PInv, Next, NEW r \in Removals, removal'[r] = NoRemoval
    PROVE  removal[r].list = Empty
<1>1. removal'[r].at = "idle" /\ removal'[r].list = Empty BY IdleFacts
<1>2. removal \in [Removals -> Removing] BY DEF PInv, Types
<1>3. CASE removal' = removal BY <1>1, <1>3
<1>4. ASSUME NEW q \in Removals, RemovalStep(q) PROVE removal[r].list = Empty
  <2>1. ASSUME NEW w \in Workers, NEW at \in {"copy", "order", "end"}, NEW target \in Workers,
               RemovalStarts(q, w, at, target)
        PROVE  removal[r].list = Empty
    <3>1. q = r => removal'[r].at = at BY <2>1 DEF RemovalStarts
    <3>2. q # r => removal'[r].list = removal[r].list
      <4> SUFFICES ASSUME q # r PROVE removal'[r].list = removal[r].list OBVIOUS
      <4>1. PICK x : removal'[r] = [removal[r] EXCEPT !.moved = x] BY <2>1 DEF RemovalStarts
      <4> QED BY <1>2, <4>1 DEF Removing
    <3> QED BY <1>1, <3>1, <3>2
  <2>2. CASE q # r /\ ~(\E w \in Workers, at \in {"copy", "order", "end"}, target \in Workers : RemovalStarts(q, w, at, target))
    <3>1. removal'[r] = removal[r]
      BY <1>2, <1>4, <2>2 DEF RemovalStep, MigrateCopies, MigrateSkips, MigrateSaves, MigrateCleans,
           RemovalOrders, RemovalDeletes, RemovalEnds
    <3> QED BY <1>1, <3>1
  <2>3. CASE q = r /\ MigrateCopies(r) BY <1>1, <1>2, <2>3 DEF MigrateCopies, Removing
  <2>4. CASE q = r /\ MigrateSkips(r) BY <1>1, <1>2, <2>4 DEF MigrateSkips, Working, Removing
  <2>5. CASE q = r /\ MigrateSaves(r) BY <1>1, <1>2, <2>5 DEF MigrateSaves, Removing
  <2>6. CASE q = r /\ MigrateCleans(r) BY <1>1, <1>2, <2>6 DEF MigrateCleans, Removing
  <2>7. CASE q = r /\ RemovalOrders(r) BY <1>1, <1>2, <2>7 DEF RemovalOrders, Removing
  <2>8. CASE q = r /\ RemovalDeletes(r) BY <1>1, <1>2, <2>8 DEF RemovalDeletes, Removing
  <2>9. CASE q = r /\ RemovalEnds(r) BY <2>9 DEF RemovalEnds
  <2> QED BY <1>4, <2>1, <2>2, <2>3, <2>4, <2>5, <2>6, <2>7, <2>8, <2>9 DEF RemovalStep
<1>5. ASSUME NEW w \in Workers, WorkerStep(w) PROVE removal' = removal
  BY <1>5 DEF WorkerStep, MarkOnline, MarkOffline, UploadStores
<1>6. ASSUME NEW a \in Archives, EditReads(a) \/ \E pinned \in BOOLEAN : Pin(a, pinned) PROVE removal' = removal
  BY <1>6 DEF EditReads, Pin
<1>7. ASSUME UploadSaves \/ EditSaves PROVE removal' = removal BY <1>7 DEF UploadSaves, EditSaves
<1>8. ASSUME JobStep PROVE removal' = removal
  BY <1>8 DEF JobStep, CycleStarts, CycleListsNodes, CycleLeavesNode, CycleTakesNode, UserDeletes, JobOrders, JobDeletes, JobEnds
<1> QED BY <1>3, <1>4, <1>5, <1>6, <1>7, <1>8 DEF Next

\* A removal that ends has left on the node nothing that it moved or deleted and
\* no other actor held.
THEOREM NodeEmptied == Spec => RemovedNodeIsEmptied
<1>1. ASSUME PInv, [Next]_vars, NEW r \in Removals, removal[r] # NoRemoval, removal'[r] = NoRemoval,
             NEW a \in removal[r].moved \cap alone \cap Recorded
      PROVE  record[a].node # removal[r].origin
  <2>1. Next BY <1>1 DEF vars
  <2>2. removal[r].list = Empty BY <1>1, <2>1, EndsEmpty
  <2>3. a \in Archives /\ record[a] # None BY DEF Recorded
  <2>4. Left(r, a) BY <1>1, <2>3 DEF PInv, Placed
  <2> QED BY <2>2, <2>3, <2>4, EmptyFacts DEF Left
<1>2. PInv /\ [Next]_vars =>
        [\A r \in Removals :
           (removal[r] # NoRemoval /\ removal'[r] = NoRemoval)
           => \A a \in removal[r].moved \cap alone \cap Recorded : record[a].node # removal[r].origin]_vars
  BY <1>1
<1> QED BY <1>2, InitPlaced, NextPlaced, PTL DEF Spec, RemovedNodeIsEmptied

-----------------------------------------------------------------------------
(* Capacity: what a cycle believes of the disks *)

Cycle == job["cycle"]
Packages(S) == {FileOf[a] : a \in S}
Load(S) == SumFunctionOnSet(Weight, S)

\* The reports are no lower than the use of the disks.  The estimate of the node in
\* hand is no lower than what its disk takes with all packages the cycle has yet
\* to delete: those stay in the sum until they are subtracted.
Reported ==
    /\ \A w \in DOMAIN Cycle.nodes : w \in Workers /\ Cycle.nodes[w] \in Nat
    /\ Cycle.fresh => \A w \in DOMAIN Cycle.nodes : Used(w) <= Cycle.nodes[w]
Remaining ==
    /\ Cycle.node \in Workers /\ Cycle.used \in Nat
    /\ DOMAIN Cycle.list \subseteq Cycle.old /\ Cycle.old \ DOMAIN Cycle.list \subseteq deleting
    /\ \A a \in DOMAIN Cycle.list : Cycle.list[a].node = Cycle.node
    /\ Cycle.fresh /\ (\A a \in Cycle.old : OwnName(a)) =>
          /\ Load(disk[Cycle.node] \cup Packages(DOMAIN Cycle.list)) <= Cycle.used
          /\ Cycle.cleaned => FileOf[First(Cycle.list)] \notin disk[Cycle.node]
Estimated == Reported /\ (Cycle.at = "emergency" => Remaining)

\* A step the cycle does not notice: it takes files off the disks that matter, or none.
CycleCalm ==
    /\ Cycle'.at = Cycle.at /\ Cycle'.list = Cycle.list /\ Cycle'.cleaned = Cycle.cleaned
    /\ Cycle'.nodes = Cycle.nodes /\ Cycle'.used = Cycle.used /\ Cycle'.node = Cycle.node /\ Cycle'.old = Cycle.old
    /\ Cycle'.fresh => /\ Cycle.fresh
                       /\ \A w \in Workers : w = Cycle.node \/ w \in DOMAIN Cycle.nodes => disk'[w] \subseteq disk[w]
    /\ deleting \subseteq deleting' /\ uploaded <= uploaded'

LEMMA FilesFinite == IsFiniteSet(Files) /\ \A f \in Files : Weight[f] \in Nat
<1>1. IsFiniteSet(Archives) BY FS_Interval, ArchivesAssumption DEF Archives
<1>2. PICK g : g = [a \in Archives |-> FileOf[a]] OBVIOUS
<1>3. g \in Surjection(Archives, Files) BY <1>2 DEF Files, Surjection
<1>4. IsFiniteSet(Files) BY <1>1, <1>3, FS_Surjection
<1> QED BY <1>4, WeightAssumption

LEMMA LoadFacts ==
    ASSUME NEW S, S \subseteq Files
    PROVE  /\ Load(S) \in Nat
           /\ \A T : T \subseteq S => Load(T) <= Load(S)
           /\ \A f \in S : Load(S) = Weight[f] + Load(S \ {f})
<1>1. IsFiniteSet(S) /\ \A f \in S : Weight[f] \in Nat /\ Weight[f] \in Int BY FilesFinite, FS_Subset
<1>2. Load(S) \in Nat BY <1>1, SumType DEF Load
<1>3. ASSUME NEW T, T \subseteq S PROVE Load(T) <= Load(S) BY <1>1, <1>3, SumPart DEF Load
<1>4. ASSUME NEW f \in S PROVE Load(S) = Weight[f] + Load(S \ {f}) BY <1>1, <1>4, SumTakeOut DEF Load
<1> QED BY <1>2, <1>3, <1>4

LEMMA CycleFacts ==
    ASSUME Types
    PROVE  /\ Cycle \in Job(Cycle) /\ Cycle.list \in Lists /\ Cycle.old \subseteq Archives
           /\ Packages(DOMAIN Cycle.list) \subseteq Files
           /\ \A w \in Workers : disk[w] \subseteq Files
<1>1. Cycle \in Job(Cycle) BY DEF Types, Cycle, Jobs
<1>2. Cycle.list \in Lists /\ Cycle.old \subseteq Archives BY <1>1 DEF Job
<1>3. DOMAIN Cycle.list \subseteq Archives BY <1>2, ListFacts
<1>4. \A w \in Workers : disk[w] \subseteq Files BY DEF Types, TypeOK
<1> QED BY <1>1, <1>2, <1>3, <1>4 DEF Packages, Files

LEMMA CalmKeeps == ASSUME Types, Types', Estimated, CycleCalm PROVE Estimated'
<1>0. PICK c, d : c = Cycle /\ d = Cycle' OBVIOUS
<1>1. /\ d.at = c.at /\ d.list = c.list /\ d.cleaned = c.cleaned
      /\ d.nodes = c.nodes /\ d.used = c.used /\ d.node = c.node /\ d.old = c.old
      /\ d.fresh => /\ c.fresh
                    /\ \A w \in Workers : w = c.node \/ w \in DOMAIN c.nodes => disk'[w] \subseteq disk[w]
      /\ deleting \subseteq deleting' /\ uploaded <= uploaded'
  BY <1>0 DEF CycleCalm
<1>2. \A w \in Workers : disk[w] \subseteq Files BY CycleFacts
<1>3. Reported'
  <2>1. \A w \in DOMAIN d.nodes : w \in Workers /\ d.nodes[w] \in Nat BY <1>0, <1>1 DEF Estimated, Reported
  <2>2. ASSUME d.fresh, NEW w \in DOMAIN d.nodes PROVE Used(w)' <= d.nodes[w]
    <3>1. w \in Workers /\ c.nodes[w] \in Nat /\ Used(w) <= c.nodes[w] BY <1>0, <1>1, <2>2 DEF Estimated, Reported
    <3>2. disk'[w] \subseteq disk[w] /\ disk[w] \subseteq Files BY <1>1, <1>2, <2>2, <3>1
    <3>3. Load(disk[w]) \in Nat /\ Load(disk'[w]) \in Nat /\ Load(disk'[w]) <= Load(disk[w]) BY <3>2, LoadFacts
    <3>4. Used(w) = Load(disk[w]) /\ Used(w)' = Load(disk'[w]) BY DEF Used, Load
    <3> QED BY <1>1, <3>1, <3>3, <3>4
  <2> QED BY <1>0, <2>1, <2>2 DEF Reported
<1>4. ASSUME d.at = "emergency" PROVE Remaining'
  <2>1. Remaining BY <1>0, <1>1, <1>4 DEF Estimated
  <2>2. /\ d.node \in Workers /\ d.used \in Nat /\ DOMAIN d.list \subseteq d.old /\ d.old \ DOMAIN d.list \subseteq deleting'
        /\ \A a \in DOMAIN d.list : d.list[a].node = d.node
    BY <1>0, <1>1, <2>1 DEF Remaining
  <2>3. ASSUME d.fresh, \A a \in d.old : OwnName(a)'
        PROVE  /\ Load(disk'[d.node] \cup Packages(DOMAIN d.list)) <= d.used
               /\ d.cleaned => FileOf[First(d.list)] \notin disk'[d.node]
    <3>1. \A a \in c.old : OwnName(a)
      <4>1. uploaded \in Nat /\ uploaded' \in Nat BY ArchivesAssumption DEF Types, TypeOK
      <4>2. 1..uploaded \subseteq 1..uploaded' BY <1>1, <4>1
      <4> QED BY <1>1, <2>3, <4>2 DEF OwnName
    <3>2. /\ Load(disk[c.node] \cup Packages(DOMAIN c.list)) <= c.used
          /\ c.cleaned => FileOf[First(c.list)] \notin disk[c.node]
      BY <1>0, <1>1, <2>1, <2>3, <3>1 DEF Remaining
    <3>3. disk'[c.node] \subseteq disk[c.node] /\ disk[c.node] \subseteq Files BY <1>1, <1>2, <2>2, <2>3
    <3>4. PICK S, T : S = disk[c.node] \cup Packages(DOMAIN c.list) /\ T = disk'[c.node] \cup Packages(DOMAIN c.list)
      OBVIOUS
    <3>5. S \subseteq Files /\ T \subseteq S BY <1>0, <3>3, <3>4, CycleFacts
    <3>6. Load(S) \in Nat /\ Load(T) \in Nat /\ Load(T) <= Load(S)
      <4>1. T \subseteq Files BY <3>5
      <4> QED BY <3>5, <4>1, LoadFacts
    <3>7. Load(T) <= c.used BY <1>1, <2>2, <3>2, <3>4, <3>6
    <3> QED BY <1>1, <3>2, <3>3, <3>4, <3>7
  <2> QED BY <1>0, <2>2, <2>3 DEF Remaining
<1> QED BY <1>0, <1>3, <1>4 DEF Estimated

LEMMA CycleSet ==
    ASSUME Types, NEW j, job' = [job EXCEPT !["cycle"] = j]
    PROVE  Cycle' = j
BY DEF Types, Cycle, Jobs

\* A cycle that has no node in hand and no reports estimates nothing.
LEMMA IdleEstimate ==
    ASSUME Cycle.at # "emergency", ~Cycle.fresh, Cycle.nodes = Empty
    PROVE  Estimated
BY EmptyFacts DEF Estimated, Reported

LEMMA InitEstimated == Init => Estimated
<1> SUFFICES ASSUME Init PROVE Estimated OBVIOUS
<1>1. Cycle = Idle BY DEF Init, Cycle
<1>2. Idle.at # "emergency" /\ ~Idle.fresh /\ Idle.nodes = Empty BY DEF Idle
<1> QED BY <1>1, <1>2, IdleEstimate

LEMMA CycleStartsEstimates == ASSUME Types, NEW cutoff, CycleStarts(cutoff) PROVE Estimated'
<1>1. PICK l, k : job' = [job EXCEPT !["cycle"] = [Idle EXCEPT !.at = "ttl", !.list = l, !.spared = k]]
  BY DEF CycleStarts
<1>2. PICK i, e : i = Idle /\ e = Empty OBVIOUS
<1>3. PICK j : j = [i EXCEPT !.at = "ttl", !.list = l, !.spared = k] OBVIOUS
<1>4. Cycle' = j BY <1>1, <1>2, <1>3, CycleSet
<1>5. j.at = "ttl" /\ ~j.fresh /\ j.nodes = e BY <1>2, <1>3 DEF Idle
<1>6. DOMAIN e = {} BY <1>2, EmptyFacts
<1> QED BY <1>4, <1>5, <1>6 DEF Estimated, Reported

LEMMA JobEndsEstimates == ASSUME Types, JobEnds("cycle") PROVE Estimated'
<1>1. PICK j, e : j = Idle /\ e = Empty OBVIOUS
<1>2. Cycle' = j BY <1>1, CycleSet DEF JobEnds
<1>3. j.at = "idle" /\ ~j.fresh /\ j.nodes = e /\ DOMAIN e = {} BY <1>1, EmptyFacts DEF Idle
<1> QED BY <1>2, <1>3 DEF Estimated, Reported

LEMMA CycleListsNodesEstimates == ASSUME Types, CycleListsNodes PROVE Estimated'
<1>0. PICK c : c = Cycle OBVIOUS
<1>1. PICK S, n, f :
         /\ S \in SUBSET {w \in Workers : node[w] = "online"} /\ n \in [S -> {x \in Reports : x >= Emergency}]
         /\ f = (\A w \in S : n[w] >= Used(w))
         /\ job' = [job EXCEPT !["cycle"].at = "nodes", !["cycle"].nodes = n, !["cycle"].spared = {}, !["cycle"].fresh = f]
  <2>1. PICK S, n :
           /\ S \in SUBSET {w \in Workers : node[w] = "online"} /\ n \in [S -> {x \in Reports : x >= Emergency}]
           /\ job' = [job EXCEPT !["cycle"].at = "nodes", !["cycle"].nodes = n, !["cycle"].spared = {},
                              !["cycle"].fresh = \A w \in S : n[w] >= Used(w)]
    BY DEF CycleListsNodes
  <2>2. PICK f : f = (\A w \in S : n[w] >= Used(w)) OBVIOUS
  <2> QED BY <2>1, <2>2
<1>2. PICK j : j = [c EXCEPT !.at = "nodes", !.nodes = n, !.spared = {}, !.fresh = f] OBVIOUS
<1>3. job' = [job EXCEPT !["cycle"] = j] BY <1>0, <1>1, <1>2 DEF Types, Jobs, Cycle
<1>4. Cycle' = j BY <1>3, CycleSet
<1>5. c \in Job(c) BY <1>0, CycleFacts
<1>6. j.at = "nodes" /\ j.nodes = n /\ j.fresh = f BY <1>2, <1>5 DEF Job
<1>7. DOMAIN n = S /\ S \subseteq Workers BY <1>1
<1>8. ASSUME NEW w \in S PROVE n[w] \in Nat /\ (f => Used(w)' <= n[w])
  <2>1. PICK x : x = n[w] OBVIOUS
  <2>2. x \in Reports BY <1>1, <2>1
  <2>3. PICK F \in SUBSET Files : x = SumFunctionOnSet(Weight, F) BY <2>2 DEF Reports
  <2>4. x \in Nat BY <2>3, LoadFacts DEF Load
  <2>5. disk' = disk BY DEF CycleListsNodes
  <2>6. Used(w)' = Used(w) BY <2>5 DEF Used
  <2>7. Used(w) \in Nat
    <3>1. disk[w] \subseteq Files BY <1>7, CycleFacts
    <3> QED BY <3>1, LoadFacts DEF Used, Load
  <2>8. f => x >= Used(w) BY <1>1, <2>1
  <2> QED BY <2>1, <2>4, <2>6, <2>7, <2>8
<1> QED BY <1>4, <1>6, <1>7, <1>8 DEF Estimated, Reported

LEMMA CycleLeavesNodeEstimates == ASSUME Types, Estimated, CycleLeavesNode PROVE Estimated'
<1>0. PICK c, e : c = Cycle /\ e = Empty OBVIOUS
<1>1. PICK j : j = [c EXCEPT !.at = "nodes", !.list = e, !.node = None, !.old = {}, !.used = 0, !.spared = {}] OBVIOUS
<1>2. job' = [job EXCEPT !["cycle"] = j] /\ disk' = disk BY <1>0, <1>1 DEF CycleLeavesNode, Cycle
<1>3. Cycle' = j BY <1>2, CycleSet
<1>4. c \in Job(c) BY <1>0, CycleFacts
<1>5. j.at = "nodes" /\ j.nodes = c.nodes /\ j.fresh = c.fresh BY <1>1, <1>4 DEF Job
<1>6. \A w : Used(w)' = Used(w) BY <1>2 DEF Used
<1> QED BY <1>0, <1>3, <1>5, <1>6 DEF Estimated, Reported

\* A node is taken: all its packages are on its disk, so they add nothing to its use.
LEMMA CycleTakesNodeEstimates ==
    ASSUME Types, Ordered, Estimated, NEW w \in Workers, CycleTakesNode(w)
    PROVE  Estimated'
<1>0. PICK c, S, l, k : /\ c = Cycle /\ S = {a \in On(w) : ~Exempt(record[a])}
                        /\ l = Listing(S) /\ k = asked
  OBVIOUS
<1>1. PICK f, u, n : /\ f = (c.fresh /\ \A a \in S : FileOf[a] \in disk[w] /\ <<w, FileOf[a]>> \notin cut) /\ u = c.nodes[w]
                     /\ n = Restrict(c.nodes, DOMAIN c.nodes \ {w})
  OBVIOUS
<1>2. PICK j : j = [c EXCEPT !.at = "emergency", !.list = l, !.used = u, !.node = w, !.old = S,
                             !.nodes = n, !.spared = k, !.fresh = f]
  OBVIOUS
<1>3. c.at = "nodes" /\ w \in DOMAIN c.nodes /\ job' = [job EXCEPT !["cycle"] = j] /\ disk' = disk /\ deleting' = deleting
  BY <1>0, <1>1, <1>2 DEF CycleTakesNode, Cycle
<1>4. Cycle' = j BY <1>3, CycleSet
<1>5. c \in Job(c) BY <1>0, CycleFacts
<1>6. /\ j.at = "emergency" /\ j.list = l /\ j.used = u /\ j.node = w /\ j.old = S /\ j.nodes = n
      /\ j.fresh = f /\ j.cleaned = c.cleaned
  BY <1>2, <1>5 DEF Job
<1>7. ~c.cleaned BY <1>0, <1>3 DEF Ordered, Jobs, Cycle
<1>8. \A v \in DOMAIN c.nodes : v \in Workers /\ c.nodes[v] \in Nat /\ (c.fresh => Used(v) <= c.nodes[v])
  BY <1>0 DEF Estimated, Reported
<1>9. Reported'
  <2>1. DOMAIN n = DOMAIN c.nodes \ {w} /\ \A v \in DOMAIN n : n[v] = c.nodes[v] BY <1>1 DEF Restrict
  <2>2. \A v : Used(v)' = Used(v) BY <1>3 DEF Used
  <2> QED BY <1>1, <1>4, <1>6, <1>8, <2>1, <2>2 DEF Reported
<1>10. Remaining'
  <2>1. S \subseteq Recorded /\ \A a \in S : record[a].node = w BY <1>0 DEF On
  <2>2. DOMAIN l = S /\ \A a \in S : l[a].node = w BY <1>0, <2>1, ListingFacts DEF Types
  <2>3. u \in Nat /\ w \in Workers BY <1>1, <1>3, <1>8
  <2>4. ASSUME f PROVE Load(disk'[w] \cup Packages(S)) <= u
    <3>1. Packages(S) \subseteq disk[w] BY <1>1, <2>4 DEF Packages
    <3>2. disk'[w] \cup Packages(S) = disk[w] BY <1>3, <3>1
    <3>3. Used(w) <= u BY <1>1, <1>3, <1>8, <2>4
    <3> QED BY <3>2, <3>3 DEF Used, Load
  <2> QED BY <1>4, <1>6, <1>7, <2>2, <2>3, <2>4 DEF Remaining
<1> QED BY <1>9, <1>10 DEF Estimated

\* The order removes the package from the disk, not from the sum.
LEMMA JobOrdersEstimates ==
    ASSUME Types, Estimated, JobOrders("cycle")
    PROVE  Estimated'
<1>0. PICK c, a, v : c = Cycle /\ a = First(c.list) /\ v = c.list[a].node OBVIOUS
<1>1. /\ c.list # Empty /\ deleting' = deleting \cup {a} /\ uploaded' = uploaded
  BY <1>0 DEF JobOrders, Cycle
<1>2. c \in Job(c) /\ c.list \in Lists BY <1>0, CycleFacts
<1>3. a \in DOMAIN c.list BY <1>0, <1>1, <1>2, ListFacts
<1>4. PICK j : /\ Cycle' = j
               /\ j.at = c.at /\ j.list = c.list /\ j.nodes = c.nodes /\ j.used = c.used /\ j.node = c.node /\ j.old = c.old
               /\ j.fresh => c.fresh /\ disk' = [disk EXCEPT ![v] = @ \ {FileOf[a]}]
               /\ disk' = disk \/ disk' = [disk EXCEPT ![v] = @ \ {FileOf[a]}]
  <2>1. CASE disk' = [disk EXCEPT ![v] = @ \ {FileOf[a]}] /\ job' = [job EXCEPT !["cycle"].cleaned = TRUE]
    <3>1. PICK j : j = [c EXCEPT !.cleaned = TRUE] OBVIOUS
    <3>2. job' = [job EXCEPT !["cycle"] = j] BY <1>0, <2>1, <3>1 DEF Cycle
    <3>3. Cycle' = j BY <3>2, CycleSet
    <3>4. /\ j.at = c.at /\ j.list = c.list /\ j.nodes = c.nodes /\ j.used = c.used /\ j.node = c.node /\ j.old = c.old
          /\ j.fresh = c.fresh
      BY <1>2, <3>1 DEF Job
    <3> QED BY <2>1, <3>3, <3>4
  <2>2. CASE disk' = disk /\ job' = [job EXCEPT !["cycle"].cleaned = TRUE, !["cycle"].fresh = FALSE]
    <3>1. PICK j : j = [c EXCEPT !.cleaned = TRUE, !.fresh = FALSE] OBVIOUS
    <3>2. job' = [job EXCEPT !["cycle"] = j] BY <1>0, <2>2, <3>1 DEF Cycle, Types, Jobs
    <3>3. Cycle' = j BY <3>2, CycleSet
    <3>4. /\ j.at = c.at /\ j.list = c.list /\ j.nodes = c.nodes /\ j.used = c.used /\ j.node = c.node /\ j.old = c.old
          /\ ~j.fresh
      BY <1>2, <3>1 DEF Job
    <3> QED BY <2>2, <3>3, <3>4
  <2>3. \/ disk' = [disk EXCEPT ![v] = @ \ {FileOf[a]}] /\ job' = [job EXCEPT !["cycle"].cleaned = TRUE]
        \/ disk' = disk /\ job' = [job EXCEPT !["cycle"].cleaned = TRUE, !["cycle"].fresh = FALSE]
    BY <1>0 DEF JobOrders, Frees, Cycle
  <2> QED BY <2>1, <2>2, <2>3
<1>5. \A w \in Workers : disk'[w] \subseteq disk[w] /\ disk'[w] \subseteq Files /\ disk[w] \subseteq Files
  BY <1>4, CycleFacts DEF Types, TypeOK
<1>6. Reported'
  <2>1. ASSUME j.fresh, NEW w \in DOMAIN j.nodes PROVE Used(w)' <= j.nodes[w]
    <3>1. w \in Workers /\ j.nodes[w] \in Nat /\ Used(w) <= j.nodes[w] BY <1>0, <1>4, <2>1 DEF Estimated, Reported
    <3>2. Load(disk[w]) \in Nat /\ Load(disk'[w]) \in Nat /\ Load(disk'[w]) <= Load(disk[w]) BY <1>5, <3>1, LoadFacts
    <3>3. Used(w) = Load(disk[w]) /\ Used(w)' = Load(disk'[w]) BY DEF Used, Load
    <3> QED BY <3>1, <3>2, <3>3
  <2>2. \A w \in DOMAIN j.nodes : w \in Workers /\ j.nodes[w] \in Nat BY <1>0, <1>4 DEF Estimated, Reported
  <2> QED BY <1>4, <2>1, <2>2 DEF Reported
<1>7. ASSUME j.at = "emergency" PROVE Remaining'
  <2>1. Remaining BY <1>0, <1>4, <1>7 DEF Estimated
  <2>2. /\ j.node \in Workers /\ j.used \in Nat /\ DOMAIN j.list \subseteq j.old /\ j.old \ DOMAIN j.list \subseteq deleting'
        /\ \A b \in DOMAIN j.list : j.list[b].node = j.node
    BY <1>0, <1>1, <1>4, <2>1 DEF Remaining
  <2>3. v = c.node BY <1>0, <1>3, <2>1 DEF Remaining
  <2>4. ASSUME j.fresh, \A b \in j.old : OwnName(b)'
        PROVE  /\ Load(disk'[j.node] \cup Packages(DOMAIN j.list)) <= j.used
               /\ FileOf[First(j.list)] \notin disk'[j.node]
    <3>1. \A b \in c.old : OwnName(b) BY <1>1, <1>4, <2>4 DEF OwnName
    <3>2. Load(disk[c.node] \cup Packages(DOMAIN c.list)) <= c.used BY <1>0, <1>4, <2>1, <2>4, <3>1 DEF Remaining
    <3>3. PICK S, T : S = disk[c.node] \cup Packages(DOMAIN c.list) /\ T = disk'[c.node] \cup Packages(DOMAIN c.list)
      OBVIOUS
    <3>4. S \subseteq Files /\ T \subseteq Files /\ T \subseteq S BY <1>0, <1>4, <1>5, <2>2, <3>3, CycleFacts
    <3>5. Load(S) \in Nat /\ Load(T) \in Nat /\ Load(T) <= Load(S) BY <3>4, LoadFacts
    <3>6. Load(T) <= c.used BY <1>4, <2>2, <3>2, <3>3, <3>5
    <3>7. FileOf[a] \notin disk'[v] BY <1>4, <2>2, <2>3, <2>4 DEF Types, TypeOK
    <3> QED BY <1>0, <1>4, <2>3, <3>3, <3>6, <3>7
  <2> QED BY <1>4, <2>2, <2>4 DEF Remaining
<1> QED BY <1>4, <1>6, <1>7 DEF Estimated

\* A package that is off the disk and of no other archive on the list is subtracted
\* from the sum as it is from the estimate, which takes no more than its weight.
LEMMA JobDeletesEstimates ==
    ASSUME Types, Ordered, Estimated, JobDeletes("cycle")
    PROVE  Estimated'
<1>0. PICK c, a, l : c = Cycle /\ a = First(c.list) /\ l = Rest(c.list) OBVIOUS
<1>1. PICK u : u = IF record[a] = None THEN c.used ELSE IF c.used - SizeMB[a] < 0 THEN 0 ELSE c.used - SizeMB[a]
  OBVIOUS
<1>2. PICK j : j = [c EXCEPT !.list = l, !.cleaned = FALSE, !.used = u] OBVIOUS
<1>3. c \in Job(c) /\ c.list \in Lists /\ Packages(DOMAIN c.list) \subseteq Files BY <1>0, CycleFacts
<1>4. /\ c.list # Empty /\ c.cleaned /\ disk' = disk /\ deleting' = deleting /\ uploaded' = uploaded
      /\ job' = [job EXCEPT !["cycle"] = j]
  <2>1. /\ c.list # Empty /\ c.cleaned /\ disk' = disk /\ deleting' = deleting /\ uploaded' = uploaded
        /\ job' = [job EXCEPT !["cycle"].list = l, !["cycle"].cleaned = FALSE, !["cycle"].used = u]
    BY <1>0, <1>1, <1>3 DEF JobDeletes, Types, Job, Cycle, Jobs
  <2> QED BY <1>0, <1>2, <2>1 DEF Types, Jobs, Cycle
<1>5. Cycle' = j BY <1>4, CycleSet
<1>6. /\ j.at = c.at /\ j.list = l /\ j.nodes = c.nodes /\ j.used = u /\ j.node = c.node /\ j.old = c.old
      /\ j.fresh = c.fresh /\ ~j.cleaned
  BY <1>2, <1>3 DEF Job
<1>7. /\ a \in DOMAIN c.list /\ DOMAIN l = DOMAIN c.list \ {a} /\ \A b \in DOMAIN l : l[b] = c.list[b]
      /\ DOMAIN c.list \subseteq Archives /\ a \in deleting
  BY <1>0, <1>3, <1>4, ListFacts DEF Ordered, Jobs, Cycle
<1>8. SizeMB[a] \in Nat /\ Weight[FileOf[a]] \in Nat /\ SizeMB[a] <= Weight[FileOf[a]] /\ FileOf[a] \in Files
  BY <1>7, WeightAssumption DEF Files
<1>9. Reported'
  <2>1. \A w : Used(w)' = Used(w) BY <1>4 DEF Used
  <2> QED BY <1>0, <1>5, <1>6, <2>1 DEF Estimated, Reported
<1>10. ASSUME j.at = "emergency" PROVE Remaining'
  <2>1. Remaining BY <1>0, <1>6, <1>10 DEF Estimated
  <2>2. /\ c.node \in Workers /\ c.used \in Nat /\ DOMAIN c.list \subseteq c.old /\ c.old \ DOMAIN c.list \subseteq deleting
        /\ \A b \in DOMAIN c.list : c.list[b].node = c.node
    BY <1>0, <2>1 DEF Remaining
  <2>3. u \in Nat BY <1>1, <1>8, <2>2
  <2>4. /\ DOMAIN l \subseteq c.old /\ c.old \ DOMAIN l \subseteq deleting /\ \A b \in DOMAIN l : l[b].node = c.node
    BY <1>7, <2>2
  <2>5. ASSUME c.fresh, \A b \in c.old : OwnName(b)'
        PROVE  Load(disk[c.node] \cup Packages(DOMAIN l)) <= u
    <3>1. \A b \in c.old : OwnName(b) BY <1>4, <2>5 DEF OwnName
    <3>2. /\ Load(disk[c.node] \cup Packages(DOMAIN c.list)) <= c.used /\ FileOf[a] \notin disk[c.node]
      BY <1>0, <1>4, <2>1, <2>5, <3>1 DEF Remaining
    <3>3. FileOf[a] \notin Packages(DOMAIN l)
      <4>1. DOMAIN c.list \subseteq 1..uploaded BY <1>0 DEF Types, TypeOK, Cycle, Jobs
      <4>2. OwnName(a) BY <1>7, <2>2, <3>1
      <4> QED BY <1>7, <4>1, <4>2 DEF OwnName, Packages
    <3>4. PICK S, T : S = disk[c.node] \cup Packages(DOMAIN c.list) /\ T = disk[c.node] \cup Packages(DOMAIN l) OBVIOUS
    <3>5. FileOf[a] \in S /\ T = S \ {FileOf[a]} BY <1>7, <3>2, <3>3, <3>4 DEF Packages
    <3>6. S \subseteq Files /\ T \subseteq Files BY <1>3, <2>2, <3>4, <3>5, CycleFacts
    <3>7. Load(S) = Weight[FileOf[a]] + Load(T) /\ Load(T) \in Nat BY <3>5, <3>6, LoadFacts
    <3>8. Load(T) <= u BY <1>1, <1>8, <2>2, <3>2, <3>4, <3>7
    <3> QED BY <3>4, <3>8
  <2> QED BY <1>4, <1>5, <1>6, <2>2, <2>3, <2>4, <2>5 DEF Remaining
<1> QED BY <1>5, <1>9, <1>10 DEF Estimated

\* The steps of which a cycle notices nothing, or that the disks are emptier or
\* its reports no longer hold.
LEMMA SameCycleCalm ==
    ASSUME Types, Cycle' = Cycle, \A w \in Workers : disk'[w] \subseteq disk[w],
           deleting \subseteq deleting', uploaded' = uploaded
    PROVE  CycleCalm
BY ArchivesAssumption DEF CycleCalm, Types, TypeOK

LEMMA TakesCalm ==
    ASSUME Types, NEW w \in Workers, NEW f, Takes(w, f), deleting' = deleting, uploaded' \in {uploaded, uploaded + 1}
    PROVE  CycleCalm
<1>1. PICK c, x : c = Cycle /\ x = (c.fresh /\ c.node # w /\ w \notin DOMAIN c.nodes) OBVIOUS
<1>2. Cycle' = [c EXCEPT !.fresh = x] BY <1>1 DEF Takes, Types, Cycle, Jobs
<1>3. PICK d : d = [c EXCEPT !.fresh = x] OBVIOUS
<1>4. c \in Job(c) BY <1>1, CycleFacts
<1>5. /\ d.at = c.at /\ d.list = c.list /\ d.cleaned = c.cleaned /\ d.nodes = c.nodes /\ d.used = c.used
      /\ d.node = c.node /\ d.old = c.old /\ d.fresh = x
  BY <1>3, <1>4 DEF Job
<1>6. \A v \in Workers \ {w} : disk'[v] = disk[v] BY DEF Takes, Types, TypeOK
<1>7. uploaded <= uploaded'
  <2>1. uploaded \in Nat BY ArchivesAssumption DEF Types, TypeOK
  <2> QED BY <2>1
<1>8. x => c.fresh /\ \A v \in Workers : v = c.node \/ v \in DOMAIN c.nodes => disk'[v] = disk[v] BY <1>1, <1>6
<1> QED BY <1>1, <1>2, <1>3, <1>5, <1>7, <1>8 DEF CycleCalm

LEMMA CleansShrink ==
    ASSUME Types, NEW w, NEW f, Cleans(w, f)
    PROVE  \A v \in Workers : disk'[v] \subseteq disk[v]
BY DEF Cleans, Frees, Types, TypeOK

LEMMA PinCalm == ASSUME Types, NEW a, NEW pinned, Pin(a, pinned) PROVE CycleCalm
<1>1. PICK c, x : c = Cycle /\ x = c.spared \cap asked' OBVIOUS
<1>2. Cycle' = [c EXCEPT !.spared = x] BY <1>1 DEF Pin, Types, Cycle, Jobs
<1>3. PICK d : d = [c EXCEPT !.spared = x] OBVIOUS
<1>4. c \in Job(c) BY <1>1, CycleFacts
<1>5. /\ d.at = c.at /\ d.list = c.list /\ d.cleaned = c.cleaned /\ d.nodes = c.nodes /\ d.used = c.used
      /\ d.node = c.node /\ d.old = c.old /\ d.fresh = c.fresh
  BY <1>3, <1>4 DEF Job
<1>6. disk' = disk /\ deleting' = deleting /\ uploaded' = uploaded /\ uploaded \in Nat
  BY ArchivesAssumption DEF Pin, Types, TypeOK
<1> QED BY <1>1, <1>2, <1>3, <1>5, <1>6 DEF CycleCalm

LEMMA RemovalCalm == ASSUME PInv, NEW r \in Removals, RemovalStep(r) PROVE CycleCalm
<1>0. Types BY DEF PInv
<1>1. CASE \/ \E w \in Workers, at \in {"copy", "order", "end"}, target \in Workers : RemovalStarts(r, w, at, target)
           \/ MigrateSaves(r) \/ RemovalDeletes(r) \/ RemovalEnds(r)
  <2>1. UNCHANGED <<job, disk, deleting, uploaded>>
    BY <1>1 DEF RemovalStarts, MigrateSaves, RemovalDeletes, RemovalEnds
  <2> QED BY <1>0, <2>1, SameCycleCalm DEF Cycle
<1>2. CASE MigrateCopies(r)
  <2>1. Takes(removal[r].target, FileOf[Subject(r)]) /\ deleting' = deleting /\ uploaded' = uploaded
    BY <1>2 DEF MigrateCopies, Stores
  <2>2. removal[r].target \in Workers BY <1>2 DEF MigrateCopies, Working, PInv, AtWork
  <2> QED BY <1>0, <2>1, <2>2, TakesCalm
<1>3. CASE MigrateSkips(r)
  <2>1. deleting' = deleting /\ uploaded' = uploaded /\ (UNCHANGED <<disk, job>> \/ Takes(removal[r].target, FileOf[Subject(r)]))
    BY <1>3 DEF MigrateSkips
  <2>2. removal[r].target \in Workers BY <1>3 DEF MigrateSkips, Working, PInv, AtWork
  <2> QED BY <1>0, <2>1, <2>2, TakesCalm, SameCycleCalm DEF Cycle
<1>4. CASE MigrateCleans(r) \/ RemovalOrders(r)
  <2>1. Cleans(removal[r].origin, FileOf[Subject(r)]) /\ job' = job /\ deleting \subseteq deleting' /\ uploaded' = uploaded
    BY <1>4 DEF MigrateCleans, RemovalOrders
  <2> QED BY <1>0, <2>1, CleansShrink, SameCycleCalm DEF Cycle
<1> QED BY <1>1, <1>2, <1>3, <1>4 DEF RemovalStep

\* What a user's deletion does.
LEMMA UserCalm ==
    ASSUME Types, JobOrders("user") \/ JobDeletes("user") \/ JobEnds("user") \/ \E a \in Archives : UserDeletes(a)
    PROVE  CycleCalm
<1>1. Cycle' = Cycle BY DEF JobOrders, JobDeletes, JobEnds, UserDeletes, Cycle, Types, Jobs
<1>2. \A w \in Workers : disk'[w] \subseteq disk[w]
  <2>1. CASE JobOrders("user")
    <3>1. PICK w, f : disk' = disk \/ disk' = [disk EXCEPT ![w] = @ \ {f}] BY <2>1 DEF JobOrders, Frees
    <3> QED BY <3>1 DEF Types, TypeOK
  <2>2. CASE ~JobOrders("user")
    <3>1. disk' = disk BY <2>2 DEF JobDeletes, JobEnds, UserDeletes
    <3> QED BY <3>1
  <2> QED BY <2>1, <2>2
<1>3. deleting \subseteq deleting' /\ uploaded' = uploaded BY DEF JobOrders, JobDeletes, JobEnds, UserDeletes
<1> QED BY <1>1, <1>2, <1>3, SameCycleCalm

\* The steps of the cycle itself.
CycleStep ==
    \/ \E cutoff \in 0..uploaded : CycleStarts(cutoff)
    \/ CycleListsNodes \/ CycleLeavesNode \/ \E w \in Workers : CycleTakesNode(w)
    \/ JobOrders("cycle") \/ JobDeletes("cycle") \/ JobEnds("cycle")

LEMMA CalmOrCycle == ASSUME PInv, [Next]_vars PROVE CycleCalm \/ CycleStep
<1>0. Types /\ DOMAIN job = Jobs BY DEF PInv, Types
<1>1. ASSUME NEW w \in Workers, WorkerStep(w) PROVE CycleCalm
  <2>1. CASE MarkOnline(w) \/ MarkOffline(w)
    <3>1. UNCHANGED <<job, disk, deleting, uploaded>> BY <2>1 DEF MarkOnline, MarkOffline
    <3> QED BY <1>0, <3>1, SameCycleCalm DEF Cycle
  <2>2. CASE UploadStores(w)
    <3>1. Takes(w, FileOf[uploaded + 1]) /\ deleting' = deleting /\ uploaded' = uploaded + 1
      BY <2>2 DEF UploadStores, Stores
    <3> QED BY <1>0, <3>1, TakesCalm
  <2> QED BY <1>1, <2>1, <2>2 DEF WorkerStep
<1>2. ASSUME UploadSaves \/ EditSaves \/ (\E a \in Archives : EditReads(a)) \/ UNCHANGED vars PROVE CycleCalm
  <2>1. UNCHANGED <<job, disk, deleting, uploaded>> BY <1>2 DEF UploadSaves, EditSaves, EditReads, vars
  <2> QED BY <1>0, <2>1, SameCycleCalm DEF Cycle
<1>3. ASSUME NEW a \in Archives, NEW pinned \in BOOLEAN, Pin(a, pinned) PROVE CycleCalm BY <1>0, <1>3, PinCalm
<1>4. ASSUME JobStep PROVE CycleCalm \/ CycleStep BY <1>0, <1>4, UserCalm DEF JobStep, CycleStep, Jobs
<1> QED BY <1>1, <1>2, <1>3, <1>4, RemovalCalm DEF Next

LEMMA NextEstimated == ASSUME PInv, PInv', Estimated, [Next]_vars PROVE Estimated'
<1>0. Types /\ Types' /\ Ordered BY DEF PInv
<1>1. CASE CycleCalm BY <1>0, <1>1, CalmKeeps
<1>2. CASE CycleStep
  BY <1>0, <1>2, CycleStartsEstimates, CycleListsNodesEstimates, CycleLeavesNodeEstimates, CycleTakesNodeEstimates,
     JobOrdersEstimates, JobDeletesEstimates, JobEndsEstimates DEF CycleStep
<1> QED BY <1>1, <1>2, CalmOrCycle

\* The cycle leaves a node only by CycleLeavesNode.
LEMMA LeavesOnly ==
    ASSUME PInv, [Next]_vars, Cycle.at = "emergency", Cycle'.at = "nodes"
    PROVE  CycleLeavesNode
<1>0. PICK c : c = Cycle OBVIOUS
<1>1. c \in Job(c) /\ Types BY <1>0, CycleFacts DEF PInv
<1>2. ~CycleCalm BY DEF CycleCalm
<1>3. ASSUME NEW cutoff, CycleStarts(cutoff) PROVE FALSE
  BY <1>3, IdleFacts DEF CycleStarts, Cycle
<1>4. ~CycleListsNodes /\ \A w \in Workers : ~CycleTakesNode(w) BY DEF CycleListsNodes, CycleTakesNode, Cycle
<1>5. ~JobEnds("cycle") BY DEF JobEnds, Cycle
<1>6. ASSUME JobOrders("cycle") PROVE FALSE
  <2>1. PICK b : Cycle' = [c EXCEPT !.cleaned = TRUE] \/ Cycle' = [c EXCEPT !.cleaned = TRUE, !.fresh = b]
    BY <1>0, <1>1, <1>6 DEF JobOrders, Types, Cycle, Jobs
  <2>2. [c EXCEPT !.cleaned = TRUE].at = c.at /\ [c EXCEPT !.cleaned = TRUE, !.fresh = b].at = c.at BY <1>1 DEF Job
  <2> QED BY <1>0, <2>1, <2>2
<1>7. ASSUME JobDeletes("cycle") PROVE FALSE
  <2>1. PICK l, u : job' = [job EXCEPT !["cycle"].list = l, !["cycle"].cleaned = FALSE, !["cycle"].used = u]
    <3>1. PICK l, u : l = Rest(c.list) /\ u = IF record[First(c.list)] = None THEN c.used
                                              ELSE IF c.used - SizeMB[First(c.list)] < 0 THEN 0 ELSE c.used - SizeMB[First(c.list)]
      OBVIOUS
    <3> QED BY <1>0, <1>1, <1>7, <3>1 DEF JobDeletes, Types, Job, Cycle, Jobs
  <2>2. Cycle' = [c EXCEPT !.list = l, !.cleaned = FALSE, !.used = u] BY <1>0, <1>1, <2>1 DEF Types, Cycle, Jobs
  <2>3. [c EXCEPT !.list = l, !.cleaned = FALSE, !.used = u].at = c.at BY <1>1 DEF Job
  <2> QED BY <1>0, <2>2, <2>3
<1> QED BY <1>2, <1>3, <1>4, <1>5, <1>6, <1>7, CalmOrCycle DEF CycleStep

\* A cycle whose reports were not too low and whose orders arrived leaves a node only
\* with the disk at the target or with nothing left to clean, for any sizes and
\* watermarks, whatever the other actors do to the archives on its list.
THEOREM CleansUntilTarget == Spec => CleansEnough
<1>1. ASSUME PInv, Estimated, [Next]_vars, NEW w \in Workers,
             Cycle.at = "emergency", Cycle.node = w, Cycle'.at = "nodes", Cycle.fresh, \A a \in Cycle.old : OwnName(a)
      PROVE  Used(w) <= Target \/ Cycle.old \subseteq deleting
  <2>1. CycleLeavesNode BY <1>1, LeavesOnly
  <2>2. Remaining BY <1>1 DEF Estimated
  <2>3. CASE Cycle.list = Empty BY <2>2, <2>3, EmptyFacts DEF Remaining
  <2>4. CASE Cycle.used <= Target
    <3>1. PICK S, T : S = disk[w] /\ T = disk[w] \cup Packages(DOMAIN Cycle.list) OBVIOUS
    <3>2. Load(T) <= Cycle.used /\ Cycle.used \in Nat BY <1>1, <2>2, <3>1 DEF Remaining
    <3>3. S \subseteq T /\ S \subseteq Files /\ T \subseteq Files
      <4>1. Types BY <1>1 DEF PInv
      <4> QED BY <3>1, <4>1, CycleFacts
    <3>4. Load(S) \in Nat /\ Load(T) \in Nat /\ Load(S) <= Load(T) BY <3>3, LoadFacts
    <3>5. Used(w) = Load(S) BY <3>1 DEF Used, Load
    <3> QED BY <2>4, <3>2, <3>4, <3>5, WatermarkAssumption
  <2> QED BY <2>1, <2>3, <2>4 DEF CycleLeavesNode, Enough, Cycle
<1>2. PInv /\ Estimated /\ [Next]_vars =>
        [\A w \in Workers :
           (/\ job["cycle"].at = "emergency" /\ job["cycle"].node = w /\ job'["cycle"].at = "nodes"
            /\ job["cycle"].fresh /\ \A a \in job["cycle"].old : OwnName(a))
           => Used(w) <= Target \/ job["cycle"].old \subseteq deleting]_vars
  BY <1>1 DEF Cycle
<1>3. Init => PInv /\ Estimated BY InitPlaced, InitEstimated
<1>4. PInv /\ Estimated /\ [Next]_vars => PInv' /\ Estimated' BY NextPlaced, NextEstimated
<1> QED BY <1>2, <1>3, <1>4, PTL DEF Spec, CleansEnough
=============================================================================
