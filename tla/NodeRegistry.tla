---------------------------- MODULE NodeRegistry ----------------------------
(***************************************************************************)
(* The registry of worker nodes on the active manager: heartbeats, the     *)
(* health monitor, the sweep of GET /api/nodes, maintenance, removal,      *)
(* manual adding and SSH deployment (internal/manager/api.go, the node     *)
(* bucket of internal/store/store.go, the heartbeat side of                *)
(* internal/worker/agent.go).                                              *)
(*                                                                         *)
(* A worker is an address, IP and port.  Its record may lie under three    *)
(* IDs: the agent's own "worker_<name>_<port>", the manager's              *)
(* "worker_<ip>_<port>" and the deployment placeholder "node_<ip>".  Each  *)
(* store call is a transaction of its own, so a handler is several steps   *)
(* and carries copies of records from one to the next.                     *)
(***************************************************************************)
EXTENDS Naturals, FiniteSets

CONSTANTS
    Worker,
    FirstID,          \* ID of the record every worker starts with, if any
    MaxFaults,        \* bounds: failures of workers and links,
    MaxOps            \*   operations of the administrators: removals, additions,
                      \*   maintenance switches, deployments and listings

ID == {"agent", "addr", "host"}

NoID == "none"

ASSUME FirstIDType == FirstID \in ID \cup {NoID}
ASSUME BoundsType  == MaxFaults \in Nat /\ MaxOps \in Nat

VARIABLES
    nodes,      \* bucket nodes: record under each ID of each worker, or NoNode
    gone,       \* bucket decommissioned_nodes
    alarm,      \* IDs with an open NODE_OFFLINE alarm
    agent,      \* worker process: alive, dead (it will restart), stopped (for good)
    link,       \* network between worker and manager
    beat,       \* handleClusterHeartbeat of the worker
    monitor,    \* stale nodes of the monitor's listing, still to be marked
    raising,    \* nodes it has marked and not yet raised the alarm of
    sweep,      \* stale nodes of a listing for GET /api/nodes
    drain,      \* handleNodeMaintenance in progress
    adding,     \* POST /api/nodes of an address: the step it is at, as below
    removing,   \* removal of a record: the step, and whether it has read a record
    deploying,  \* POST /api/nodes/deploy and its goroutine
    count       \* failures and operations so far, and whether a listing was among them

clientVars == <<drain, adding, removing, deploying>>
registryVars == <<nodes, gone, alarm, agent, link, beat, monitor, raising, sweep,
                  drain, adding, removing, deploying, count>>

(* Age of the last heartbeat: 0 up to 12 s, 1 up to 15 s, 2 beyond. *)
NodeRecord == [status : {"online", "offline", "maintenance", "installing", "failed"}, age : 0..2]
NoNode == [status |-> "none", age |-> 0]
Slot   == Worker \X ID

Count == [fault : 0..MaxFaults, op : 0..MaxOps, listed : BOOLEAN]

NoBeat  == [at |-> "idle", id |-> NoID, keep |-> FALSE]
NoDrain == [at |-> "idle"]
NotRemoving == [at |-> "idle", known |-> FALSE]

RegistryTypeOK ==
    /\ nodes \in [Slot -> NodeRecord \cup {NoNode}]
    /\ gone \subseteq Slot /\ alarm \subseteq Slot
    /\ agent \in [Worker -> {"alive", "dead", "stopped"}]
    /\ link \in [Worker -> BOOLEAN]
    /\ beat \in [Worker -> [at : {"idle", "looked", "accepted", "saved"},
                            id : ID \cup {NoID}, keep : BOOLEAN]]
    /\ \A w \in Worker : beat[w].at \in {"accepted", "saved"} => beat[w].id \in ID
    /\ monitor \subseteq Slot \X (1..2) /\ raising \subseteq Slot
    /\ sweep \subseteq Slot
    /\ drain = NoDrain \/ drain \in [at : Slot, age : 0..2, to : {"online", "maintenance"}]
    /\ adding \in [Worker -> {"idle", "checked", "cleared"}]
    /\ removing \in [Slot -> [at : {"idle", "read", "resolve", "order"}, known : BOOLEAN]]
    /\ deploying \in [Worker -> {"idle", "checked", "host", "agent", "installing"}]
    /\ count \in Count

RecordedIDs(w) == {i \in ID : nodes[w, i] # NoNode}

(* GetNodeByAddr: the first match in key order; "node_" sorts before       *)
(* "worker_", the other two IDs in either order.                           *)
Found(w) ==
    IF RecordedIDs(w) = {} THEN {NoID}
    ELSE IF "host" \in RecordedIDs(w) THEN {"host"} ELSE RecordedIDs(w)

RegistryInit ==
    /\ nodes = [s \in Slot |-> IF s[2] = FirstID THEN [status |-> "online", age |-> 0] ELSE NoNode]
    /\ gone = {} /\ alarm = {}
    /\ agent = [w \in Worker |-> "alive"] /\ link = [w \in Worker |-> TRUE]
    /\ beat = [w \in Worker |-> NoBeat]
    /\ monitor = {} /\ raising = {} /\ sweep = {}
    /\ drain = NoDrain
    /\ adding = [w \in Worker |-> "idle"]
    /\ removing = [s \in Slot |-> NotRemoving]
    /\ deploying = [w \in Worker |-> "idle"]
    /\ count = [fault |-> 0, op |-> 0, listed |-> FALSE]

-----------------------------------------------------------------------------
(* sendHeartbeat and handleClusterHeartbeat.                               *)

BeatLooks(w) ==
    /\ agent[w] = "alive" /\ link[w] /\ beat[w].at = "idle"
    /\ \E i \in Found(w) :
          beat' = [beat EXCEPT ![w] =
              [at |-> "looked", id |-> i,
               keep |-> i # NoID /\ nodes[w, i].status = "maintenance"]]
    /\ UNCHANGED <<nodes, gone, alarm, agent, link, monitor, raising, sweep, clientVars, count>>

\* Mutant: only the ID of the record is looked up among the removed ones.
RefusedByRecordID(w) == <<w, beat[w].id>> \in gone

Refused(w) == {<<w, "agent">>, <<w, beat[w].id>>} \cap gone # {}

\* 410 Gone: the agent that gets the answer stops for good.
BeatRefused(w) ==
    /\ beat[w].at = "looked" /\ Refused(w)
    /\ beat' = [beat EXCEPT ![w] = NoBeat]
    /\ agent' = IF agent[w] = "alive" /\ link[w] THEN [agent EXCEPT ![w] = "stopped"] ELSE agent
    /\ UNCHANGED <<nodes, gone, alarm, link, monitor, raising, sweep, clientVars, count>>

BeatID(w) == IF beat[w].id = NoID THEN "agent" ELSE beat[w].id

BeatAccepted(w) ==
    /\ beat[w].at = "looked" /\ ~Refused(w)
    /\ beat' = [beat EXCEPT ![w].at = "accepted", ![w].id = BeatID(w)]
    /\ UNCHANGED <<nodes, gone, alarm, agent, link, monitor, raising, sweep, clientVars, count>>

BeatStatus(w) == IF beat[w].keep THEN "maintenance" ELSE "online"

BeatSaves(w) ==
    /\ beat[w].at = "accepted"
    /\ nodes' = [nodes EXCEPT ![<<w, beat[w].id>>] = [status |-> BeatStatus(w), age |-> 0]]
    /\ beat' = [beat EXCEPT ![w].at = "saved"]
    /\ UNCHANGED <<gone, alarm, agent, link, monitor, raising, sweep, clientVars, count>>

\* Mutant: the heartbeat leaves the alarm to the administrator.
ResolvedByNoOne(w) == {}

Resolved(w) == {<<w, beat[w].id>>}

BeatResolves(w) ==
    /\ beat[w].at = "saved"
    /\ alarm' = alarm \ Resolved(w)
    /\ beat' = [beat EXCEPT ![w] = NoBeat]
    /\ UNCHANGED <<nodes, gone, agent, link, monitor, raising, sweep, clientVars, count>>

Heartbeat(w) == BeatLooks(w) \/ BeatRefused(w) \/ BeatAccepted(w) \/ BeatSaves(w) \/ BeatResolves(w)

-----------------------------------------------------------------------------
(* startNodeHealthAndAlarmMonitor: one listing, then the stale nodes one   *)
(* after the other, each saved as it was listed.                           *)

Stale(limit) == {s \in Slot : nodes[s].status = "online" /\ nodes[s].age >= limit}

MonitorLists ==
    /\ monitor = {} /\ raising = {} /\ Stale(1) # {}
    /\ monitor' = {<<s, nodes[s].age>> : s \in Stale(1)}
    /\ UNCHANGED <<nodes, gone, alarm, agent, link, beat, raising, sweep, clientVars, count>>

\* Mutant: a node is marked offline and no alarm raised.
RaisedForNone(s) == {}

Raised(s) == {s}

MonitorMarks(m) ==
    /\ m \in monitor /\ raising = {}
    /\ monitor' = monitor \ {m}
    /\ nodes' = [nodes EXCEPT ![m[1]] = [status |-> "offline", age |-> m[2]]]
    /\ raising' = Raised(m[1])
    /\ UNCHANGED <<gone, alarm, agent, link, beat, sweep, clientVars, count>>

MonitorRaises ==
    /\ raising # {}
    /\ alarm' = alarm \cup raising
    /\ raising' = {}
    /\ UNCHANGED <<nodes, gone, agent, link, beat, monitor, sweep, clientVars, count>>

Monitor == MonitorLists \/ (\E m \in monitor : MonitorMarks(m)) \/ MonitorRaises

(* handleNodes, GET: the same after 15 seconds, without an alarm. *)
SweepLists ==
    /\ sweep = {} /\ Stale(2) # {} /\ count.op < MaxOps
    /\ sweep' = Stale(2)
    /\ count' = [count EXCEPT !.op = @ + 1, !.listed = TRUE]
    /\ UNCHANGED <<nodes, gone, alarm, agent, link, beat, monitor, raising, clientVars>>

SweepMarks(s) ==
    /\ s \in sweep
    /\ sweep' = sweep \ {s}
    /\ nodes' = [nodes EXCEPT ![s] = [status |-> "offline", age |-> 2]]
    /\ UNCHANGED <<gone, alarm, agent, link, beat, monitor, raising, clientVars, count>>

Sweep == SweepLists \/ \E s \in sweep : SweepMarks(s)

-----------------------------------------------------------------------------
(* handleNodeMaintenance. *)

DrainReads(s, to) ==
    /\ drain = NoDrain /\ nodes[s] # NoNode /\ count.op < MaxOps
    /\ drain' = [at |-> s, age |-> nodes[s].age, to |-> to]
    /\ count' = [count EXCEPT !.op = @ + 1]
    /\ UNCHANGED <<nodes, gone, alarm, agent, link, beat, monitor, raising, sweep,
                   adding, removing, deploying>>

DrainSaves ==
    /\ drain # NoDrain
    /\ nodes' = [nodes EXCEPT ![drain.at] = [status |-> drain.to, age |-> drain.age]]
    /\ drain' = NoDrain
    /\ UNCHANGED <<gone, alarm, agent, link, beat, monitor, raising, sweep,
                   adding, removing, deploying, count>>

(* handleNodes, POST: the duplicate check, the clearing of an earlier        *)
(* removal and the saving are three transactions.  One request of a kind for *)
(* an address at a time.                                                     *)
Free(w) == \E i \in Found(w) : i \in ID => nodes[w, i].status = "failed"

AddChecks(w) ==
    /\ adding[w] = "idle" /\ count.op < MaxOps /\ Free(w)
    /\ adding' = [adding EXCEPT ![w] = "checked"]
    /\ count' = [count EXCEPT !.op = @ + 1]
    /\ UNCHANGED <<nodes, gone, alarm, agent, link, beat, monitor, raising, sweep,
                   drain, removing, deploying>>

AddClears(w) ==
    /\ adding[w] = "checked"
    /\ adding' = [adding EXCEPT ![w] = "cleared"]
    /\ gone' = gone \ {<<w, "addr">>}
    /\ UNCHANGED <<nodes, alarm, agent, link, beat, monitor, raising, sweep,
                   drain, removing, deploying, count>>

AddSaves(w) ==
    /\ adding[w] = "cleared"
    /\ adding' = [adding EXCEPT ![w] = "idle"]
    /\ nodes' = [nodes EXCEPT ![<<w, "addr">>] = [status |-> "online", age |-> 0]]
    /\ UNCHANGED <<gone, alarm, agent, link, beat, monitor, raising, sweep,
                   drain, removing, deploying, count>>

(* handleNodeItem, DELETE of any ID, and the end of every branch of          *)
(* handleRemoveNode, which asks for a record when it begins.                 *)
RemoveReads(s) ==
    /\ removing[s].at = "idle" /\ count.op < MaxOps
    /\ removing' = [removing EXCEPT ![s] = [at |-> "read", known |-> nodes[s] # NoNode]]
    /\ count' = [count EXCEPT !.op = @ + 1]
    /\ UNCHANGED <<nodes, gone, alarm, agent, link, beat, monitor, raising, sweep,
                   drain, adding, deploying>>

RemoveDecommissions(s) ==
    /\ removing[s].at = "read"
    /\ nodes' = [nodes EXCEPT ![s] = NoNode]
    /\ gone' = gone \cup {s}
    /\ removing' = [removing EXCEPT ![s].at = "resolve"]
    /\ UNCHANGED <<alarm, agent, link, beat, monitor, raising, sweep,
                   drain, adding, deploying, count>>

RemoveResolves(s) ==
    /\ removing[s].at = "resolve"
    /\ alarm' = alarm \ {s}
    /\ removing' = [removing EXCEPT ![s] = IF @.known THEN [@ EXCEPT !.at = "order"] ELSE NotRemoving]
    /\ UNCHANGED <<nodes, gone, agent, link, beat, monitor, raising, sweep,
                   drain, adding, deploying, count>>

\* The order to the worker is sent once, whatever comes of it.
RemoveOrders(s) ==
    /\ removing[s].at = "order"
    /\ removing' = [removing EXCEPT ![s] = NotRemoving]
    /\ agent' = IF agent[s[1]] = "alive" /\ link[s[1]]
                THEN [agent EXCEPT ![s[1]] = "stopped"] ELSE agent
    /\ UNCHANGED <<nodes, gone, alarm, link, beat, monitor, raising, sweep,
                   drain, adding, deploying, count>>

Removal(s) == RemoveDecommissions(s) \/ RemoveResolves(s) \/ RemoveOrders(s)

(* handleDeployWorker: the duplicate check, the clearing of the host's ID and *)
(* of the agent's, a placeholder under the host's ID, the installation in a   *)
(* goroutine, and the placeholder deleted or saved again as failed.           *)
DeployChecks(w) ==
    /\ deploying[w] = "idle" /\ count.op < MaxOps /\ Free(w)
    /\ deploying' = [deploying EXCEPT ![w] = "checked"]
    /\ count' = [count EXCEPT !.op = @ + 1]
    /\ UNCHANGED <<nodes, gone, alarm, agent, link, beat, monitor, raising, sweep,
                   drain, adding, removing>>

DeployClears(w) ==
    /\ \/ /\ deploying[w] = "checked"
          /\ deploying' = [deploying EXCEPT ![w] = "host"]
          /\ gone' = gone \ {<<w, "host">>}
       \/ /\ deploying[w] = "host"
          /\ deploying' = [deploying EXCEPT ![w] = "agent"]
          /\ gone' = gone \ {<<w, "agent">>}
    /\ UNCHANGED <<nodes, alarm, agent, link, beat, monitor, raising, sweep,
                   drain, adding, removing, count>>

DeploySaves(w) ==
    /\ deploying[w] = "agent"
    /\ deploying' = [deploying EXCEPT ![w] = "installing"]
    /\ nodes' = [nodes EXCEPT ![<<w, "host">>] = [status |-> "installing", age |-> 0]]
    /\ UNCHANGED <<gone, alarm, agent, link, beat, monitor, raising, sweep,
                   drain, adding, removing, count>>

DeployStartsAgent(w) ==
    /\ deploying[w] = "installing" /\ agent[w] # "alive"
    /\ agent' = [agent EXCEPT ![w] = "alive"]
    /\ UNCHANGED <<nodes, gone, alarm, link, beat, monitor, raising, sweep, clientVars, count>>

DeploySucceeds(w) ==
    /\ deploying[w] = "installing" /\ agent[w] = "alive"
    /\ deploying' = [deploying EXCEPT ![w] = "idle"]
    /\ nodes' = [nodes EXCEPT ![<<w, "host">>] = NoNode]
    /\ UNCHANGED <<gone, alarm, agent, link, beat, monitor, raising, sweep,
                   drain, adding, removing, count>>

DeployFails(w) ==
    /\ deploying[w] = "installing"
    /\ deploying' = [deploying EXCEPT ![w] = "idle"]
    /\ nodes' = [nodes EXCEPT ![<<w, "host">>] = [status |-> "failed", age |-> 2]]
    /\ UNCHANGED <<gone, alarm, agent, link, beat, monitor, raising, sweep,
                   drain, adding, removing, count>>

-----------------------------------------------------------------------------
(* The environment.  A heartbeat is late only when two in a row could not  *)
(* be delivered, and the handler of the one before has long returned.      *)

Late(w) ==
    /\ ~(agent[w] = "alive" /\ link[w]) /\ beat[w].at = "idle"
    /\ \E i \in RecordedIDs(w) : nodes[w, i].age < 2
    /\ nodes' = [s \in Slot |-> IF s[1] = w /\ nodes[s] # NoNode /\ nodes[s].age < 2
                               THEN [nodes[s] EXCEPT !.age = @ + 1] ELSE nodes[s]]
    /\ UNCHANGED <<gone, alarm, agent, link, beat, monitor, raising, sweep, clientVars, count>>

Fail(w) ==
    /\ count.fault < MaxFaults
    /\ count' = [count EXCEPT !.fault = @ + 1]
    /\ \/ agent[w] = "alive" /\ agent' = [agent EXCEPT ![w] = "dead"] /\ UNCHANGED link
       \/ link[w] /\ link' = [link EXCEPT ![w] = FALSE] /\ UNCHANGED agent
    /\ UNCHANGED <<nodes, gone, alarm, beat, monitor, raising, sweep, clientVars>>

Recover(w) ==
    /\ \/ agent[w] = "dead" /\ agent' = [agent EXCEPT ![w] = "alive"] /\ UNCHANGED link
       \/ ~link[w] /\ link' = [link EXCEPT ![w] = TRUE] /\ UNCHANGED agent
    /\ UNCHANGED <<nodes, gone, alarm, beat, monitor, raising, sweep, clientVars, count>>

-----------------------------------------------------------------------------

RegistryNext ==
    \/ \E w \in Worker : Heartbeat(w)
    \/ Monitor \/ Sweep
    \/ \E s \in Slot : \E to \in {"online", "maintenance"} : DrainReads(s, to)
    \/ DrainSaves
    \/ \E w \in Worker : AddChecks(w) \/ AddClears(w) \/ AddSaves(w)
    \/ \E s \in Slot : RemoveReads(s) \/ Removal(s)
    \/ \E w \in Worker : \/ DeployChecks(w) \/ DeployClears(w) \/ DeploySaves(w)
                         \/ DeployStartsAgent(w) \/ DeploySucceeds(w) \/ DeployFails(w)
    \/ \E w \in Worker : Late(w) \/ Fail(w) \/ Recover(w)

RegistrySpec == RegistryInit /\ [][RegistryNext]_registryVars

(* The tickers keep ticking and a handler that has started goes on; time   *)
(* passes.  Nothing makes a worker or a link recover.                      *)
Fairness ==
    /\ \A w \in Worker : WF_registryVars(Heartbeat(w)) /\ WF_registryVars(Late(w))
    /\ WF_registryVars(Monitor)
    /\ WF_registryVars(\E s \in sweep : SweepMarks(s))
    /\ WF_registryVars(DrainSaves)
    /\ \A s \in Slot : WF_registryVars(Removal(s))
    /\ \A w \in Worker :
          /\ WF_registryVars(AddClears(w) \/ AddSaves(w))
          /\ WF_registryVars(\/ DeployClears(w) \/ DeploySaves(w)
                             \/ DeploySucceeds(w) \/ DeployFails(w))

FairSpec == RegistrySpec /\ Fairness

-----------------------------------------------------------------------------
(* Properties *)

(* As long as nobody lists the nodes, a worker that dies with its record      *)
(* online is reported: an alarm is raised, unless it comes back or an         *)
(* administrator takes the node over.                                         *)
DeadWorkerIsAlarmed ==
    \A w \in Worker : \A i \in ID :
        (agent[w] # "alive" /\ beat[w].at = "idle" /\ nodes[w, i].status = "online")
            ~> (\/ <<w, i>> \in alarm \/ agent[w] = "alive" \/ count.listed
                \/ nodes[w, i].status \notin {"online", "offline"})

(* A worker that is up and connected from some time on gets its record back,  *)
(* online or in maintenance, without an alarm, whatever the monitor did with  *)
(* what it had read before.                                                   *)
RecoveredWorkerIsBack ==
    \A w \in Worker :
        <>[](agent[w] = "alive" /\ link[w]) =>
        <>[](\E i \in ID : nodes[w, i].status \in {"online", "maintenance"} /\ <<w, i>> \notin alarm)

(* A worker removed under its own ID stops, even when the order to stop was   *)
(* lost: its next heartbeat is answered 410.                                  *)
RemovedWorkerStops ==
    \A w \in Worker :
        (<<w, "agent">> \in gone /\ agent[w] = "alive")
            ~> (agent[w] # "alive" \/ ~link[w] \/ <<w, "agent">> \notin gone)

(* A removal is final once no step under way holds a copy of the record: the *)
(* heartbeat of the removed node, the monitor, a listing, a maintenance switch *)
(* or a deployment never brings the record back, however the worker goes on,  *)
(* until the node is added or deployed again.                                 *)
(* (With a copy in hand each of them does: none saves in the transaction it    *)
(* has read, checked or cleared in.  A removal between the clearing and the    *)
(* saving of an addition leaves a record that is removed as well.)             *)
CopyHeld(s) ==
    \/ \E age \in 1..2 : <<s, age>> \in monitor
    \/ s \in sweep \/ (drain # NoDrain /\ drain.at = s)
    \/ beat[s[1]].at = "accepted" /\ beat[s[1]].id = s[2]
    \/ adding[s[1]] = "cleared" /\ s[2] = "addr"
    \/ deploying[s[1]] \in {"host", "agent", "installing"} /\ s[2] = "host"

Out(s) == s \in gone /\ nodes[s] = NoNode /\ ~CopyHeld(s)

RemovedStaysOut == [][\A s \in Slot : Out(s) => Out(s)' \/ s \notin gone']_registryVars
=============================================================================
