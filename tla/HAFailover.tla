----------------------------- MODULE HAFailover -----------------------------
(***************************************************************************)
(* The active/standby state machine of a pair of managers: the heartbeat   *)
(* probe, the failover with its gateway and worker-quorum checks, the      *)
(* self-demotion of an isolated active manager, the operator's switchover  *)
(* and the restart of a manager (internal/manager/ha.go, ha_quorum.go and  *)
(* the /api/ha handlers of api.go).                                        *)
(*                                                                         *)
(* A probe is two steps, because the peer reads its role when it answers   *)
(* and the prober acts on the answer later, under its own lock.  A         *)
(* switchover is a request the peer serves when it gets its lock, which    *)
(* may be after the caller's three-second client timeout.                  *)
(***************************************************************************)
EXTENDS Naturals, FiniteSets

CONSTANTS
    NodeA, NodeB,        \* the two managers
    Worker,              \* the worker nodes
    Mode,                \* configured HA mode of each manager
    Registry,            \* workers in the node bucket of each manager's store
    FailoverLimit,       \* failed probes that make a failover due
    EnableGatewayCheck,
    EnableWorkerQuorum,
    MaxFaults,           \* bound on the failures the environment injects
    MaxSwitch            \* bound on the operator's switchovers

Manager == {NodeA, NodeB}

ASSUME ManagersDiffer == NodeA # NodeB
ASSUME WorkersFinite  == IsFiniteSet(Worker)
ASSUME ModeType       == Mode \in [Manager -> {"primary", "backup"}]
ASSUME RegistryType   == Registry \in [Manager -> SUBSET Worker]
ASSUME LimitType      == FailoverLimit \in Nat \ {0}
ASSUME ChecksType     == EnableGatewayCheck \in BOOLEAN /\ EnableWorkerQuorum \in BOOLEAN
ASSUME BoundsType     == MaxFaults \in Nat /\ MaxSwitch \in Nat

VARIABLES
    \* HAManager, one of each per manager
    role, peerOnline, consecutiveFailures, vipActive, quorumPassed, splitBrainBlocked,
    probe,        \* heartbeat goroutine: idle, or what the probe in hand came back with
    switchover,   \* Switchover() call of the manager: where it stands
    request,      \* promote or demote request it sent, not yet served by the peer
    \* the environment
    up, link, gateway, reach, faults, switches

haVars  == <<role, peerOnline, consecutiveFailures, vipActive, quorumPassed, splitBrainBlocked>>
opVars  == <<switchover, request, switches>>
envVars == <<up, link, gateway, reach, faults>>
failoverVars    == <<haVars, probe, opVars, envVars>>

Peer(m)   == IF m = NodeA THEN NodeB ELSE NodeA
Active(m) == up[m] /\ role[m] = "active"

ProbeState      == {"idle", "active", "standby", "failed"}
SwitchoverState == {"idle", "awaitPromote", "awaitDemote", "demoteSelf", "promoteSelf"}

FailoverTypeOK ==
    /\ role \in [Manager -> {"active", "standby"}]
    /\ peerOnline \in [Manager -> BOOLEAN]
    /\ consecutiveFailures \in [Manager -> 0..FailoverLimit]
    /\ vipActive \in [Manager -> BOOLEAN]
    /\ quorumPassed \in [Manager -> BOOLEAN]
    /\ splitBrainBlocked \in [Manager -> BOOLEAN]
    /\ probe \in [Manager -> ProbeState]
    /\ switchover \in [Manager -> SwitchoverState]
    /\ request \in [Manager -> {"none", "promote", "demote"}]
    /\ up \in [Manager -> BOOLEAN]
    /\ link \in [Manager -> BOOLEAN]
    /\ gateway \in [Manager -> BOOLEAN]
    /\ reach \in [Manager -> SUBSET Worker]
    /\ faults \in 0..MaxFaults
    /\ switches \in 0..MaxSwitch

InitialRole(m) == IF Mode[m] = "backup" THEN "standby" ELSE "active"

FailoverInit ==
    /\ role = [m \in Manager |-> InitialRole(m)]
    /\ peerOnline = [m \in Manager |-> FALSE]
    /\ consecutiveFailures = [m \in Manager |-> 0]
    /\ vipActive = [m \in Manager |-> InitialRole(m) = "active"]
    /\ quorumPassed = [m \in Manager |-> TRUE]
    /\ splitBrainBlocked = [m \in Manager |-> FALSE]
    /\ probe = [m \in Manager |-> "idle"]
    /\ switchover = [m \in Manager |-> "idle"]
    /\ request = [m \in Manager |-> "none"]
    /\ up = [m \in Manager |-> TRUE]
    /\ link = [m \in Manager |-> TRUE]
    /\ gateway = [m \in Manager |-> TRUE]
    /\ reach = [m \in Manager |-> Worker]
    /\ faults = 0
    /\ switches = 0

-----------------------------------------------------------------------------
(* The checks of ha_quorum.go. *)

\* Mutant: half of the workers is enough.
QuorumPassedByHalf(m) ==
    \/ Registry[m] = {}
    \/ Cardinality(Registry[m] \cap reach[m]) >= Cardinality(Registry[m]) \div 2

\* CheckWorkerQuorum: a strict majority of the registered workers answers.
QuorumPassed(m) ==
    \/ Registry[m] = {}
    \/ Cardinality(Registry[m] \cap reach[m]) > Cardinality(Registry[m]) \div 2

CheckSplitBrainSafety(m) ==
    /\ EnableGatewayCheck => gateway[m]
    /\ EnableWorkerQuorum => QuorumPassed(m)

-----------------------------------------------------------------------------
(* heartbeatLoop and probePeer. *)

PeerReachable(m) == link[m] /\ up[Peer(m)]

\* The peer's heartbeat handler reads its role and answers.
ProbeAnswered(m) ==
    /\ up[m] /\ probe[m] = "idle" /\ PeerReachable(m)
    /\ probe' = [probe EXCEPT ![m] = role[Peer(m)]]
    /\ UNCHANGED <<haVars, opVars, envVars>>

ProbeUnanswered(m) ==
    /\ up[m] /\ probe[m] = "idle" /\ ~PeerReachable(m)
    /\ probe' = [probe EXCEPT ![m] = "failed"]
    /\ UNCHANGED <<haVars, opVars, envVars>>

\* Mutant: the primary yields only when it meets the peer for the first time.
YieldsAtFirstContact(m) ==
    role[m] = "active" /\ probe[m] = "active" /\ Mode[m] = "primary" /\ ~peerOnline[m]

\* Mutant: the primary yields to any peer that answers.
YieldsToAnyPeer(m) == role[m] = "active" /\ Mode[m] = "primary"

\* A primary that is active and learns of an active peer steps down.
YieldsToPeer(m) == role[m] = "active" /\ probe[m] = "active" /\ Mode[m] = "primary"

HeartbeatSucceeded(m) ==
    /\ up[m] /\ probe[m] \in {"active", "standby"}
    /\ probe' = [probe EXCEPT ![m] = "idle"]
    /\ peerOnline' = [peerOnline EXCEPT ![m] = TRUE]
    /\ consecutiveFailures' = [consecutiveFailures EXCEPT ![m] = 0]
    /\ role' = [role EXCEPT ![m] = IF YieldsToPeer(m) THEN "standby" ELSE @]
    /\ vipActive' = [vipActive EXCEPT ![m] = IF YieldsToPeer(m) THEN FALSE ELSE @]
    /\ UNCHANGED <<quorumPassed, splitBrainBlocked, opVars, envVars>>

(* markPeerFailure.  The counter is only ever compared with the limit, so it *)
(* saturates there.                                                          *)

Bumped(n) == IF n < FailoverLimit THEN n + 1 ELSE n
LimitReached(m) == Bumped(consecutiveFailures[m]) >= FailoverLimit

\* Mutants: the branch is taken only when the counter crosses the limit, and the
\* self-check only from the failure after that.
FailoverDueOnce(m)  == role[m] = "standby" /\ consecutiveFailures[m] + 1 = FailoverLimit
SelfCheckDueOnce(m) ==
    role[m] = "active" /\ EnableWorkerQuorum /\ consecutiveFailures[m] + 1 = FailoverLimit
SelfCheckDueLate(m) ==
    role[m] = "active" /\ EnableWorkerQuorum /\ consecutiveFailures[m] >= FailoverLimit

FailoverDue(m)  == role[m] = "standby" /\ LimitReached(m)
SelfCheckDue(m) == role[m] = "active" /\ EnableWorkerQuorum /\ LimitReached(m)

FailedProbe(m) ==
    /\ up[m] /\ probe[m] = "failed"
    /\ probe' = [probe EXCEPT ![m] = "idle"]
    /\ peerOnline' = [peerOnline EXCEPT ![m] = FALSE]
    /\ UNCHANGED <<opVars, envVars>>

CountFailure(m) ==
    consecutiveFailures' = [consecutiveFailures EXCEPT ![m] = Bumped(@)]

\* Neither branch of markPeerFailure is due.
FailureCounted(m) ==
    /\ FailedProbe(m)
    /\ ~FailoverDue(m) /\ ~SelfCheckDue(m)
    /\ CountFailure(m)
    /\ UNCHANGED <<role, vipActive, quorumPassed, splitBrainBlocked>>

FailoverBlocked(m) ==
    /\ FailedProbe(m)
    /\ FailoverDue(m) /\ ~CheckSplitBrainSafety(m)
    /\ CountFailure(m)
    /\ quorumPassed' = [quorumPassed EXCEPT ![m] = FALSE]
    /\ splitBrainBlocked' = [splitBrainBlocked EXCEPT ![m] = TRUE]
    /\ UNCHANGED <<role, vipActive>>

Failover(m) ==
    /\ FailedProbe(m)
    /\ FailoverDue(m) /\ CheckSplitBrainSafety(m)
    /\ role' = [role EXCEPT ![m] = "active"]
    /\ vipActive' = [vipActive EXCEPT ![m] = TRUE]
    /\ consecutiveFailures' = [consecutiveFailures EXCEPT ![m] = 0]
    /\ quorumPassed' = [quorumPassed EXCEPT ![m] = TRUE]
    /\ splitBrainBlocked' = [splitBrainBlocked EXCEPT ![m] = FALSE]

SelfCheckPassed(m) ==
    /\ FailedProbe(m)
    /\ SelfCheckDue(m) /\ QuorumPassed(m)
    /\ CountFailure(m)
    /\ quorumPassed' = [quorumPassed EXCEPT ![m] = TRUE]
    /\ UNCHANGED <<role, vipActive, splitBrainBlocked>>

\* The active manager finds itself in the minority and steps down.
SelfDemotion(m) ==
    /\ FailedProbe(m)
    /\ SelfCheckDue(m) /\ ~QuorumPassed(m)
    /\ CountFailure(m)
    /\ role' = [role EXCEPT ![m] = "standby"]
    /\ vipActive' = [vipActive EXCEPT ![m] = FALSE]
    /\ quorumPassed' = [quorumPassed EXCEPT ![m] = FALSE]
    /\ splitBrainBlocked' = [splitBrainBlocked EXCEPT ![m] = TRUE]

MarkPeerFailure(m) ==
    \/ FailureCounted(m) \/ FailoverBlocked(m) \/ Failover(m)
    \/ SelfCheckPassed(m) \/ SelfDemotion(m)

-----------------------------------------------------------------------------
(* Switchover, PromoteToActive and DemoteToStandby. *)

SetRole(m, r) ==
    /\ role' = [role EXCEPT ![m] = r]
    /\ vipActive' = [vipActive EXCEPT ![m] = (r = "active")]

\* The operator starts a switchover on m; its request reaches the peer.
SwitchoverStarts(m) ==
    /\ up[m] /\ switchover[m] = "idle" /\ request[m] = "none"
    /\ switches < MaxSwitch
    /\ peerOnline[m] /\ PeerReachable(m)
    /\ switches' = switches + 1
    /\ \/ /\ role[m] = "active"
          /\ switchover' = [switchover EXCEPT ![m] = "awaitPromote"]
          /\ request' = [request EXCEPT ![m] = "promote"]
       \/ /\ role[m] = "standby"
          /\ switchover' = [switchover EXCEPT ![m] = "awaitDemote"]
          /\ request' = [request EXCEPT ![m] = "demote"]
    /\ UNCHANGED <<haVars, probe, envVars>>

NextStage(s) ==
    CASE s = "awaitPromote" -> "demoteSelf"
      [] s = "awaitDemote"  -> "promoteSelf"
      [] OTHER              -> s

\* The peer's promote or demote handler runs; m reads the reply if it still waits
\* and the way back is open.
RequestServed(m) ==
    /\ request[m] # "none" /\ up[Peer(m)]
    /\ SetRole(Peer(m), IF request[m] = "promote" THEN "active" ELSE "standby")
    /\ request' = [request EXCEPT ![m] = "none"]
    /\ switchover' = [switchover EXCEPT ![m] = IF link[m] THEN NextStage(@) ELSE @]
    /\ UNCHANGED <<peerOnline, consecutiveFailures, quorumPassed, splitBrainBlocked,
                   probe, switches, envVars>>

\* The HTTP client gives up: Switchover returns an error and changes nothing.
SwitchoverTimesOut(m) ==
    /\ switchover[m] \in {"awaitPromote", "awaitDemote"}
    /\ switchover' = [switchover EXCEPT ![m] = "idle"]
    /\ UNCHANGED <<haVars, probe, request, switches, envVars>>

SwitchoverCompletes(m) ==
    /\ switchover[m] \in {"demoteSelf", "promoteSelf"}
    /\ SetRole(m, IF switchover[m] = "promoteSelf" THEN "active" ELSE "standby")
    /\ switchover' = [switchover EXCEPT ![m] = "idle"]
    /\ UNCHANGED <<peerOnline, consecutiveFailures, quorumPassed, splitBrainBlocked,
                   probe, request, switches, envVars>>

-----------------------------------------------------------------------------
(* Stop and start of a manager, and the network. *)

Crash(m) ==
    /\ up[m] /\ faults < MaxFaults
    /\ up' = [up EXCEPT ![m] = FALSE]
    /\ faults' = faults + 1
    /\ probe' = [probe EXCEPT ![m] = "idle"]
    /\ switchover' = [switchover EXCEPT ![m] = "idle"]
    /\ request' = [request EXCEPT ![Peer(m)] = "none"]
    /\ UNCHANGED <<haVars, switches, link, gateway, reach>>

\* NewHAManager and Start: the role follows the configured mode alone.
Restart(m) ==
    /\ ~up[m]
    /\ up' = [up EXCEPT ![m] = TRUE]
    /\ SetRole(m, InitialRole(m))
    /\ peerOnline' = [peerOnline EXCEPT ![m] = FALSE]
    /\ consecutiveFailures' = [consecutiveFailures EXCEPT ![m] = 0]
    /\ quorumPassed' = [quorumPassed EXCEPT ![m] = TRUE]
    /\ splitBrainBlocked' = [splitBrainBlocked EXCEPT ![m] = FALSE]
    /\ UNCHANGED <<probe, opVars, link, gateway, reach, faults>>

Degrade ==
    /\ faults < MaxFaults
    /\ faults' = faults + 1
    /\ \/ /\ \E n \in Manager : link[n] /\ link' = [link EXCEPT ![n] = FALSE]
          /\ UNCHANGED <<gateway, reach>>
       \/ /\ \E n \in Manager : gateway[n] /\ gateway' = [gateway EXCEPT ![n] = FALSE]
          /\ UNCHANGED <<link, reach>>
       \/ /\ \E n \in Manager : \E w \in reach[n] :
                reach' = [reach EXCEPT ![n] = @ \ {w}]
          /\ UNCHANGED <<link, gateway>>
       \/ \* the two sites lose each other, and the workers stay with one of them
          /\ link' = [n \in Manager |-> FALSE]
          /\ \E S \in SUBSET Worker :
                reach' = [reach EXCEPT ![NodeA] = S, ![NodeB] = Worker \ S]
          /\ UNCHANGED gateway
    /\ UNCHANGED <<haVars, probe, opVars, up>>

Repair ==
    /\ \E n \in Manager :
          ~link[n] \/ ~gateway[n] \/ reach[n] # Worker
    /\ link' = [n \in Manager |-> TRUE]
    /\ gateway' = [n \in Manager |-> TRUE]
    /\ reach' = [n \in Manager |-> Worker]
    /\ UNCHANGED <<haVars, probe, opVars, up, faults>>

-----------------------------------------------------------------------------

Probe(m) ==
    ProbeAnswered(m) \/ ProbeUnanswered(m) \/ HeartbeatSucceeded(m) \/ MarkPeerFailure(m)

Switch(m) == RequestServed(m) \/ SwitchoverTimesOut(m) \/ SwitchoverCompletes(m)

FailoverNext ==
    \/ \E m \in Manager :
          Probe(m) \/ Switch(m) \/ SwitchoverStarts(m) \/ Crash(m) \/ Restart(m)
    \/ Degrade \/ Repair

FailoverSpec == FailoverInit /\ [][FailoverNext]_failoverVars

\* The ticker of heartbeatLoop fires for ever and every request ends by its
\* client timeout; nothing makes the network heal or a manager restart.
Fairness == \A m \in Manager : WF_failoverVars(Probe(m)) /\ WF_failoverVars(Switch(m))

FairSpec == FailoverSpec /\ Fairness

-----------------------------------------------------------------------------
(* Properties *)

AtMostOneActive == ~(Active(NodeA) /\ Active(NodeB))

\* Both managers run and reach each other.
Healed == \A m \in Manager : up[m] /\ link[m]

\* The network splits into two sites: each worker answers at most one manager,
\* and both stores list the same workers.
CleanPartition ==
    /\ EnableWorkerQuorum
    /\ \A m \in Manager : ~link[m]
    /\ reach[NodeA] \cap reach[NodeB] = {}
    /\ Registry[NodeA] = Registry[NodeB] /\ Registry[NodeA] # {}

\* m handles a failed probe in this step and comes out active.
FailsOver(m) ==
    /\ probe[m] = "failed" /\ probe'[m] = "idle" /\ up'[m]
    /\ role[m] = "standby" /\ role'[m] = "active"

(* Whoever comes out of markPeerFailure active at the failure limit or past  *)
(* it reaches a majority of its workers at that moment: neither the failover *)
(* nor any later failed probe leaves an isolated manager active unchecked.   *)
ActivePastLimitHasQuorum ==
    [][\A m \in Manager :
          /\ EnableWorkerQuorum /\ LimitReached(m)
          /\ probe[m] = "failed" /\ probe'[m] = "idle" /\ up'[m]
          /\ role'[m] = "active"
          => QuorumPassed(m)]_failoverVars

(* Nobody changes its role unless something fails or an operator asks: the   *)
(* probes of a healthy pair neither fail over nor make the primary yield.    *)
SteadyRoles ==
    (faults = 0 /\ switches = 0 /\ \E m \in Manager : Mode[m] = "backup")
        => \A m \in Manager : role[m] = InitialRole(m)

(* In a clean partition a failover is only ever against a manager that lacks *)
(* the quorum itself, and so will step down: the strict majority of          *)
(* CheckWorkerQuorum cannot be on both sides.                                *)
FailoverBeatsMinority ==
    [][\A m \in Manager : FailsOver(m) /\ CleanPartition => ~QuorumPassed(Peer(m))]_failoverVars

(* Once both managers run and see each other for good, the pair settles on   *)
(* at most one active: probePeer makes the primary yield.                    *)
ConvergesToOneActive == <>[]Healed => <>[]AtMostOneActive

(* A partition that lasts leaves at most one active manager: the self-check  *)
(* of markPeerFailure removes the one in the minority.                       *)
MinorityStepsDown == <>[]CleanPartition => <>[]AtMostOneActive

(* When its peer stays dead, a manager that passes the split-brain checks    *)
(* becomes active and stays so.                                              *)
FailoverHappens ==
    \A m \in Manager :
        <>[](up[m] /\ ~up[Peer(m)] /\ CheckSplitBrainSafety(m)) => <>[]Active(m)

(* What the comment of markPeerFailure says of a promotion that passed both  *)
(* checks: it is safe, so the peer is not active.                            *)
PromotionIsSafe ==
    [][\A m \in Manager : FailsOver(m) => ~Active(Peer(m))]_failoverVars
=============================================================================
