----------------------------- MODULE HAReconfig -----------------------------
(***************************************************************************)
(* One manager whose administrator changes its HA settings while it runs:  *)
(* HAManager.UpdateConfig, the heartbeat loops it leaves running and the   *)
(* virtual address, as the manager records it and as the kernel has it     *)
(* (internal/manager/ha.go, Server.Start of api.go).                       *)
(*                                                                         *)
(* The peer and the network are the environment: a probe may come back in  *)
(* any way, and the split-brain checks may pass or fail.                   *)
(***************************************************************************)
EXTENDS Naturals

CONSTANTS
    Settings,            \* HA settings an administrator may save
    FirstSettings,       \* those of the first start
    NoVip,
    FailoverLimit,       \* failed probes of the loop that make a failover due
    OneShotLimit,        \* the limit UpdateConfig gives its own probe (3)
    EnableWorkerQuorum,
    MaxUpdates, MaxStops \* bounds

ASSUME SettingsType ==
    /\ \A s \in Settings : /\ DOMAIN s = {"mode", "peer", "vip"}
                           /\ s.mode \in {"standalone", "primary", "backup"}
                           /\ s.peer \in BOOLEAN
    /\ FirstSettings \in Settings
ASSUME LimitsType == FailoverLimit \in Nat \ {0} /\ OneShotLimit \in Nat \ {0}
ASSUME QuorumType == EnableWorkerQuorum \in BOOLEAN
ASSUME UpdatesType == MaxUpdates \in Nat /\ MaxStops \in Nat

VARIABLES
    cfg,         \* mode, whether a peer URL is set, configured VIP
    ownRole,     \* HAManager.role
    vip,         \* [active: what HAManager believes, bound: addresses in the kernel,
                 \*  failed: commands that have failed so far]
    failures,    \* consecutiveFailures
    loops,       \* heartbeatLoop goroutines
    oneShots,    \* probes UpdateConfig started
    phase,       \* of the process
    updates, stops

reconfigVars == <<cfg, ownRole, vip, failures, loops, oneShots, phase, updates, stops>>

MaxLimit == IF FailoverLimit > OneShotLimit THEN FailoverLimit ELSE OneShotLimit
Vips     == {s.vip : s \in Settings} \ {NoVip}

\* ip addr add and ip addr del.
Command  == {"add", "del"}
VipState == [active : BOOLEAN, bound : SUBSET Vips, failed : SUBSET Command]

ReconfigTypeOK ==
    /\ cfg \in Settings
    /\ ownRole \in {"active", "standby"}
    /\ vip \in VipState
    /\ failures \in 0..MaxLimit
    /\ loops \in 0..(MaxUpdates + 1)
    /\ oneShots \in 0..MaxUpdates
    /\ phase \in {"running", "stopping", "down"}
    /\ updates \in 0..MaxUpdates /\ stops \in 0..MaxStops

-----------------------------------------------------------------------------
(* bindVIPLocked and releaseVIPLocked, with a usable network interface.    *)
(* The commands among f fail: that is logged at most, and the manager      *)
(* records the address as bound, or released, all the same.                *)

Bind(v, addr, f) ==
    IF addr = NoVip THEN v
    ELSE [active |-> TRUE,
          bound  |-> IF "add" \in f THEN v.bound ELSE v.bound \cup {addr},
          failed |-> v.failed \cup (f \cap {"add"})]

\* Mutant: the address is deleted and still recorded as held.
ReleaseUnrecorded(v, addr, f) ==
    IF addr = NoVip \/ ~v.active THEN v ELSE [v EXCEPT !.bound = @ \ {addr}]

Release(v, addr, f) ==
    IF addr = NoVip \/ ~v.active THEN v
    ELSE [active |-> FALSE,
          bound  |-> IF "del" \in f THEN v.bound ELSE v.bound \ {addr},
          failed |-> v.failed \cup (f \cap {"del"})]

-----------------------------------------------------------------------------
(* NewHAManager and Start. *)

StartRole(s)  == IF s.mode = "backup" THEN "standby" ELSE "active"
StartVip(s, v, f) ==
    IF s.mode # "standalone" /\ StartRole(s) = "active" THEN Bind(v, s.vip, f) ELSE v
StartLoops(s) == IF s.mode = "standalone" THEN 0 ELSE 1

ReconfigInit ==
    /\ cfg = FirstSettings
    /\ ownRole = StartRole(cfg)
    /\ \E f \in SUBSET Command :
          vip = StartVip(cfg, [active |-> FALSE, bound |-> {}, failed |-> {}], f)
    /\ loops = StartLoops(cfg)
    /\ failures = 0 /\ oneShots = 0 /\ phase = "running" /\ updates = 0 /\ stops = 0

Boot ==
    /\ phase = "down"
    /\ phase' = "running"
    /\ ownRole' = StartRole(cfg)
    /\ \E f \in SUBSET Command : vip' = StartVip(cfg, [vip EXCEPT !.active = FALSE], f)
    /\ loops' = StartLoops(cfg)
    /\ failures' = 0
    /\ UNCHANGED <<cfg, oneShots, updates, stops>>

-----------------------------------------------------------------------------
(* UpdateConfig.  The new VIP is stored before the old one is released.    *)

NewRole(new) ==
    CASE new.mode = "standalone" -> "active"
      [] new.mode # "standalone" /\ cfg.mode = "standalone" -> StartRole(new)
      [] OTHER -> ownRole

AfterVipChange(new, f) ==
    IF cfg.vip # NoVip /\ cfg.vip # new.vip THEN Release(vip, new.vip, f) ELSE vip

\* Mutant: only a manager that just became active binds the address.
NewVipOfNewRole(new, f) ==
    LET v == IF new.mode = "standalone" THEN Release(AfterVipChange(new, f), new.vip, f)
                                        ELSE AfterVipChange(new, f)
    IN  IF NewRole(new) = "active" /\ ownRole # "active" /\ ~v.active
        THEN Bind(v, new.vip, f) ELSE v

NewVip(new, f) ==
    LET v == IF new.mode = "standalone" THEN Release(AfterVipChange(new, f), new.vip, f)
                                        ELSE AfterVipChange(new, f)
    IN  IF NewRole(new) = "active" /\ ~v.active THEN Bind(v, new.vip, f) ELSE v

\* Mutant: only a new primary starts to probe.
NewLoopsOfPrimary(new) ==
    IF cfg.mode = "standalone" /\ new.mode = "primary" THEN loops + 1 ELSE loops

NewLoops(new) ==
    IF cfg.mode = "standalone" /\ new.mode # "standalone" THEN loops + 1 ELSE loops

UpdateConfig(new) ==
    /\ phase = "running" /\ updates < MaxUpdates
    /\ updates' = updates + 1
    /\ cfg' = new
    /\ failures' = IF new.peer # cfg.peer THEN 0 ELSE failures
    /\ ownRole' = NewRole(new)
    /\ \E f \in SUBSET Command : vip' = NewVip(new, f)
    /\ loops' = NewLoops(new)
    /\ oneShots' = IF new.peer THEN oneShots + 1 ELSE oneShots
    /\ UNCHANGED <<phase, stops>>

-----------------------------------------------------------------------------
(* probePeer, run by a heartbeat loop or once by UpdateConfig. *)

Bumped == IF failures < MaxLimit THEN failures + 1 ELSE failures

\* A loop probes and stays; a one-shot probe is used up.
Probing(limit) ==
    /\ phase = "running" /\ cfg.peer
    /\ \/ loops > 0 /\ limit = FailoverLimit /\ UNCHANGED oneShots
       \/ oneShots > 0 /\ limit = OneShotLimit /\ oneShots' = oneShots - 1
    /\ UNCHANGED <<cfg, loops, phase, updates, stops>>

BecomesActive ==
    /\ ownRole' = "active"
    /\ \E f \in SUBSET Command : vip' = Bind(vip, cfg.vip, f)
BecomesStandby ==
    /\ ownRole' = "standby"
    /\ \E f \in SUBSET Command : vip' = Release(vip, cfg.vip, f)

ProbeSucceeds(limit, peerRole) ==
    /\ Probing(limit)
    /\ failures' = 0
    /\ IF ownRole = "active" /\ peerRole = "active" /\ cfg.mode = "primary"
       THEN BecomesStandby
       ELSE UNCHANGED <<ownRole, vip>>

ProbeFails(limit) ==
    /\ Probing(limit)
    /\ failures' = Bumped
    /\ UNCHANGED <<ownRole, vip>>

Failover(limit) ==
    /\ Probing(limit)
    /\ ownRole = "standby" /\ failures + 1 >= limit
    /\ BecomesActive
    /\ failures' = 0

SelfDemotion(limit) ==
    /\ Probing(limit)
    /\ ownRole = "active" /\ EnableWorkerQuorum /\ failures + 1 >= limit
    /\ BecomesStandby
    /\ failures' = Bumped

Probe(limit) ==
    \/ \E r \in {"active", "standby"} : ProbeSucceeds(limit, r)
    \/ ProbeFails(limit) \/ Failover(limit) \/ SelfDemotion(limit)

\* handleHAPromote and handleHADemote.
PeerPromotes ==
    /\ phase = "running" /\ ownRole = "standby"
    /\ BecomesActive
    /\ UNCHANGED <<cfg, failures, loops, oneShots, phase, updates, stops>>

PeerDemotes ==
    /\ phase = "running" /\ ownRole = "active"
    /\ BecomesStandby
    /\ UNCHANGED <<cfg, failures, loops, oneShots, phase, updates, stops>>

-----------------------------------------------------------------------------
(* SIGTERM cancels the context; the process exits when the HTTP server has *)
(* shut down, whether or not a loop has seen the cancellation.             *)

Stop ==
    /\ phase = "running" /\ stops < MaxStops
    /\ stops' = stops + 1
    /\ phase' = "stopping"
    /\ UNCHANGED <<cfg, ownRole, vip, failures, loops, oneShots, updates>>

LoopEnds ==
    /\ phase = "stopping" /\ loops > 0
    /\ loops' = loops - 1
    /\ \E f \in SUBSET Command : vip' = Release(vip, cfg.vip, f)
    /\ UNCHANGED <<cfg, ownRole, failures, oneShots, phase, updates, stops>>

Exit ==
    /\ phase = "stopping"
    /\ phase' = "down"
    /\ loops' = 0 /\ oneShots' = 0
    /\ UNCHANGED <<cfg, ownRole, vip, failures, updates, stops>>

HostReboot ==
    /\ phase = "down" /\ vip.bound # {}
    /\ vip' = [vip EXCEPT !.bound = {}]
    /\ UNCHANGED <<cfg, ownRole, failures, loops, oneShots, phase, updates, stops>>

-----------------------------------------------------------------------------

ReconfigNext ==
    \/ \E new \in Settings : UpdateConfig(new)
    \/ \E limit \in {FailoverLimit, OneShotLimit} : Probe(limit)
    \/ PeerPromotes \/ PeerDemotes
    \/ Stop \/ LoopEnds \/ Exit \/ Boot \/ HostReboot

ReconfigSpec == ReconfigInit /\ [][ReconfigNext]_reconfigVars

-----------------------------------------------------------------------------
(* Properties *)

Running == phase = "running"

(* Whatever the administrator switches the manager to and from, a manager of *)
(* a pair always has a loop that probes its peer.                            *)
PairIsProbed == Running /\ cfg.mode # "standalone" => loops > 0

(* The active manager of a pair goes by holding the VIP, through every change *)
(* of mode, role and settings and every restart.                              *)
ActiveHoldsVip ==
    Running /\ cfg.mode # "standalone" /\ ownRole = "active" /\ cfg.vip # NoVip => vip.active

(* While the process runs on and the address stays the same, vip_active of   *)
(* the status is wrong about the kernel only as far as a command has failed: *)
(* an address recorded as held is bound unless an ip addr add has failed,    *)
(* and one recorded as released is gone unless an ip addr del has.           *)
VipStatusIsTrue ==
    stops = 0 /\ (\A s, t \in Settings : s.vip = t.vip) =>
        /\ vip.bound \subseteq {cfg.vip}
        /\ vip.active /\ "add" \notin vip.failed => vip.bound = {cfg.vip}
        /\ ~vip.active /\ "del" \notin vip.failed => vip.bound = {}
=============================================================================
