------------------------------ MODULE ManagerProofs ------------------------------
(* Proofs about two parts of the manager: the failover of a pair (HAFailover), for *)
(* every pair of modes, registry and failover limit, and the admission of uploads  *)
(* under quotas (Admission), for every user, archive and limit.                    *)
EXTENDS HAFailover, Admission, Sums, FiniteSetTheorems, WellFoundedInduction, TLAPS

-----------------------------------------------------------------------------
(* Failover *)

LEMMA PeerFacts ==
    \A m \in Manager : Peer(m) \in Manager /\ Peer(m) # m /\ Manager = {m, Peer(m)}
BY ManagersDiffer DEF Manager, Peer

LEMMA BumpedType ==
    ASSUME NEW n \in 0..FailoverLimit
    PROVE  Bumped(n) \in 0..FailoverLimit
BY LimitType DEF Bumped

\* The parts of type correctness, by kind of step.
LEMMA InitType == FailoverInit => FailoverTypeOK
BY LimitType, ModeType, BoundsType DEF FailoverInit, FailoverTypeOK, InitialRole, ProbeState, SwitchoverState

LEMMA ProbeType ==
    ASSUME FailoverTypeOK, NEW m \in Manager, Probe(m)
    PROVE  FailoverTypeOK'
<1> USE DEF FailoverTypeOK, haVars, opVars, envVars
<1>0. Peer(m) \in Manager
  BY PeerFacts
<1>1. CASE ProbeAnswered(m)
  BY <1>0, <1>1 DEF ProbeAnswered, ProbeState
<1>2. CASE ProbeUnanswered(m)
  BY <1>2 DEF ProbeUnanswered, ProbeState
<1>3. CASE HeartbeatSucceeded(m)
  <2>1. probe' \in [Manager -> ProbeState] /\ peerOnline' \in [Manager -> BOOLEAN]
    BY <1>3 DEF HeartbeatSucceeded, ProbeState
  <2>2. consecutiveFailures' \in [Manager -> 0..FailoverLimit]
    BY <1>3, LimitType DEF HeartbeatSucceeded
  <2>3. role' \in [Manager -> {"active", "standby"}] /\ vipActive' \in [Manager -> BOOLEAN]
    BY <1>3 DEF HeartbeatSucceeded
  <2> QED BY <1>3, <2>1, <2>2, <2>3 DEF HeartbeatSucceeded
<1>4. CASE MarkPeerFailure(m)
  <2>1. Bumped(consecutiveFailures[m]) \in 0..FailoverLimit
    BY BumpedType
  <2>2. probe' \in [Manager -> ProbeState] /\ peerOnline' \in [Manager -> BOOLEAN]
        /\ UNCHANGED <<opVars, envVars>>
    BY <1>4 DEF MarkPeerFailure, FailureCounted, FailoverBlocked, Failover,
                SelfCheckPassed, SelfDemotion, FailedProbe, ProbeState
  <2>3. consecutiveFailures' \in [Manager -> 0..FailoverLimit]
    BY <1>4, <2>1, LimitType
       DEF MarkPeerFailure, FailureCounted, FailoverBlocked, Failover,
           SelfCheckPassed, SelfDemotion, CountFailure
  <2>4. /\ role' \in [Manager -> {"active", "standby"}]
        /\ vipActive' \in [Manager -> BOOLEAN]
        /\ quorumPassed' \in [Manager -> BOOLEAN]
        /\ splitBrainBlocked' \in [Manager -> BOOLEAN]
    BY <1>4 DEF MarkPeerFailure, FailureCounted, FailoverBlocked, Failover,
                SelfCheckPassed, SelfDemotion
  <2> QED BY <2>2, <2>3, <2>4
<1> QED BY <1>1, <1>2, <1>3, <1>4 DEF Probe

LEMMA SwitchType ==
    ASSUME FailoverTypeOK, NEW m \in Manager, Switch(m) \/ SwitchoverStarts(m)
    PROVE  FailoverTypeOK'
<1> USE DEF FailoverTypeOK, haVars, opVars, envVars
<1>0. Peer(m) \in Manager
  BY PeerFacts
<1>1. CASE RequestServed(m)
  BY <1>0, <1>1 DEF RequestServed, SetRole, NextStage, SwitchoverState
<1>2. CASE SwitchoverTimesOut(m)
  BY <1>2 DEF SwitchoverTimesOut, SwitchoverState
<1>3. CASE SwitchoverCompletes(m)
  BY <1>3 DEF SwitchoverCompletes, SetRole, SwitchoverState
<1>4. CASE SwitchoverStarts(m)
  BY <1>4, BoundsType DEF SwitchoverStarts, SwitchoverState
<1> QED BY <1>1, <1>2, <1>3, <1>4 DEF Switch

LEMMA FaultType ==
    ASSUME FailoverTypeOK,
           (\E m \in Manager : Crash(m) \/ Restart(m)) \/ Degrade \/ Repair
    PROVE  FailoverTypeOK'
<1> USE DEF FailoverTypeOK, haVars, opVars, envVars
<1>1. ASSUME NEW m \in Manager, Crash(m) PROVE FailoverTypeOK'
  BY <1>1, PeerFacts, BoundsType DEF Crash, ProbeState, SwitchoverState
<1>2. ASSUME NEW m \in Manager, Restart(m) PROVE FailoverTypeOK'
  BY <1>2, LimitType DEF Restart, SetRole, InitialRole
<1>3. CASE Degrade
  <2>1. link' \in [Manager -> BOOLEAN] /\ gateway' \in [Manager -> BOOLEAN]
    BY <1>3 DEF Degrade
  <2>2. reach' \in [Manager -> SUBSET Worker]
    BY <1>3 DEF Degrade
  <2>3. faults' \in 0..MaxFaults
    BY <1>3, BoundsType DEF Degrade
  <2> QED BY <1>3, <2>1, <2>2, <2>3 DEF Degrade
<1>4. CASE Repair
  BY <1>4 DEF Repair
<1> QED BY <1>1, <1>2, <1>3, <1>4

(* Type correctness: every variable keeps its range, the saturating failure *)
(* counter of markPeerFailure included.                                     *)
THEOREM FailoverTypeCorrect == FailoverSpec => []FailoverTypeOK
<1>1. FailoverInit => FailoverTypeOK
  BY InitType
<1>2. FailoverTypeOK /\ [FailoverNext]_failoverVars => FailoverTypeOK'
  <2> SUFFICES ASSUME FailoverTypeOK, [FailoverNext]_failoverVars PROVE FailoverTypeOK'
    OBVIOUS
  <2>1. CASE FailoverNext
    BY <2>1, ProbeType, SwitchType, FaultType DEF FailoverNext
  <2>2. CASE UNCHANGED failoverVars
    BY <2>2 DEF FailoverTypeOK, failoverVars, haVars, opVars, envVars
  <2> QED BY <2>1, <2>2
<1> QED BY <1>1, <1>2, PTL DEF FailoverSpec

-----------------------------------------------------------------------------
\* A step in which m handles a failed probe and lives on is a step of
\* markPeerFailure of m.
LEMMA FailedProbeStep ==
    ASSUME FailoverTypeOK, FailoverNext, NEW m \in Manager,
           probe[m] = "failed", probe'[m] = "idle", up'[m]
    PROVE  MarkPeerFailure(m)
<1> USE DEF FailoverTypeOK, haVars, opVars, envVars
<1>1. ASSUME NEW k \in Manager, Probe(k) PROVE MarkPeerFailure(m)
  <2>1. k = m
    BY <1>1 DEF Probe, ProbeAnswered, ProbeUnanswered, HeartbeatSucceeded, MarkPeerFailure,
                FailureCounted, FailoverBlocked, Failover, SelfCheckPassed, SelfDemotion,
                FailedProbe
  <2> QED BY <1>1, <2>1 DEF Probe, ProbeAnswered, ProbeUnanswered, HeartbeatSucceeded
<1>2. ASSUME NEW k \in Manager, Switch(k) \/ SwitchoverStarts(k) \/ Restart(k) PROVE FALSE
  BY <1>2 DEF Switch, RequestServed, SwitchoverTimesOut, SwitchoverCompletes,
              SwitchoverStarts, Restart
<1>3. ASSUME NEW k \in Manager, Crash(k) PROVE FALSE
  BY <1>3 DEF Crash
<1>4. CASE Degrade \/ Repair
  BY <1>4 DEF Degrade, Repair
<1> QED BY <1>1, <1>2, <1>3, <1>4 DEF FailoverNext

(* No path through markPeerFailure leaves a manager active at the limit that *)
(* does not reach a majority of its workers.                                 *)
THEOREM ActivePastLimit == FailoverSpec => ActivePastLimitHasQuorum
<1> DEFINE HasQuorum == \A m \in Manager :
                            /\ EnableWorkerQuorum /\ LimitReached(m)
                            /\ probe[m] = "failed" /\ probe'[m] = "idle" /\ up'[m]
                            /\ role'[m] = "active"
                            => QuorumPassed(m)
<1>1. FailoverTypeOK /\ [FailoverNext]_failoverVars => [HasQuorum]_failoverVars
  <2> SUFFICES ASSUME FailoverTypeOK, FailoverNext, NEW m \in Manager, EnableWorkerQuorum, LimitReached(m),
                      probe[m] = "failed", probe'[m] = "idle", up'[m], role'[m] = "active"
               PROVE  QuorumPassed(m)
    OBVIOUS
  <2>1. MarkPeerFailure(m)
    BY FailedProbeStep
  <2>2. CASE FailureCounted(m)
    BY <2>2 DEF FailureCounted, FailoverDue, SelfCheckDue, FailoverTypeOK
  <2>3. CASE FailoverBlocked(m)
    BY <2>3 DEF FailoverBlocked, FailoverDue
  <2>4. CASE Failover(m)
    BY <2>4 DEF Failover, CheckSplitBrainSafety
  <2>5. CASE SelfCheckPassed(m)
    BY <2>5 DEF SelfCheckPassed
  <2>6. CASE SelfDemotion(m)
    BY <2>6 DEF SelfDemotion, FailoverTypeOK
  <2> QED BY <2>1, <2>2, <2>3, <2>4, <2>5, <2>6 DEF MarkPeerFailure
<1>2. FailoverSpec => [][HasQuorum]_failoverVars
  BY <1>1, FailoverTypeCorrect, PTL DEF FailoverSpec
<1> QED BY <1>2 DEF ActivePastLimitHasQuorum

-----------------------------------------------------------------------------
(* SteadyRoles is not inductive: a probe in hand might still carry a failure *)
(* or an "active" answer.  While nothing failed and no operator acted, every *)
(* probe in hand carries the role the peer still has.                        *)

Undisturbed ==
    faults = 0 /\ switches = 0 /\ (\E m \in Manager : Mode[m] = "backup")

Quiet ==
    Undisturbed => \A m \in Manager :
        /\ up[m] /\ link[m]
        /\ role[m] = InitialRole(m)
        /\ probe[m] \in {"idle", role[Peer(m)]}
        /\ switchover[m] = "idle" /\ request[m] = "none"

LEMMA QuietInductive ==
    ASSUME FailoverTypeOK, Quiet, [FailoverNext]_failoverVars
    PROVE  Quiet'
<1> SUFFICES ASSUME Undisturbed'
             PROVE  (\A m \in Manager :
                        /\ up[m] /\ link[m]
                        /\ role[m] = InitialRole(m)
                        /\ probe[m] \in {"idle", role[Peer(m)]}
                        /\ switchover[m] = "idle" /\ request[m] = "none")'
  BY DEF Quiet
<1> USE DEF haVars, opVars, envVars
<1>1. ASSUME NEW m \in Manager, Probe(m) PROVE Quiet'
  <2>1. Undisturbed
    BY <1>1 DEF Undisturbed, Probe, ProbeAnswered, ProbeUnanswered, HeartbeatSucceeded,
                MarkPeerFailure, FailureCounted, FailoverBlocked, Failover, SelfCheckPassed,
                SelfDemotion, FailedProbe
  <2>2. PeerReachable(m)
    BY <2>1, PeerFacts DEF Quiet, PeerReachable
  <2>3. probe[m] # "failed"
    BY <2>1, PeerFacts DEF Quiet, FailoverTypeOK
  <2>4. CASE ProbeAnswered(m)
    BY <2>1, <2>4, PeerFacts DEF Quiet, ProbeAnswered, FailoverTypeOK
  <2>5. CASE HeartbeatSucceeded(m)
    <3>1. ~YieldsToPeer(m)
      BY <2>1, <2>5, PeerFacts, ModeType
         DEF Quiet, Undisturbed, YieldsToPeer, InitialRole, HeartbeatSucceeded
    <3>2. role' = role
      BY <2>5, <3>1 DEF HeartbeatSucceeded, FailoverTypeOK
    <3> QED BY <2>1, <2>5, <3>2, PeerFacts DEF Quiet, HeartbeatSucceeded, FailoverTypeOK
  <2> QED BY <1>1, <2>2, <2>3, <2>4, <2>5
          DEF Probe, ProbeUnanswered, MarkPeerFailure, FailureCounted, FailoverBlocked,
              Failover, SelfCheckPassed, SelfDemotion, FailedProbe
<1>2. ASSUME NEW m \in Manager, Switch(m) \/ SwitchoverStarts(m) PROVE FALSE
  <2>1. switches' = 0 /\ faults' = 0
    BY DEF Undisturbed
  <2>2. ~SwitchoverStarts(m)
    BY <2>1 DEF SwitchoverStarts, FailoverTypeOK
  <2>3. Undisturbed
    BY <1>2, <2>1, <2>2
       DEF Undisturbed, Switch, RequestServed, SwitchoverTimesOut, SwitchoverCompletes
  <2> QED BY <1>2, <2>2, <2>3
          DEF Quiet, Switch, RequestServed, SwitchoverTimesOut, SwitchoverCompletes
<1>3. ASSUME NEW m \in Manager, Crash(m) PROVE FALSE
  BY <1>3 DEF Crash, Undisturbed, FailoverTypeOK
<1>4. ASSUME NEW m \in Manager, Restart(m) PROVE FALSE
  BY <1>4 DEF Restart, Undisturbed, Quiet
<1>5. CASE Degrade
  BY <1>5 DEF Degrade, Undisturbed, FailoverTypeOK
<1>6. CASE Repair
  BY <1>6 DEF Repair, Undisturbed, Quiet
<1>7. CASE UNCHANGED failoverVars
  BY <1>7 DEF failoverVars, Undisturbed, Quiet
<1> QED BY <1>1, <1>2, <1>3, <1>4, <1>5, <1>6, <1>7 DEF FailoverNext, Quiet

(* A pair that nothing disturbs keeps its roles.                            *)
THEOREM RolesSteady == FailoverSpec => []SteadyRoles
<1>1. FailoverInit => Quiet
  BY DEF FailoverInit, Quiet, InitialRole
<1>2. FailoverTypeOK /\ Quiet /\ [FailoverNext]_failoverVars => Quiet'
  BY QuietInductive
<1>3. Quiet => SteadyRoles
  BY DEF Quiet, Undisturbed, SteadyRoles
<1> QED BY <1>1, <1>2, <1>3, FailoverTypeCorrect, PTL DEF FailoverSpec

-----------------------------------------------------------------------------
(* Two disjoint sets of workers are not both a strict majority of the same *)
(* registry.                                                               *)
LEMMA MajoritiesMeet ==
    ASSUME NEW R, IsFiniteSet(R), NEW A \in SUBSET R, NEW B \in SUBSET R, A \cap B = {},
           Cardinality(A) > Cardinality(R) \div 2
    PROVE  ~(Cardinality(B) > Cardinality(R) \div 2)
<1>1. IsFiniteSet(A) /\ IsFiniteSet(B)
  BY FS_Subset
<1>2. Cardinality(A) \in Nat /\ Cardinality(B) \in Nat /\ Cardinality(R) \in Nat
  BY <1>1, FS_CardinalityType
<1>3. Cardinality(A \cup B) = Cardinality(A) + Cardinality(B)
  <2>1. Cardinality(A \cap B) = 0
    BY FS_EmptySet
  <2>2. Cardinality(A \cup B) = Cardinality(A) + Cardinality(B) - Cardinality(A \cap B)
    BY <1>1, FS_Union
  <2> QED BY <1>2, <2>1, <2>2
<1>4. Cardinality(A \cup B) <= Cardinality(R)
  <2>1. A \cup B \in SUBSET R
    OBVIOUS
  <2> QED BY <2>1, FS_Subset
<1> QED BY <1>2, <1>3, <1>4

\* A step in which m fails over is the Failover branch of m.
LEMMA FailsOverIsFailover ==
    ASSUME FailoverTypeOK, FailoverNext, NEW m \in Manager, FailsOver(m)
    PROVE  Failover(m)
<1>1. MarkPeerFailure(m)
  BY FailedProbeStep DEF FailsOver
<1> QED
  BY <1>1 DEF FailsOver, MarkPeerFailure, FailureCounted, FailoverBlocked, SelfCheckPassed,
              SelfDemotion, FailoverTypeOK

(* In a clean partition a manager fails over only against one that has lost *)
(* the quorum: the strict majority of CheckWorkerQuorum is on one side.     *)
THEOREM FailoverAgainstMinority == FailoverSpec => FailoverBeatsMinority
<1> DEFINE Beats == \A m \in Manager :
                        FailsOver(m) /\ CleanPartition => ~QuorumPassed(Peer(m))
<1>1. FailoverTypeOK /\ [FailoverNext]_failoverVars => [Beats]_failoverVars
  <2> SUFFICES ASSUME FailoverTypeOK, FailoverNext, NEW m \in Manager, FailsOver(m), CleanPartition
               PROVE  ~QuorumPassed(Peer(m))
    OBVIOUS
  <2>1. Peer(m) \in Manager /\ reach[m] \cap reach[Peer(m)] = {}
        /\ Registry[m] = Registry[Peer(m)] /\ Registry[m] # {}
    BY ManagersDiffer DEF CleanPartition, Manager, Peer
  <2>2. QuorumPassed(m)
    BY FailsOverIsFailover DEF Failover, CheckSplitBrainSafety, CleanPartition
  <2>3. IsFiniteSet(Registry[m])
    BY WorkersFinite, RegistryType, FS_Subset
  <2>4. Cardinality(Registry[m] \cap reach[m]) > Cardinality(Registry[m]) \div 2
    BY <2>1, <2>2 DEF QuorumPassed
  <2>5. (Registry[m] \cap reach[m]) \cap (Registry[m] \cap reach[Peer(m)]) = {}
    BY <2>1
  <2>6. ~(Cardinality(Registry[m] \cap reach[Peer(m)]) > Cardinality(Registry[m]) \div 2)
    BY <2>3, <2>4, <2>5, MajoritiesMeet
  <2> QED BY <2>1, <2>6 DEF QuorumPassed
<1>2. FailoverSpec => [][Beats]_failoverVars
  BY <1>1, FailoverTypeCorrect, PTL DEF FailoverSpec
<1> QED BY <1>2 DEF FailoverBeatsMinority

-----------------------------------------------------------------------------
(* Admission: type correctness *)

\* What a request has learnt by the stage it is at.
Staged(r) ==
    /\ r.op = "upload" => r.at \in {"tags", "forward", "put", "adjust", "save", "adjusted"}
    /\ r.op = "edit"   => r.at \in {"tags", "look", "put", "adjust", "save", "adjusted"}
    /\ r.op = "delete" => r.at \in {"look", "adjust", "save", "adjusted"}
    /\ r.op = "quota"  => r.at = "save"
    /\ r.op \in {"upload", "edit"} => r.size \in Sizes /\ r.tags \in TagSets
    /\ r.op \in {"edit", "delete"} \/ (r.op = "upload" /\ r.at \notin {"tags", "forward"}) => r.archive \in Archives
    /\ r.op = "upload" /\ r.at \in {"tags", "forward"} => r.archive = None
    /\ r.at = "save" => r.user \in UserRecord

IInv == TypeOK /\ \A s \in Slots : req[s] # None => Staged(req[s])

LEMMA NoneIsNoRecord == None \notin Users /\ None \notin Archives
BY NoneAssumption

LEMMA AdjustedType ==
    ASSUME NEW user \in UserRecord, NEW delta \in Int
    PROVE  Adjusted(user, delta) \in UserRecord
<1>1. user.used + delta \in Int
  BY DEF UserRecord
<1> QED BY <1>1 DEF Adjusted, UserRecord

\* A step that changes the request of one slot only.
LEMMA SlotType ==
    ASSUME IInv, NEW s \in Slots, NEW r \in Request, Staged(r),
           req' = [req EXCEPT ![s] = r], UNCHANGED <<users, archives>>,
           requests' \in 0..MaxRequests, alone' \in [Users -> BOOLEAN], tagsAlone' \in BOOLEAN
    PROVE  IInv'
BY DEF IInv, TypeOK, Staged

LEMMA FinishType ==
    ASSUME IInv, NEW s \in Slots, Finish(s), UNCHANGED <<users, requests, alone, tagsAlone>>,
           archives' \in [Archives -> ArchiveRecord \cup {None}]
    PROVE  IInv'
BY DEF IInv, TypeOK, Staged, Finish

LEMMA StartType ==
    ASSUME IInv, NEW s \in Slots, NEW r \in Request, Staged(r), Begin(s, r), UNCHANGED <<users, archives>>
    PROVE  IInv'
<1>1. requests' \in 0..MaxRequests /\ tagsAlone' \in BOOLEAN
  <2>1. requests' \in 0..MaxRequests BY BoundType DEF Begin, IInv, TypeOK
  <2>2. (tagsAlone /\ (r.op \in {"upload", "edit"} => OnTags = {})) \in BOOLEAN OBVIOUS
  <2> QED BY <2>1, <2>2 DEF Begin
<1>2. alone' \in [Users -> BOOLEAN]
  <2>1. r.owner \in Users BY DEF Request
  <2>2. alone' = [alone EXCEPT ![r.owner] = alone[r.owner] /\ OnLedger(r.owner) = {}] BY DEF Begin
  <2>3. (alone[r.owner] /\ OnLedger(r.owner) = {}) \in BOOLEAN OBVIOUS
  <2> QED BY <2>1, <2>2, <2>3 DEF IInv, TypeOK
<1> QED BY <1>1, <1>2, SlotType DEF Begin

LEMMA StartsType ==
    ASSUME IInv, NEW s \in Slots, Start(s)
    PROVE  IInv'
<1> USE DEF Request
<1>1. ASSUME NEW u \in Users, NEW size \in Sizes, NEW tags \in TagSets, UploadChecksQuota(s, u, size, tags)
      PROVE  IInv'
  <2> DEFINE r == [op |-> "upload", at |-> "tags", owner |-> u, archive |-> None,
                   size |-> size, tags |-> tags, old |-> FALSE, user |-> None, delta |-> 0]
  <2>1. r \in Request BY DEF TagSets
  <2>2. Staged(r) BY DEF Staged
  <2>3. Begin(s, r) /\ UNCHANGED <<users, archives>> BY <1>1 DEF UploadChecksQuota
  <2> QED BY <2>1, <2>2, <2>3, StartType
<1>2. ASSUME NEW a \in Archives, NEW tags \in TagSets, EditReads(s, a, tags)
      PROVE  IInv'
  <2> DEFINE r == [op |-> "edit", at |-> "tags", owner |-> archives[a].owner, archive |-> a,
                   size |-> archives[a].size, tags |-> tags, old |-> FALSE, user |-> None, delta |-> 0]
  <2>1. archives[a] \in ArchiveRecord BY <1>2 DEF EditReads, IInv, TypeOK
  <2>2. r \in Request BY <2>1 DEF TagSets, ArchiveRecord
  <2>3. Staged(r) BY <2>1 DEF Staged, ArchiveRecord
  <2>4. Begin(s, r) /\ UNCHANGED <<users, archives>> BY <1>2 DEF EditReads
  <2> QED BY <2>2, <2>3, <2>4, StartType
<1>3. ASSUME NEW a \in Archives, DeleteStarts(s, a)
      PROVE  IInv'
  <2> DEFINE r == [op |-> "delete", at |-> "look", owner |-> archives[a].owner, archive |-> a,
                   size |-> archives[a].size, tags |-> {}, old |-> FALSE, user |-> None, delta |-> 0]
  <2>1. archives[a] \in ArchiveRecord BY <1>3 DEF DeleteStarts, IInv, TypeOK
  <2>2. r \in Request BY <2>1 DEF ArchiveRecord
  <2>3. Staged(r) BY DEF Staged
  <2>4. Begin(s, r) /\ UNCHANGED <<users, archives>> BY <1>3 DEF DeleteStarts
  <2> QED BY <2>2, <2>3, <2>4, StartType
<1>4. ASSUME NEW u \in Users, NEW quota \in Quotas, QuotaReads(s, u, quota)
      PROVE  IInv'
  <2> DEFINE user == [users[u] EXCEPT !.quota = quota]
             r == [op |-> "quota", at |-> "save", owner |-> u, archive |-> None, size |-> 0,
                   tags |-> {}, old |-> FALSE, user |-> user, delta |-> 0]
  <2>1. user \in UserRecord BY <1>4 DEF QuotaReads, IInv, TypeOK, UserRecord
  <2>2. r \in Request BY <2>1
  <2>3. Staged(r) BY <2>1 DEF Staged
  <2>4. Begin(s, r) /\ UNCHANGED <<users, archives>> BY <1>4 DEF QuotaReads
  <2> QED BY <2>2, <2>3, <2>4, StartType
<1> QED BY <1>1, <1>2, <1>3, <1>4 DEF Start

LEMMA StepsType ==
    ASSUME IInv, NEW s \in Slots, Step(s)
    PROVE  IInv'
<1>1. req[s] \in Request /\ Staged(req[s])
  BY DEF Step, IInv, TypeOK, At, UploadRefused, UploadChecksTags, UploadFails, UploadForwards, EditRefused,
     EditChecksTags, EditLooks, SaveArchive, Saved, DeleteGone, DeleteLooks, DeleteRecord, AdjustReads,
     AdjustSaves, QuotaSaves
<1>2. CASE UploadRefused(s) \/ UploadFails(s) \/ EditRefused(s) \/ Saved(s) \/ DeleteGone(s)
  BY <1>2, FinishType DEF UploadRefused, UploadFails, EditRefused, Saved, DeleteGone, IInv, TypeOK
<1>3. CASE UploadChecksTags(s) \/ EditChecksTags(s)
  <2>1. PICK at \in {"forward", "look"} :
           /\ at = IF req[s].op = "upload" THEN "forward" ELSE "look"
           /\ req[s].op \in {"upload", "edit"} /\ req[s].at = "tags"
           /\ req' = [req EXCEPT ![s].at = at] /\ UNCHANGED <<users, archives, requests, alone, tagsAlone>>
    BY <1>3 DEF UploadChecksTags, EditChecksTags, At, Goto
  <2>2. [req[s] EXCEPT !.at = at] \in Request BY <1>1 DEF Request
  <2>3. Staged([req[s] EXCEPT !.at = at]) BY <1>1, <2>1 DEF Staged, Request
  <2> QED BY <2>1, <2>2, <2>3, SlotType DEF IInv, TypeOK
<1>4. CASE UploadForwards(s)
  <2>1. PICK a \in Archives : req' = [req EXCEPT ![s].archive = a, ![s].at = "put", ![s].old = FALSE]
    BY <1>4 DEF UploadForwards
  <2> DEFINE r == [req[s] EXCEPT !.archive = a, !.at = "put", !.old = FALSE]
  <2>2. r \in Request BY <1>1 DEF Request
  <2>3. Staged(r) BY <1>1, <1>4 DEF Staged, Request, UploadForwards, At
  <2>4. req' = [req EXCEPT ![s] = r] BY <2>1 DEF IInv, TypeOK
  <2> QED BY <1>4, <2>2, <2>3, <2>4, SlotType DEF UploadForwards, IInv, TypeOK
<1>5. CASE EditLooks(s)
  <2> DEFINE r == [req[s] EXCEPT !.old = archives[req[s].archive] # None, !.at = "put"]
  <2>1. r \in Request BY <1>1 DEF Request
  <2>2. Staged(r) BY <1>1, <1>5 DEF Staged, Request, EditLooks, At
  <2>3. req' = [req EXCEPT ![s] = r] BY <1>5 DEF EditLooks, IInv, TypeOK
  <2> QED BY <1>5, <2>1, <2>2, <2>3, SlotType DEF EditLooks, IInv, TypeOK
<1>6. CASE SaveArchive(s)
  <2>1. req[s].op \in {"upload", "edit"} /\ req[s].archive \in Archives
    BY <1>1, <1>6 DEF SaveArchive, Staged, Request
  <2>2. archives' \in [Archives -> ArchiveRecord \cup {None}]
    BY <1>1, <1>6, <2>1 DEF SaveArchive, Staged, Request, ArchiveRecord, IInv, TypeOK
  <2>3. req[s].size \in Int
    <3>1. req[s].size \in Sizes BY <1>1, <2>1 DEF Staged
    <3>2. \A size \in Sizes : size \in Int BY SizesAssumption
    <3> QED BY <3>1, <3>2
  <2>4. Charge(req[s]) \in Request
    BY <1>1, <2>3 DEF Charge, Request
  <2>5. Staged(Charge(req[s]))
    BY <1>1, <1>6, <2>1 DEF SaveArchive, Charge, Staged, Request
  <2> QED BY <1>6, <2>2, <2>4, <2>5 DEF SaveArchive, IInv, TypeOK, Staged
<1>7. CASE DeleteLooks(s)
  <2>1. req[s].archive \in Archives BY <1>1, <1>7 DEF Staged, DeleteLooks, At
  <2>2. archives[req[s].archive].size \in Int
    BY <1>7, <2>1, SizesAssumption DEF DeleteLooks, IInv, TypeOK, ArchiveRecord
  <2> DEFINE r == [req[s] EXCEPT !.delta = - archives[req[s].archive].size, !.at = "adjust"]
  <2>3. r \in Request
    <3>1. - archives[req[s].archive].size \in Int BY <2>2
    <3> QED BY <1>1, <3>1 DEF Request
  <2>4. Staged(r) BY <1>1, <1>7, <2>1 DEF Staged, Request, DeleteLooks, At
  <2>5. req' = [req EXCEPT ![s] = r] BY <1>7 DEF DeleteLooks, IInv, TypeOK
  <2> QED BY <1>7, <2>3, <2>4, <2>5, SlotType DEF DeleteLooks, IInv, TypeOK
<1>8. CASE DeleteRecord(s)
  BY <1>1, <1>8, FinishType DEF DeleteRecord, IInv, TypeOK
<1>9. CASE AdjustReads(s)
  <2> DEFINE r == [req[s] EXCEPT !.user = users[req[s].owner],
                                 !.at = IF users[req[s].owner] = None THEN "adjusted" ELSE "save"]
  <2>1. users[req[s].owner] \in UserRecord \cup {None} BY <1>1 DEF Request, IInv, TypeOK
  <2>2. r \in Request BY <1>1, <2>1 DEF Request
  <2>3. Staged(r) BY <1>1, <1>9, <2>1 DEF Staged, Request, AdjustReads
  <2>4. req' = [req EXCEPT ![s] = r] BY <1>9 DEF AdjustReads, IInv, TypeOK
  <2> QED BY <1>9, <2>2, <2>3, <2>4, SlotType DEF AdjustReads, IInv, TypeOK
<1>10. CASE AdjustSaves(s)
  <2>1. Adjusted(req[s].user, req[s].delta) \in UserRecord
    BY <1>1, <1>10, AdjustedType DEF AdjustSaves, Staged, Request
  <2>2. users' \in [Users -> UserRecord \cup {None}]
    BY <1>1, <1>10, <2>1 DEF AdjustSaves, Request, IInv, TypeOK
  <2>3. [req[s] EXCEPT !.at = "adjusted"] \in Request BY <1>1 DEF Request
  <2>4. Staged([req[s] EXCEPT !.at = "adjusted"]) BY <1>1, <1>10 DEF Staged, Request, AdjustSaves
  <2> QED BY <1>10, <2>2, <2>3, <2>4 DEF AdjustSaves, Goto, IInv, TypeOK, Staged
<1>11. CASE QuotaSaves(s)
  BY <1>1, <1>11 DEF QuotaSaves, At, Finish, Staged, Request, IInv, TypeOK
<1> QED BY <1>2, <1>3, <1>4, <1>5, <1>6, <1>7, <1>8, <1>9, <1>10, <1>11 DEF Step

LEMMA IInvStep == IInv /\ [Next]_vars => IInv'
<1> SUFFICES ASSUME IInv, [Next]_vars PROVE IInv'
  OBVIOUS
<1>1. ASSUME NEW u \in Users, NEW quota \in Quotas, CreateUser(u, quota) PROVE IInv'
  <2>1. [quota |-> quota, used |-> 0] \in UserRecord BY DEF UserRecord
  <2>2. alone' \in [Users -> BOOLEAN]
    <3>1. (alone[u] /\ Stored(u) = 0 /\ OnLedger(u) = {}) \in BOOLEAN OBVIOUS
    <3> QED BY <1>1, <3>1 DEF CreateUser, IInv, TypeOK
  <2>3. users' \in [Users -> UserRecord \cup {None}] BY <1>1, <2>1 DEF CreateUser, IInv, TypeOK
  <2>4. requests' \in 0..MaxRequests BY <1>1, BoundType DEF CreateUser, IInv, TypeOK
  <2> QED BY <1>1, <2>2, <2>3, <2>4 DEF CreateUser, IInv, TypeOK
<1>2. ASSUME NEW u \in Users, DeleteUser(u) PROVE IInv'
  <2>1. alone' \in [Users -> BOOLEAN]
    <3>1. (alone[u] /\ Stored(u) = 0 /\ OnLedger(u) = {}) \in BOOLEAN OBVIOUS
    <3> QED BY <1>2, <3>1 DEF DeleteUser, IInv, TypeOK
  <2>2. users' \in [Users -> UserRecord \cup {None}] BY <1>2 DEF DeleteUser, IInv, TypeOK
  <2>3. requests' \in 0..MaxRequests BY <1>2, BoundType DEF DeleteUser, IInv, TypeOK
  <2> QED BY <1>2, <2>1, <2>2, <2>3 DEF DeleteUser, IInv, TypeOK
<1>3. CASE UNCHANGED vars BY <1>3 DEF vars, IInv, TypeOK, Staged
<1> QED BY <1>1, <1>2, <1>3, StartsType, StepsType DEF Next

LEMMA Invariant == Spec => []IInv
<1>1. Init => IInv
  BY BoundType DEF Init, IInv, TypeOK, UserRecord
<1> QED BY <1>1, IInvStep, PTL DEF Spec

(* The buckets and the requests keep their types, and no balance of a user   *)
(* is ever negative, for all users, archives, sizes and quotas.              *)
THEOREM TypeCorrect == Spec => []TypeOK
<1>1. IInv => TypeOK
  BY DEF IInv
<1> QED BY <1>1, Invariant, PTL

-----------------------------------------------------------------------------
(* Uniqueness of tags *)

\* Other archives than a have none of the tags.
Free(tags, a) == \A b \in Archives \ {a} : archives[b] # None => archives[b].tags \cap tags = {}

\* While requests that check tags do not overlap, there is one of them at most,
\* and from its check to its save no other archive takes one of its tags.
Checked ==
    tagsAlone =>
        /\ \A s, t \in OnTags : s = t
        /\ \A s \in OnTags : req[s].at \in {"forward", "look", "put"} => Free(req[s].tags, req[s].archive)

LEMMA DuplicateFree ==
    ASSUME NEW tags, NEW a, ~Duplicate(tags, a)
    PROVE  Free(tags, a)
BY DEF Duplicate, Free

\* The archives are the same or fewer, and a request only goes on, or ends.
LEMMA NoNewTags ==
    ASSUME IInv, Checked, TagsAreUnique, tagsAlone' => tagsAlone,
           \A a \in Archives : archives'[a] = archives[a] \/ archives'[a] = None,
           \A s \in Slots : \/ req'[s] = req[s]
                            \/ req'[s] = None
                            \/ /\ req[s] # None /\ req'[s].op = req[s].op
                               /\ req'[s].at \notin {"forward", "look", "put"} \/ req'[s].op \notin {"upload", "edit"}
                            \/ /\ req[s] # None /\ req'[s].op = req[s].op /\ req'[s].tags = req[s].tags
                               /\ Free(req[s].tags, req'[s].archive)
    PROVE  Checked' /\ TagsAreUnique'
<1>1. TagsAreUnique'
  BY DEF TagsAreUnique
<1>2. ASSUME tagsAlone', NEW s \in OnTags' PROVE s \in OnTags
  BY <1>2 DEF OnTags, Busy
<1>3. ASSUME tagsAlone', NEW s \in OnTags', req'[s].at \in {"forward", "look", "put"}
      PROVE  Free(req[s].tags, req'[s].archive) /\ req'[s].tags = req[s].tags
  BY <1>2, <1>3 DEF Checked, OnTags, Busy
<1>4. ASSUME tagsAlone', NEW s \in OnTags', req'[s].at \in {"forward", "look", "put"}
      PROVE  Free(req[s].tags, req[s].archive)'
  BY <1>3, <1>4 DEF Free
<1> QED BY <1>1, <1>2, <1>4 DEF Checked

LEMMA StartTags ==
    ASSUME IInv, Checked, TagsAreUnique, NEW s \in Slots, Start(s)
    PROVE  Checked' /\ TagsAreUnique'
<1>1. PICK r : Begin(s, r) /\ r.at \in {"tags", "look", "save"} /\ (r.op \in {"upload", "edit"} => r.at = "tags")
               /\ UNCHANGED <<users, archives>>
  BY DEF Start, UploadChecksQuota, EditReads, DeleteStarts, QuotaReads
<1>2. req[s] = None /\ req' = [req EXCEPT ![s] = r]
      /\ tagsAlone' = (tagsAlone /\ (r.op \in {"upload", "edit"} => OnTags = {}))
  BY <1>1 DEF Begin
<1>3. req'[s] = r /\ \A t \in Slots \ {s} : req'[t] = req[t]
  BY <1>2 DEF IInv, TypeOK
<1>4. TagsAreUnique'
  BY <1>1, <1>2 DEF TagsAreUnique
<1>5. ASSUME tagsAlone', NEW t \in OnTags', t # s
      PROVE  t \in OnTags /\ ~(r.op \in {"upload", "edit"})
  BY <1>2, <1>3, <1>5 DEF OnTags, Busy
<1>6. ASSUME tagsAlone', NEW t \in OnTags', req'[t].at \in {"forward", "look", "put"}
      PROVE  Free(req[t].tags, req[t].archive)'
  <2>1. t # s
    BY <1>1, <1>3, <1>6 DEF OnTags, Busy
  <2>2. t \in OnTags /\ tagsAlone /\ req'[t] = req[t] /\ archives' = archives
    BY <1>1, <1>2, <1>3, <1>5, <1>6, <2>1 DEF OnTags, Busy
  <2> QED BY <1>6, <2>2 DEF Checked, Free
<1>7. ASSUME tagsAlone', NEW t \in OnTags', NEW q \in OnTags' PROVE t = q
  <2>1. CASE t = s \/ q = s
    BY <1>3, <1>5, <1>7, <2>1 DEF OnTags, Busy
  <2>2. CASE t # s /\ q # s
    BY <1>2, <1>5, <1>7, <2>2 DEF Checked
  <2> QED BY <2>1, <2>2
<1> QED BY <1>4, <1>6, <1>7 DEF Checked

LEMMA StepTags ==
    ASSUME IInv, Checked, TagsAreUnique, NEW s \in Slots, Step(s)
    PROVE  Checked' /\ TagsAreUnique'
<1> USE DEF At
<1>1. req[s] \in Request /\ Staged(req[s]) /\ req[s] # None
  BY DEF Step, IInv, TypeOK, UploadRefused, UploadChecksTags, UploadFails, UploadForwards, EditRefused,
     EditChecksTags, EditLooks, SaveArchive, Saved, DeleteGone, DeleteLooks, DeleteRecord, AdjustReads,
     AdjustSaves, QuotaSaves
<1>2. tagsAlone' = tagsAlone
  BY DEF Step, UploadRefused, UploadChecksTags, UploadFails, UploadForwards, EditRefused,
     EditChecksTags, EditLooks, SaveArchive, Saved, DeleteGone, DeleteLooks, DeleteRecord, AdjustReads,
     AdjustSaves, QuotaSaves
<1>3. CASE UploadRefused(s) \/ UploadFails(s) \/ EditRefused(s) \/ Saved(s) \/ DeleteGone(s) \/ QuotaSaves(s)
  <2>1. archives' = archives /\ req' = [req EXCEPT ![s] = None]
    BY <1>3 DEF UploadRefused, UploadFails, EditRefused, Saved, DeleteGone, QuotaSaves, Finish
  <2> QED BY <1>2, <2>1, NoNewTags DEF IInv, TypeOK
<1>4. CASE DeleteRecord(s)
  <2>1. archives' = [archives EXCEPT ![req[s].archive] = None] /\ req' = [req EXCEPT ![s] = None]
    BY <1>4 DEF DeleteRecord, Finish
  <2> QED BY <1>2, <2>1, NoNewTags DEF IInv, TypeOK
<1>5. CASE DeleteLooks(s) \/ AdjustReads(s) \/ AdjustSaves(s)
  <2>1. archives' = archives /\ req'[s].op = req[s].op /\ req'[s].at \in {"adjust", "adjusted", "save"}
        /\ \A t \in Slots \ {s} : req'[t] = req[t]
    BY <1>1, <1>5 DEF DeleteLooks, AdjustReads, AdjustSaves, Goto, IInv, TypeOK, Request
  <2> QED BY <1>1, <1>2, <2>1, NoNewTags
<1>6. CASE UploadChecksTags(s)
  <2>1. archives' = archives /\ req'[s].op = req[s].op /\ req'[s].tags = req[s].tags /\ req'[s].archive = req[s].archive
        /\ \A t \in Slots \ {s} : req'[t] = req[t]
    BY <1>1, <1>6 DEF UploadChecksTags, Goto, IInv, TypeOK, Request
  <2>2. Free(req[s].tags, None)
    BY <1>6, DuplicateFree DEF UploadChecksTags
  <2>3. Free(req[s].tags, req[s].archive)
    BY <2>2, NoneIsNoRecord DEF Free
  <2> QED BY <1>1, <1>2, <2>1, <2>3, NoNewTags
<1>7. CASE EditChecksTags(s)
  <2>1. archives' = archives /\ req'[s].op = req[s].op /\ req'[s].tags = req[s].tags /\ req'[s].archive = req[s].archive
        /\ \A t \in Slots \ {s} : req'[t] = req[t]
    BY <1>1, <1>7 DEF EditChecksTags, Goto, IInv, TypeOK, Request
  <2>2. Free(req[s].tags, req[s].archive)
    BY <1>7, DuplicateFree DEF EditChecksTags
  <2> QED BY <1>1, <1>2, <2>1, <2>2, NoNewTags
<1>8. CASE UploadForwards(s)
  <2>1. PICK a \in Archives \ Taken : req' = [req EXCEPT ![s].archive = a, ![s].at = "put", ![s].old = FALSE]
    BY <1>8 DEF UploadForwards
  <2>2. archives' = archives /\ req'[s].op = req[s].op /\ req'[s].tags = req[s].tags /\ req'[s].archive = a
        /\ \A t \in Slots \ {s} : req'[t] = req[t]
    BY <1>1, <1>8, <2>1 DEF UploadForwards, IInv, TypeOK, Request
  <2>3. ~tagsAlone \/ Free(req[s].tags, req[s].archive)
    BY <1>1, <1>8 DEF UploadForwards, Checked, OnTags, Busy
  <2>4. ~tagsAlone \/ Free(req[s].tags, a)
    BY <1>1, <1>8, <2>3, NoneIsNoRecord DEF UploadForwards, Free, Staged
  <2>5. CASE tagsAlone BY <1>1, <1>2, <2>2, <2>4, <2>5, NoNewTags
  <2>6. CASE ~tagsAlone BY <1>2, <2>6 DEF Checked, TagsAreUnique
  <2> QED BY <2>5, <2>6
<1>9. CASE EditLooks(s)
  <2>1. archives' = archives /\ req'[s].op = req[s].op /\ req'[s].tags = req[s].tags /\ req'[s].archive = req[s].archive
        /\ \A t \in Slots \ {s} : req'[t] = req[t]
    BY <1>1, <1>9 DEF EditLooks, IInv, TypeOK, Request
  <2>2. ~tagsAlone \/ Free(req[s].tags, req[s].archive)
    BY <1>1, <1>9 DEF EditLooks, Checked, OnTags, Busy
  <2>3. CASE tagsAlone BY <1>1, <1>2, <2>1, <2>2, <2>3, NoNewTags
  <2>4. CASE ~tagsAlone BY <1>2, <2>4 DEF Checked, TagsAreUnique
  <2> QED BY <2>3, <2>4
<1>10. CASE SaveArchive(s)
  <2>1. CASE ~tagsAlone BY <1>2, <2>1 DEF Checked, TagsAreUnique
  <2>2. CASE tagsAlone
    <3> DEFINE a == req[s].archive
    <3>1. req[s].op \in {"upload", "edit"} /\ req[s].at = "put" /\ a \in Archives
      BY <1>1, <1>10 DEF SaveArchive, Staged, Request
    <3>2. s \in OnTags /\ Free(req[s].tags, a) /\ \A t \in OnTags : t = s
      BY <1>1, <2>2, <3>1 DEF Checked, OnTags, Busy
    <3>3. archives'[a].tags = req[s].tags /\ \A b \in Archives \ {a} : archives'[b] = archives[b]
      BY <1>10, <3>1 DEF SaveArchive, IInv, TypeOK
    <3>4. TagsAreUnique'
      BY <2>2, <3>2, <3>3 DEF TagsAreUnique, Free
    <3>5. req'[s].op = req[s].op /\ req'[s].at \in {"adjust", "adjusted"} /\ \A t \in Slots \ {s} : req'[t] = req[t]
      BY <1>1, <1>10 DEF SaveArchive, Charge, IInv, TypeOK, Request
    <3>6. \A t \in OnTags' : t = s
      BY <3>2, <3>5 DEF OnTags, Busy
    <3> QED BY <3>4, <3>5, <3>6 DEF Checked
  <2> QED BY <2>1, <2>2
<1> QED BY <1>3, <1>4, <1>5, <1>6, <1>7, <1>8, <1>9, <1>10 DEF Step

(* Two archives never share a tag, as long as requests that check tags do    *)
(* not overlap, however many users, archives and other requests there are.   *)
THEOREM TagsUnique == Spec => []TagsAreUnique
<1>1. Init => Checked /\ TagsAreUnique
  BY DEF Init, Checked, TagsAreUnique, OnTags, Busy
<1>2. IInv /\ Checked /\ TagsAreUnique /\ [Next]_vars => Checked' /\ TagsAreUnique'
  <2> SUFFICES ASSUME IInv, Checked, TagsAreUnique, [Next]_vars PROVE Checked' /\ TagsAreUnique'
    OBVIOUS
  <2>1. CASE (\E u \in Users, quota \in Quotas : CreateUser(u, quota)) \/ (\E u \in Users : DeleteUser(u)) \/ UNCHANGED vars
    <3>1. UNCHANGED <<archives, req, tagsAlone>>
      BY <2>1 DEF CreateUser, DeleteUser, vars
    <3> QED BY <3>1 DEF Checked, TagsAreUnique, Free, OnTags, Busy
  <2> QED BY <2>1, StartTags, StepTags DEF Next
<1> QED BY <1>1, <1>2, Invariant, PTL DEF Spec

-----------------------------------------------------------------------------
(* The ledger *)

Recorded == {a \in Archives : archives[a] # None}
Holds(a) == {s \in Busy : req[s].archive = a}

\* All that hold an archive know its owner and its size, and an upload that
\* is about to record one is the only one to know of it.
OneOwner ==
    \A a \in Archives : \A s \in Holds(a) :
        /\ archives[a] # None => archives[a].owner = req[s].owner /\ archives[a].size = req[s].size
        /\ \A t \in Holds(a) : req[t].owner = req[s].owner /\ req[t].size = req[s].size
        /\ At(s, "upload", "put") => archives[a] = None /\ Holds(a) = {s} /\ ~req[s].old

\* What a request has recorded or not yet deleted, but not yet or already
\* charged.
Pending(r) ==
    IF (r.op = "upload" /\ r.at \in {"adjust", "save"}) \/ (r.op = "delete" /\ r.at = "adjusted")
    THEN r.size ELSE 0

\* The upload still fits.
Admitted(r, user) ==
    r.op = "upload" /\ r.at \in {"tags", "forward", "put"} /\ user.quota > 0
        => user.used + r.size <= user.quota

\* What a request knows while it is the only one on the ledger.
OnItsOwn(r) ==
    LET u == r.owner IN
    /\ r.op \in {"edit", "delete"} => archives[r.archive] # None
    /\ r.op = "edit" => r.at \in {"tags", "look", "put", "adjusted"} /\ (r.at = "put" => r.old)
    /\ r.op = "upload" /\ r.at \in {"adjust", "save"} => archives[r.archive] # None /\ r.delta = r.size
    /\ r.op = "delete" /\ r.at \in {"adjust", "save"} => r.delta = - r.size
    /\ r.at = "save" => users[u] # None /\ r.user.used = users[u].used /\ (r.op # "quota" => r.user = users[u])
    /\ users[u] # None => Admitted(r, users[u]) /\ users[u].used + Pending(r) = Stored(u)

Ledger(u) ==
    alone[u] =>
        /\ \A s, t \in OnLedger(u) : s = t
        /\ \A s \in OnLedger(u) : OnItsOwn(req[s])
        /\ OnLedger(u) = {} /\ users[u] # None => users[u].used = Stored(u)

LInv == IsFiniteSet(Recorded) /\ OneOwner /\ \A u \in Users : Ledger(u)

\* What is stored for a user: a natural number, no less than any one archive.
LEMMA StoredType ==
    ASSUME TypeOK, IsFiniteSet(Recorded), NEW u \in Users
    PROVE  /\ IsFiniteSet(Owned(u)) /\ Stored(u) \in Nat
           /\ \A a \in Owned(u) : archives[a].size \in Nat /\ archives[a].size <= Stored(u)
<1> DEFINE f == [a \in Owned(u) |-> archives[a].size]
<1>1. \A a \in Owned(u) : archives[a].size \in Nat
  BY SizesAssumption DEF Owned, TypeOK, ArchiveRecord
<1>2. IsFiniteSet(Owned(u))
  <2>1. Owned(u) \in SUBSET Recorded BY DEF Owned, Recorded
  <2> QED BY <2>1, FS_Subset
<1>3. SumFunctionOnSet(f, Owned(u)) \in Nat BY <1>1, <1>2, SumType
<1>4. Stored(u) = SumFunctionOnSet(f, Owned(u)) BY DEF Stored, SumFunction
<1>5. ASSUME NEW a \in Owned(u) PROVE archives[a].size <= Stored(u)
  <2>1. IsFiniteSet(Owned(u) \ {a}) BY <1>2, FS_Subset
  <2>2. SumFunctionOnSet(f, Owned(u) \ {a}) \in Nat BY <1>1, <2>1, SumType
  <2>3. SumFunctionOnSet(f, Owned(u)) = f[a] + SumFunctionOnSet(f, Owned(u) \ {a})
    BY <1>1, <1>2, SumTakeOut
  <2>4. f[a] = archives[a].size /\ f[a] \in Nat BY <1>1
  <2> HIDE DEF f
  <2> QED BY <1>4, <2>2, <2>3, <2>4
<1> QED BY <1>1, <1>2, <1>3, <1>4, <1>5

LEMMA StoredSame ==
    ASSUME NEW u, Owned(u)' = Owned(u), \A a \in Owned(u) : archives'[a].size = archives[a].size
    PROVE  Stored(u)' = Stored(u)
<1>1. [a \in Owned(u) |-> archives[a].size]' = [a \in Owned(u) |-> archives[a].size] OBVIOUS
<1> QED BY <1>1 DEF Stored

LEMMA StoredAdds ==
    ASSUME TypeOK, TypeOK', IsFiniteSet(Recorded), NEW u \in Users, NEW a, a \notin Owned(u),
           Owned(u)' = Owned(u) \cup {a}, \A b \in Owned(u) : archives'[b].size = archives[b].size
    PROVE  Stored(u)' = Stored(u) + archives'[a].size
<1> DEFINE f == [b \in Owned(u) |-> archives[b].size]
           g == [b \in Owned(u)' |-> archives'[b].size]
<1>1. \A b \in Owned(u)' : archives'[b].size \in Nat
  BY SizesAssumption DEF Owned, TypeOK, ArchiveRecord
<1>2. IsFiniteSet(DOMAIN f) BY StoredType
<1>3. SumFunction(g) = g[a] + SumFunction(f) BY <1>1, <1>2, SumGrows
<1>4. g[a] = archives'[a].size /\ g[a] \in Nat /\ Stored(u) = SumFunction(f) /\ Stored(u) \in Nat
  BY <1>1, StoredType DEF Stored
<1>5. Stored(u)' = SumFunction(g) BY DEF Stored
<1> HIDE DEF f, g
<1> QED BY <1>3, <1>4, <1>5

LEMMA StoredDrops ==
    ASSUME TypeOK, TypeOK', IsFiniteSet(Recorded), IsFiniteSet(Recorded)', NEW u \in Users, NEW a \in Owned(u),
           Owned(u)' = Owned(u) \ {a}, \A b \in Owned(u)' : archives'[b].size = archives[b].size
    PROVE  Stored(u)' \in Nat /\ Stored(u)' + archives[a].size = Stored(u)
<1> DEFINE f == [b \in Owned(u) |-> archives[b].size]
           g == [b \in Owned(u)' |-> archives'[b].size]
<1>1. \A b \in Owned(u) : archives[b].size \in Nat BY StoredType
<1>2. IsFiniteSet(DOMAIN g)
  <2>1. IsFiniteSet(Owned(u) \ {a}) BY StoredType, FS_RemoveElement
  <2> QED BY <2>1
<1>3. SumFunction(f) = f[a] + SumFunction(g)
  <2>1. DOMAIN f = DOMAIN g \cup {a} /\ a \notin DOMAIN g OBVIOUS
  <2>2. \A b \in DOMAIN g : g[b] = f[b] OBVIOUS
  <2>3. \A b \in DOMAIN f : f[b] \in Int BY <1>1
  <2> HIDE DEF f, g
  <2> QED BY <1>2, <2>1, <2>2, <2>3, SumGrows
<1>4. f[a] = archives[a].size /\ f[a] \in Nat /\ Stored(u) = SumFunction(f) /\ Stored(u) \in Nat
  BY <1>1, StoredType DEF Stored
<1>5. Stored(u)' = SumFunction(g) BY DEF Stored
<1>6. SumFunction(g) \in Nat
  <2>1. \A b \in DOMAIN g : g[b] \in Nat BY <1>1
  <2>2. SumFunctionOnSet(g, DOMAIN g) \in Nat BY <1>2, <2>1, SumType
  <2> QED BY <2>2 DEF SumFunction
<1> HIDE DEF f, g
<1> QED BY <1>3, <1>4, <1>5, <1>6


\* What a step of a request leaves alone.
LEMMA StepFrame ==
    ASSUME IInv, NEW s \in Slots, Step(s)
    PROVE  /\ req[s] \in Request /\ Staged(req[s]) /\ req[s] # None
           /\ \A t \in Slots \ {s} : req'[t] = req[t]
           /\ req'[s] # None => /\ req'[s].op = req[s].op /\ req'[s].owner = req[s].owner /\ req'[s].size = req[s].size
                                /\ ~UploadForwards(s) => req'[s].archive = req[s].archive
                                /\ ~UploadForwards(s) => ~At(s, "upload", "put")'
           /\ alone' = alone
           /\ \A u \in Users \ {req[s].owner} : users'[u] = users[u]
           /\ \A a \in Archives \ {req[s].archive} : archives'[a] = archives[a]
           /\ ~SaveArchive(s) => \A a \in Archives : archives'[a] \in {archives[a], None}
<1>1. req[s] \in Request /\ Staged(req[s]) /\ req[s] # None
  BY DEF Step, IInv, TypeOK, At, UploadRefused, UploadChecksTags, UploadFails, UploadForwards, EditRefused,
     EditChecksTags, EditLooks, SaveArchive, Saved, DeleteGone, DeleteLooks, DeleteRecord, AdjustReads,
     AdjustSaves, QuotaSaves
<1>2. CASE UploadRefused(s) \/ UploadFails(s) \/ EditRefused(s) \/ Saved(s) \/ DeleteGone(s) \/ QuotaSaves(s)
           \/ DeleteRecord(s)
  <2>1. req'[s] = None /\ alone' = alone /\ \A t \in Slots \ {s} : req'[t] = req[t]
    BY <1>2 DEF UploadRefused, UploadFails, EditRefused, Saved, DeleteGone, QuotaSaves, DeleteRecord, Finish, IInv, TypeOK
  <2>2. archives' = [archives EXCEPT ![req[s].archive] = None] \/ archives' = archives
    BY <1>2 DEF UploadRefused, UploadFails, EditRefused, Saved, DeleteGone, QuotaSaves, DeleteRecord
  <2>3. users' = [users EXCEPT ![req[s].owner] = req[s].user] \/ users' = users
    BY <1>2 DEF UploadRefused, UploadFails, EditRefused, Saved, DeleteGone, QuotaSaves, DeleteRecord
  <2> QED BY <1>1, <2>1, <2>2, <2>3 DEF IInv, TypeOK
<1>3. CASE UploadChecksTags(s) \/ EditChecksTags(s) \/ EditLooks(s) \/ DeleteLooks(s) \/ AdjustReads(s)
  <2>1. UNCHANGED <<users, archives, alone>>
    BY <1>3 DEF UploadChecksTags, EditChecksTags, EditLooks, DeleteLooks, AdjustReads
  <2>2. \A t \in Slots \ {s} : req'[t] = req[t]
    BY <1>3 DEF UploadChecksTags, EditChecksTags, EditLooks, DeleteLooks, AdjustReads, Goto, IInv, TypeOK
  <2>3. /\ req'[s].op = req[s].op /\ req'[s].owner = req[s].owner /\ req'[s].size = req[s].size
        /\ req'[s].archive = req[s].archive /\ ~At(s, "upload", "put")'
    <3> USE DEF Request, IInv, TypeOK, At
    <3>1. CASE UploadChecksTags(s) \/ EditChecksTags(s) BY <1>1, <3>1 DEF UploadChecksTags, EditChecksTags, Goto
    <3>2. CASE EditLooks(s) BY <1>1, <3>2 DEF EditLooks
    <3>3. CASE DeleteLooks(s) BY <1>1, <3>3 DEF DeleteLooks
    <3>4. CASE AdjustReads(s) BY <1>1, <3>4 DEF AdjustReads
    <3> QED BY <1>3, <3>1, <3>2, <3>3, <3>4
  <2> QED BY <1>1, <2>1, <2>2, <2>3
<1>4. CASE UploadForwards(s)
  <2>1. PICK c : req' = [req EXCEPT ![s].archive = c, ![s].at = "put", ![s].old = FALSE]
    BY <1>4 DEF UploadForwards
  <2>2. UNCHANGED <<users, archives, alone>>
    BY <1>4 DEF UploadForwards
  <2> QED BY <1>1, <1>4, <2>1, <2>2 DEF IInv, TypeOK, Request
<1>5. CASE SaveArchive(s)
  <2>1. UNCHANGED <<users, alone>> /\ \A a \in Archives \ {req[s].archive} : archives'[a] = archives[a]
    BY <1>5 DEF SaveArchive, IInv, TypeOK
  <2>2. req'[s] = Charge(req[s]) /\ \A t \in Slots \ {s} : req'[t] = req[t]
    BY <1>5 DEF SaveArchive, IInv, TypeOK
  <2> QED BY <1>1, <1>5, <2>1, <2>2 DEF Charge, Request, At
<1>6. CASE AdjustSaves(s)
  <2>1. UNCHANGED <<archives, alone>> /\ \A u \in Users \ {req[s].owner} : users'[u] = users[u]
    BY <1>6 DEF AdjustSaves, IInv, TypeOK
  <2>2. req' = [req EXCEPT ![s] = [req[s] EXCEPT !.at = "adjusted"]]
    BY <1>6 DEF AdjustSaves, Goto
  <2> QED BY <1>1, <2>1, <2>2 DEF IInv, TypeOK, Request, At
<1> QED BY <1>2, <1>3, <1>4, <1>5, <1>6 DEF Step

LEMMA FewRecorded ==
    ASSUME IsFiniteSet(Recorded), NEW a, \A b \in Archives \ {a} : archives'[b] = archives[b]
    PROVE  IsFiniteSet(Recorded)'
<1>1. IsFiniteSet(Recorded \cup {a}) BY FS_AddElement
<1>2. Recorded' \subseteq Recorded \cup {a} BY DEF Recorded
<1> QED BY <1>1, <1>2, FS_Subset

LEMMA StartOwns ==
    ASSUME IInv, OneOwner, NEW s \in Slots, Start(s)
    PROVE  OneOwner'
<1>1. PICK r : /\ Begin(s, r) /\ UNCHANGED <<users, archives>> /\ r.at # "put"
               /\ \/ r.archive = None
                  \/ archives[r.archive] # None /\ r.owner = archives[r.archive].owner /\ r.size = archives[r.archive].size
  <2>1. ASSUME NEW u, NEW size, NEW tags, UploadChecksQuota(s, u, size, tags)
        PROVE  \E r : /\ Begin(s, r) /\ UNCHANGED <<users, archives>> /\ r.at # "put" /\ r.archive = None
    BY <2>1 DEF UploadChecksQuota
  <2>2. ASSUME NEW a, NEW tags, EditReads(s, a, tags) \/ DeleteStarts(s, a)
        PROVE  \E r : /\ Begin(s, r) /\ UNCHANGED <<users, archives>> /\ r.at # "put"
                      /\ archives[r.archive] # None /\ r.owner = archives[r.archive].owner /\ r.size = archives[r.archive].size
    BY <2>2 DEF EditReads, DeleteStarts
  <2>3. ASSUME NEW u, NEW quota, QuotaReads(s, u, quota)
        PROVE  \E r : /\ Begin(s, r) /\ UNCHANGED <<users, archives>> /\ r.at # "put" /\ r.archive = None
    BY <2>3 DEF QuotaReads
  <2> QED BY <2>1, <2>2, <2>3, Zenon DEF Start
<1>2. req[s] = None /\ req'[s] = r /\ \A t \in Slots \ {s} : req'[t] = req[t]
  BY <1>1 DEF Begin, IInv, TypeOK
<1>3. \A a \in Archives : \A t \in Holds(a)' : t = s \/ t \in Holds(a)
  BY <1>2 DEF Holds, Busy
<1>4. \A a \in Archives : s \in Holds(a)' =>
        archives[a] # None /\ r.owner = archives[a].owner /\ r.size = archives[a].size
  BY <1>1, <1>2, NoneIsNoRecord DEF Holds, Busy
<1>5. ASSUME NEW a \in Archives, NEW t \in Holds(a)', t # s
      PROVE  req'[t] = req[t] /\ (At(t, "upload", "put")' => At(t, "upload", "put"))
  BY <1>2, <1>5 DEF Holds, Busy, At
<1>6. ASSUME NEW a \in Archives, NEW t \in Holds(a)'
      PROVE  /\ archives[a] # None => archives[a].owner = req'[t].owner /\ archives[a].size = req'[t].size
             /\ \A q \in Holds(a)' : req'[q].owner = req'[t].owner /\ req'[q].size = req'[t].size
             /\ At(t, "upload", "put")' => archives[a] = None /\ Holds(a)' = {t} /\ ~req'[t].old
  <2>1. archives[a] # None => archives[a].owner = req'[t].owner /\ archives[a].size = req'[t].size
    BY <1>2, <1>3, <1>4, <1>5 DEF OneOwner
  <2>2. \A q \in Holds(a)' : req'[q].owner = req'[t].owner /\ req'[q].size = req'[t].size
    <3>1. CASE s \in Holds(a)'
      <4>1. \A q \in Holds(a)' : req'[q].owner = archives[a].owner /\ req'[q].size = archives[a].size
        BY <1>2, <1>3, <1>4, <1>5, <3>1 DEF OneOwner
      <4> QED BY <4>1
    <3>2. CASE s \notin Holds(a)'
      BY <1>3, <1>5, <3>2 DEF OneOwner
    <3> QED BY <3>1, <3>2
  <2>3. ASSUME At(t, "upload", "put")' PROVE archives[a] = None /\ Holds(a)' = {t} /\ ~req'[t].old
    <3>1. t # s BY <1>1, <1>2, <2>3 DEF At
    <3>2. At(t, "upload", "put") /\ t \in Holds(a) /\ req'[t] = req[t] BY <1>3, <1>5, <2>3, <3>1
    <3>3. archives[a] = None /\ Holds(a) = {t} /\ ~req[t].old BY <3>2 DEF OneOwner
    <3> QED BY <1>3, <1>4, <3>2, <3>3
  <2> QED BY <2>1, <2>2, <2>3
<1> QED BY <1>1, <1>6 DEF OneOwner

LEMMA StepOwns ==
    ASSUME IInv, OneOwner, NEW s \in Slots, Step(s)
    PROVE  OneOwner'
<1>1. /\ req[s] \in Request /\ Staged(req[s]) /\ req[s] # None /\ \A t \in Slots \ {s} : req'[t] = req[t]
      /\ req'[s] # None => req'[s].op = req[s].op /\ req'[s].owner = req[s].owner /\ req'[s].size = req[s].size
      /\ \A a \in Archives \ {req[s].archive} : archives'[a] = archives[a]
  BY StepFrame
<1>2. CASE ~UploadForwards(s)
  <2>1. req'[s] # None => req'[s].archive = req[s].archive /\ ~At(s, "upload", "put")'
    BY <1>2, StepFrame
  <2>2. \A a \in Archives : Holds(a)' \subseteq Holds(a)
    BY <1>1, <2>1 DEF Holds, Busy
  <2>3. \A a \in Archives : \A t \in Holds(a)' : req'[t].owner = req[t].owner /\ req'[t].size = req[t].size
    BY <1>1 DEF Holds, Busy
  <2>4. ASSUME NEW a \in Archives, archives'[a] # archives[a], archives'[a] # None
        PROVE  s \in Holds(a) /\ archives'[a].owner = req[s].owner /\ archives'[a].size = req[s].size
    <3>1. SaveArchive(s) /\ a = req[s].archive BY <1>1, <2>4, StepFrame
    <3>2. archives'[a].owner = req[s].owner /\ archives'[a].size = req[s].size
      BY <3>1 DEF SaveArchive, IInv, TypeOK
    <3> QED BY <1>1, <3>1, <3>2 DEF Holds, Busy
  <2>5. ASSUME NEW a \in Archives, NEW t \in Holds(a)', archives'[a] # None
        PROVE  archives'[a].owner = req'[t].owner /\ archives'[a].size = req'[t].size
    <3>1. CASE archives'[a] = archives[a] BY <2>2, <2>3, <2>5, <3>1 DEF OneOwner
    <3>2. CASE archives'[a] # archives[a] BY <2>2, <2>3, <2>4, <2>5, <3>2 DEF OneOwner
    <3> QED BY <3>1, <3>2
  <2>6. ASSUME NEW a \in Archives, NEW t \in Holds(a)', At(t, "upload", "put")'
        PROVE  archives'[a] = None /\ Holds(a)' = {t} /\ ~req'[t].old
    <3>1. t # s /\ t \in Holds(a) /\ req'[t] = req[t] BY <1>1, <2>1, <2>2, <2>6 DEF Holds, Busy
    <3>2. archives[a] = None /\ Holds(a) = {t} /\ ~req[t].old BY <2>6, <3>1 DEF OneOwner, At
    <3>3. archives'[a] = None BY <2>4, <3>1, <3>2
    <3> QED BY <2>2, <2>6, <3>1, <3>2, <3>3
  <2>7. \A a \in Archives : \A t, q \in Holds(a)' : req'[q].owner = req'[t].owner /\ req'[q].size = req'[t].size
    BY <2>2, <2>3 DEF OneOwner
  <2> QED BY <2>5, <2>6, <2>7 DEF OneOwner
<1>3. CASE UploadForwards(s)
  <2>1. PICK c \in Archives \ Taken : req' = [req EXCEPT ![s].archive = c, ![s].at = "put", ![s].old = FALSE]
    BY <1>3 DEF UploadForwards
  <2>2. req'[s].archive = c /\ ~req'[s].old /\ req'[s] # None /\ archives' = archives /\ req[s].archive = None
    <3>1. req'[s].archive = c /\ ~req'[s].old BY <1>1, <2>1 DEF IInv, TypeOK, Request
    <3>2. req'[s] # None
      <4>1. req'[s] \in Request BY <1>1, <2>1 DEF IInv, TypeOK, Request
      <4> QED BY <4>1, NoRecordAssumption
    <3> QED BY <1>1, <1>3, <3>1, <3>2 DEF UploadForwards, Staged, At
  <2>3. archives[c] = None /\ Holds(c) = {}
    BY <2>1 DEF Taken, Holds
  <2>4. Holds(c)' = {s}
    <3>1. s \in Holds(c)' BY <2>2 DEF Holds, Busy
    <3>2. \A t \in Slots \ {s} : t \in Holds(c)' => t \in Holds(c) BY <1>1 DEF Holds, Busy
    <3> QED BY <2>3, <3>1, <3>2 DEF Holds, Busy
  <2>5. ASSUME NEW a \in Archives \ {c} PROVE Holds(a)' = Holds(a) /\ s \notin Holds(a)
    BY <1>1, <2>2, NoneIsNoRecord DEF Holds, Busy
  <2>6. ASSUME NEW a \in Archives \ {c}, NEW t \in Holds(a)'
        PROVE  t \in Holds(a) /\ req'[t] = req[t] /\ t \in Slots
    BY <1>1, <2>5 DEF Holds, Busy
  <2>7. ASSUME NEW a \in Archives \ {c}, NEW t \in Holds(a)'
        PROVE  /\ archives'[a] # None => archives'[a].owner = req'[t].owner /\ archives'[a].size = req'[t].size
               /\ \A q \in Holds(a)' : req'[q].owner = req'[t].owner /\ req'[q].size = req'[t].size
               /\ At(t, "upload", "put")' => archives'[a] = None /\ Holds(a)' = {t} /\ ~req'[t].old
    BY <2>2, <2>5, <2>6 DEF OneOwner, At
  <2> QED BY <2>2, <2>3, <2>4, <2>7 DEF OneOwner
<1> QED BY <1>2, <1>3


\* A step that is not about the user: requests of another user, say.
LEMMA LedgerKept ==
    ASSUME NEW u \in Users, Ledger(u), alone'[u] => alone[u], users'[u] = users[u], OnLedger(u)' = OnLedger(u),
           \A t \in OnLedger(u) : req'[t] = req[t],
           \A t \in OnLedger(u) : archives'[req[t].archive] = archives[req[t].archive], Stored(u)' = Stored(u)
    PROVE  Ledger(u)'
<1>1. ASSUME NEW t \in OnLedger(u), OnItsOwn(req[t]) PROVE OnItsOwn(req[t])'
  <2>1. req'[t] = req[t] /\ req[t].owner = u /\ archives'[req[t].archive] = archives[req[t].archive]
    BY <1>1 DEF OnLedger
  <2> QED BY <1>1, <2>1 DEF OnItsOwn, Admitted, Pending
<1> QED BY <1>1 DEF Ledger

\* A step of the only request on the ledger of its owner.
LEMMA LedgerOwn ==
    ASSUME NEW u \in Users, Ledger(u), NEW s \in OnLedger(u), alone'[u] => alone[u],
           \A t \in Slots \ {s} : req'[t] = req[t],
           alone[u] /\ OnItsOwn(req[s]) =>
             \/ req'[s] = None /\ (users'[u] # None => users'[u].used = Stored(u)')
             \/ req'[s] # None /\ req'[s].owner = u /\ OnItsOwn(req[s])'
    PROVE  Ledger(u)'
<1> SUFFICES ASSUME alone'[u]
             PROVE  /\ \A t, q \in OnLedger(u)' : t = q
                    /\ \A t \in OnLedger(u)' : OnItsOwn(req[t])'
                    /\ OnLedger(u)' = {} /\ users'[u] # None => users'[u].used = Stored(u)'
  BY DEF Ledger
<1>1. OnItsOwn(req[s]) /\ \A t \in OnLedger(u) : t = s BY DEF Ledger
<1>2. \A t \in OnLedger(u)' : t = s BY <1>1 DEF OnLedger, Busy
<1>3. CASE req'[s] = None /\ (users'[u] # None => users'[u].used = Stored(u)')
  <2>1. OnLedger(u)' = {} BY <1>2, <1>3 DEF OnLedger, Busy
  <2> QED BY <1>3, <2>1
<1>4. CASE req'[s] # None /\ req'[s].owner = u /\ OnItsOwn(req[s])'
  <2>1. s \in OnLedger(u)' BY <1>4 DEF OnLedger, Busy
  <2> QED BY <1>2, <1>4, <2>1
<1> QED BY <1>1, <1>3, <1>4

\* The requests of other users do not touch the archives of a user.
LEMMA StepOfOthers ==
    ASSUME IInv, LInv, NEW s \in Slots, Step(s), NEW u \in Users, req[s].owner # u
    PROVE  Ledger(u)'
<1>1. /\ req[s] # None /\ req[s] \in Request /\ \A t \in Slots \ {s} : req'[t] = req[t]
      /\ req'[s] # None => req'[s].owner = req[s].owner
      /\ alone' = alone /\ users'[u] = users[u]
      /\ \A a \in Archives \ {req[s].archive} : archives'[a] = archives[a]
  BY StepFrame
<1>2. OnLedger(u)' = OnLedger(u) /\ s \notin OnLedger(u) /\ \A t \in OnLedger(u) : req'[t] = req[t]
  BY <1>1 DEF OnLedger, Busy
<1>4. \A t \in OnLedger(u) : archives'[req[t].archive] = archives[req[t].archive]
  <2> SUFFICES ASSUME NEW t \in OnLedger(u) PROVE archives'[req[t].archive] = archives[req[t].archive]
    OBVIOUS
  <2>1. t \in Busy /\ req[t].owner = u BY DEF OnLedger
  <2>2. CASE req[t].archive \in Archives
    <3>1. req[t].archive # req[s].archive
      BY <1>1, <2>1, <2>2 DEF LInv, OneOwner, Holds, Busy
    <3> QED BY <1>1, <2>2, <3>1
  <2>3. CASE req[t].archive \notin Archives
    <3>1. ASSUME NEW a \in Archives, NEW v, archives' = [archives EXCEPT ![a] = v]
          PROVE  archives'[req[t].archive] = archives[req[t].archive]
      BY <2>3, <3>1 DEF IInv, TypeOK
    <3>2. CASE UNCHANGED archives BY <3>2
    <3>3. CASE SaveArchive(s) \/ DeleteRecord(s)
      <4>1. req[s].archive \in Archives
        BY <3>3, StepFrame DEF SaveArchive, DeleteRecord, At, Staged, Request
      <4> QED BY <3>1, <3>3, <4>1 DEF SaveArchive, DeleteRecord
    <3>4. UNCHANGED archives \/ SaveArchive(s) \/ DeleteRecord(s)
      BY DEF Step, UploadRefused, UploadChecksTags, UploadFails, UploadForwards, EditRefused, EditChecksTags, EditLooks,
         Saved, DeleteGone, DeleteLooks, AdjustReads, AdjustSaves, QuotaSaves
    <3> QED BY <3>2, <3>3, <3>4
  <2> QED BY <2>2, <2>3
<1>5. Stored(u)' = Stored(u)
  <2>1. ASSUME NEW a \in Archives, archives'[a] # archives[a]
        PROVE  /\ archives[a] # None => archives[a].owner # u
               /\ archives'[a] # None => archives'[a].owner # u
    <3>1. a = req[s].archive /\ s \in Holds(a) BY <1>1, <2>1 DEF Holds, Busy
    <3>2. archives[a] # None => archives[a].owner = req[s].owner BY <3>1 DEF LInv, OneOwner
    <3>3. archives'[a] # None => SaveArchive(s) BY <2>1, StepFrame
    <3>4. SaveArchive(s) => archives'[a].owner = req[s].owner BY <3>1 DEF SaveArchive, IInv, TypeOK
    <3> QED BY <3>2, <3>3, <3>4
  <2>2. Owned(u)' = Owned(u) /\ \A a \in Owned(u) : archives'[a] = archives[a]
    BY <2>1 DEF Owned
  <2> QED BY <2>2, StoredSame
<1> QED BY <1>1, <1>2, <1>4, <1>5, LedgerKept DEF LInv

\* A request that is the only one on the ledger goes on.
LEMMA OwnGoesOn ==
    ASSUME IInv, NEW s \in Slots, NEW r \in Request, req' = [req EXCEPT ![s] = r], UNCHANGED <<users, archives>>,
           OnItsOwn(r)
    PROVE  req'[s] = r /\ req'[s] # None /\ OnItsOwn(req[s])'
<1>1. req'[s] = r /\ r # None BY NoRecordAssumption DEF IInv, TypeOK
<1>2. Stored(r.owner)' = Stored(r.owner) BY DEF Stored, Owned
<1> QED BY <1>1, <1>2 DEF OnItsOwn, Admitted, Pending

\* The request of a user that has the ledger to itself.
LEMMA StepOfTheUser ==
    ASSUME IInv, IInv', LInv, IsFiniteSet(Recorded)', NEW s \in Slots, Step(s), NEW u \in Users, u = req[s].owner
    PROVE  Ledger(u)'
<1>0. PICK a : a = req[s].archive OBVIOUS
<1> USE <1>0
<1>1. /\ req[s] \in Request /\ Staged(req[s]) /\ req[s] # None /\ \A t \in Slots \ {s} : req'[t] = req[t]
      /\ req'[s] # None => req'[s].op = req[s].op /\ req'[s].owner = req[s].owner /\ req'[s].size = req[s].size
      /\ alone' = alone
  BY StepFrame
<1>2. u \in Users /\ s \in OnLedger(u) /\ Ledger(u)
  BY <1>1 DEF Request, OnLedger, Busy, LInv
<1> SUFFICES ASSUME alone[u], OnItsOwn(req[s])
             PROVE  \/ req'[s] = None /\ (users'[u] # None => users'[u].used = Stored(u)')
                    \/ req'[s] # None /\ req'[s].owner = u /\ OnItsOwn(req[s])'
  BY <1>1, <1>2, LedgerOwn
<1> USE DEF At
<1>3. req[s].size \in Nat /\ req[s].delta \in Int /\ Stored(u) \in Nat /\ (users[u] # None => users[u] \in UserRecord)
  <2>1. req[s].size \in Nat /\ req[s].delta \in Int
    <3>1. req[s].size \in Sizes \cup {0} BY <1>1 DEF Request
    <3>2. req[s].delta \in Int BY <1>1 DEF Request
    <3>3. Sizes \cup {0} \subseteq Nat BY SizesAssumption
    <3> QED BY <3>1, <3>2, <3>3
  <2>2. Stored(u) \in Nat BY StoredType DEF IInv, LInv
  <2>3. users[u] # None => users[u] \in UserRecord BY DEF IInv, TypeOK
  <2> QED BY <2>1, <2>2, <2>3
<1>4. users[u] # None => users[u].used \in Nat
  BY <1>3 DEF UserRecord
<1>5. a \in Archives => s \in Holds(a)
  BY <1>1 DEF Holds, Busy
<1>6. CASE UploadRefused(s) \/ UploadFails(s) \/ EditRefused(s) \/ Saved(s)
  <2>1. UNCHANGED <<users, archives>> /\ req'[s] = None
    BY <1>6 DEF UploadRefused, UploadFails, EditRefused, Saved, Finish, IInv, TypeOK
  <2>2. Pending(req[s]) = 0 BY <1>6 DEF UploadRefused, UploadFails, EditRefused, Saved, Pending
  <2>3. users[u] # None => users[u].used = Stored(u) BY <1>3, <1>4, <2>2 DEF OnItsOwn
  <2>4. Stored(u)' = Stored(u) BY <2>1 DEF Stored, Owned
  <2> QED BY <2>1, <2>3, <2>4
<1>7. CASE DeleteGone(s)
  BY <1>7 DEF DeleteGone, OnItsOwn
<1>8. CASE UploadChecksTags(s) \/ EditChecksTags(s) \/ EditLooks(s) \/ DeleteLooks(s) \/ AdjustReads(s) \/ UploadForwards(s)
  <2>1. UNCHANGED <<users, archives>>
    BY <1>8 DEF UploadChecksTags, EditChecksTags, EditLooks, DeleteLooks, AdjustReads, UploadForwards
  <2> SUFFICES \E r \in Request : req' = [req EXCEPT ![s] = r] /\ r.owner = u /\ OnItsOwn(r)
    BY <2>1, OwnGoesOn
  <2> DEFINE q == req[s]
  <2>2. q \in Request /\ OnItsOwn(q) /\ Staged(q) BY <1>1
  <2>3. CASE UploadChecksTags(s)
    <3> DEFINE r == [q EXCEPT !.at = "forward"]
    <3>1. req' = [req EXCEPT ![s] = r] /\ q.op = "upload" /\ q.at = "tags" BY <2>3 DEF UploadChecksTags, Goto
    <3> HIDE DEF q
    <3>2. r \in Request /\ r.owner = q.owner BY <2>2 DEF Request
    <3>3. OnItsOwn(r) BY <2>2, <3>1 DEF Request, OnItsOwn, Admitted, Pending
    <3> QED BY <3>1, <3>2, <3>3 DEF q
  <2>4. CASE EditChecksTags(s)
    <3> DEFINE r == [q EXCEPT !.at = "look"]
    <3>1. req' = [req EXCEPT ![s] = r] /\ q.op = "edit" /\ q.at = "tags" BY <2>4 DEF EditChecksTags, Goto
    <3> HIDE DEF q
    <3>2. r \in Request /\ r.owner = q.owner BY <2>2 DEF Request
    <3>3. OnItsOwn(r) BY <2>2, <3>1 DEF Request, OnItsOwn, Admitted, Pending
    <3> QED BY <3>1, <3>2, <3>3 DEF q
  <2>5. CASE EditLooks(s)
    <3> DEFINE r == [q EXCEPT !.old = archives[q.archive] # None, !.at = "put"]
    <3>1. req' = [req EXCEPT ![s] = r] /\ q.op = "edit" /\ q.at = "look" BY <2>5 DEF EditLooks
    <3> HIDE DEF q
    <3>2. r \in Request /\ r.owner = q.owner BY <2>2 DEF Request
    <3>3. OnItsOwn(r) BY <2>2, <3>1 DEF Request, OnItsOwn, Admitted, Pending
    <3> QED BY <3>1, <3>2, <3>3 DEF q
  <2>6. CASE DeleteLooks(s)
    <3> DEFINE r == [q EXCEPT !.delta = - archives[q.archive].size, !.at = "adjust"]
    <3>1. req' = [req EXCEPT ![s] = r] /\ q.op = "delete" /\ q.at = "look" /\ archives[q.archive] # None
      BY <2>6 DEF DeleteLooks
    <3>2. archives[q.archive].size = q.size
      BY <1>1, <1>5, <3>1 DEF LInv, OneOwner, Staged
    <3>3. q.size \in Nat BY <1>3
    <3> HIDE DEF q
    <3>4. - q.size \in Int BY <3>3
    <3>5. r \in Request /\ r.owner = q.owner /\ r.delta = - q.size BY <2>2, <3>2, <3>4 DEF Request
    <3>6. OnItsOwn(r) BY <2>2, <3>1, <3>5 DEF Request, OnItsOwn, Admitted, Pending
    <3> QED BY <3>1, <3>5, <3>6 DEF q
  <2>7. CASE AdjustReads(s)
    <3> DEFINE r == [q EXCEPT !.user = users[u], !.at = IF users[u] = None THEN "adjusted" ELSE "save"]
    <3>1. req' = [req EXCEPT ![s] = r] /\ q.at = "adjust" BY <2>7 DEF AdjustReads
    <3>2. users[u] \in UserRecord \cup {None} /\ q.owner = u BY <1>2 DEF IInv, TypeOK
    <3>3. q.op \in {"upload", "delete"} BY <2>2, <3>1 DEF OnItsOwn, Staged, Request
    <3> HIDE DEF q
    <3>4. r \in Request /\ r.owner = u BY <2>2, <3>2 DEF Request
    <3>5. OnItsOwn(r) BY <2>2, <3>1, <3>2, <3>3 DEF Request, OnItsOwn, Admitted, Pending
    <3> QED BY <3>1, <3>4, <3>5 DEF q
  <2>8. CASE UploadForwards(s)
    <3>1. PICK c \in Archives : req' = [req EXCEPT ![s] = [q EXCEPT !.archive = c, !.at = "put", !.old = FALSE]]
      BY <2>8 DEF UploadForwards
    <3> DEFINE r == [q EXCEPT !.archive = c, !.at = "put", !.old = FALSE]
    <3>2. q.op = "upload" /\ q.at = "forward" BY <2>8 DEF UploadForwards
    <3>3. req' = [req EXCEPT ![s] = r] BY <3>1
    <3> HIDE DEF q
    <3>4. r \in Request /\ r.owner = q.owner BY <2>2 DEF Request
    <3>5. OnItsOwn(r) BY <2>2, <3>2 DEF Request, OnItsOwn, Admitted, Pending
    <3> QED BY <3>3, <3>4, <3>5 DEF q
  <2> QED BY <1>8, <2>3, <2>4, <2>5, <2>6, <2>7, <2>8
<1>9. CASE SaveArchive(s)
  <2> DEFINE q == req[s]
             r == Charge(q)
  <2>1. q.at = "put" /\ req'[s] = r /\ users' = users /\ a \in Archives
    BY <1>1, <1>9 DEF SaveArchive, IInv, TypeOK, Staged, Request
  <2>2. archives'[a] # None /\ archives'[a].owner = u /\ archives'[a].size = q.size
        /\ \A b \in Archives \ {a} : archives'[b] = archives[b]
    <3> DEFINE new == [owner |-> req[s].owner, size |-> req[s].size, tags |-> req[s].tags]
    <3>1. archives' = [archives EXCEPT ![a] = new] BY <1>9 DEF SaveArchive
    <3>2. new \in ArchiveRecord BY <1>1, <2>1 DEF Staged, Request, ArchiveRecord
    <3> QED BY <2>1, <3>1, <3>2, NoRecordAssumption DEF IInv, TypeOK
  <2>3. q.op \in {"upload", "edit"} BY <1>1, <2>1 DEF Staged, Request
  <2>4. CASE q.op = "upload"
    <3>1. archives[a] = None /\ ~q.old
      <4>1. s \in Holds(a) /\ At(s, "upload", "put") /\ a \in Archives BY <1>1, <1>5, <2>1, <2>4
      <4> QED BY <4>1 DEF LInv, OneOwner
    <3>2. Stored(u)' = Stored(u) + q.size
      <4>1. a \notin Owned(u) /\ Owned(u)' = Owned(u) \cup {a} /\ \A b \in Owned(u) : archives'[b].size = archives[b].size
        BY <2>1, <2>2, <3>1 DEF Owned
      <4> QED BY <1>2, <2>2, <4>1, StoredAdds DEF IInv, LInv
    <3>3. r = [q EXCEPT !.at = "adjust", !.delta = q.size] BY <3>1 DEF Charge
    <3>4. users[u] # None => users[u].used = Stored(u)
      <4>1. users[u] # None => users[u].used + 0 = Stored(u) BY <2>1, <2>4 DEF OnItsOwn, Pending
      <4> QED BY <1>4, <4>1
    <3>5. r \in Request
      <4>1. q \in Request /\ q.size \in Int BY <1>1, <1>3
      <4> HIDE DEF q, r
      <4> QED BY <3>3, <4>1 DEF Request
    <3> HIDE DEF q
    <3>6. r.op = "upload" /\ r.at = "adjust" /\ r.owner = u /\ r.archive = a /\ r.size = q.size /\ r.delta = q.size
      BY <1>1, <2>4, <3>3 DEF Request, q
    <3> HIDE DEF r
    <3>7. OnItsOwn(req[s])'
      BY <2>1, <2>2, <3>2, <3>4, <3>6 DEF OnItsOwn, Admitted, Pending
    <3> QED BY <2>1, <3>5, <3>6, <3>7, NoRecordAssumption
  <2>5. CASE q.op = "edit"
    <3>1. archives[a] # None /\ q.old BY <2>1, <2>5 DEF OnItsOwn
    <3>2. archives[a].owner = u /\ archives[a].size = q.size BY <1>5, <2>1, <3>1 DEF LInv, OneOwner
    <3>3. Stored(u)' = Stored(u)
      <4>1. Owned(u)' = Owned(u) /\ \A b \in Owned(u) : archives'[b].size = archives[b].size
        BY <2>2, <3>1, <3>2 DEF Owned
      <4> QED BY <4>1, StoredSame
    <3>4. r = [q EXCEPT !.at = "adjusted"] BY <3>1 DEF Charge
    <3> HIDE DEF q
    <3>5. r \in Request BY <1>1, <3>4 DEF Request, q
    <3>6. r.op = "edit" /\ r.at = "adjusted" /\ r.owner = u /\ r.archive = a
      BY <1>1, <2>5, <3>4 DEF Request, q
    <3>7. users[u] # None => users[u].used + 0 = Stored(u) BY <2>5 DEF OnItsOwn, Pending, q
    <3> HIDE DEF r
    <3>8. OnItsOwn(req[s])'
      BY <2>1, <2>2, <3>3, <3>6, <3>7 DEF OnItsOwn, Admitted, Pending
    <3> QED BY <2>1, <3>5, <3>6, <3>8, NoRecordAssumption
  <2> QED BY <2>3, <2>4, <2>5
<1>10. CASE DeleteRecord(s)
  <2>1. req'[s] = None /\ users' = users /\ archives' = [archives EXCEPT ![a] = None]
        /\ req[s].op = "delete" /\ req[s].at = "adjusted" /\ a \in Archives /\ archives[a] # None
    BY <1>1, <1>10 DEF DeleteRecord, Finish, IInv, TypeOK, Staged, OnItsOwn
  <2>2. archives[a].owner = u /\ archives[a].size = req[s].size BY <1>5, <2>1 DEF LInv, OneOwner
  <2>3. Stored(u)' \in Nat /\ Stored(u)' + req[s].size = Stored(u)
    <3>1. a \in Owned(u) /\ Owned(u)' = Owned(u) \ {a} /\ \A b \in Owned(u)' : archives'[b].size = archives[b].size
      BY <2>1, <2>2 DEF Owned, IInv, TypeOK
    <3> QED BY <1>2, <2>2, <3>1, StoredDrops DEF IInv, LInv
  <2>5. users[u] # None => users[u].used + req[s].size = Stored(u) BY <2>1 DEF OnItsOwn, Pending
  <2>6. users[u] # None => users[u].used = Stored(u)' BY <1>3, <1>4, <2>3, <2>5
  <2> QED BY <2>1, <2>6
<1>11. CASE AdjustSaves(s)
  <2> DEFINE q == req[s]
             r == [q EXCEPT !.at = "adjusted"]
  <2>1. q.at = "save" /\ q.op \in {"upload", "delete"} /\ archives' = archives /\ users[u] # None /\ q.user = users[u]
    BY <1>1, <1>11 DEF AdjustSaves, OnItsOwn, Staged, Request
  <2>2. req'[s] = r /\ users'[u] = Adjusted(users[u], q.delta)
    BY <1>2, <1>11, <2>1 DEF AdjustSaves, Goto, IInv, TypeOK
  <2>3. Stored(u)' = Stored(u) BY <2>1 DEF Stored, Owned
  <2>4. users[u] \in UserRecord /\ users[u].used \in Nat BY <1>3, <1>4, <2>1
  <2>5. users'[u].used = users[u].used + q.delta /\ users[u].used + q.delta + Pending(r) = Stored(u)
    <3>1. CASE q.op = "upload"
      <4>1. q.delta = q.size /\ users[u].used + q.size = Stored(u) BY <2>1, <3>1 DEF OnItsOwn, Pending
      <4>2. Pending(r) = 0 BY <1>1, <3>1 DEF Pending, Request
      <4>3. ~(users[u].used + q.delta < 0) BY <1>3, <2>4, <4>1
      <4>4. users'[u].used = users[u].used + q.delta BY <2>2, <2>4, <4>3 DEF Adjusted, UserRecord
      <4> QED BY <1>3, <2>4, <4>1, <4>2, <4>4
    <3>2. CASE q.op = "delete"
      <4>1. q.delta = - q.size /\ users[u].used + 0 = Stored(u) /\ archives[a] # None
        BY <2>1, <3>2 DEF OnItsOwn, Pending
      <4>2. Pending(r) = q.size BY <1>1, <3>2 DEF Pending, Request
      <4>3. a \in Archives /\ a \in Owned(u) /\ archives[a].size = q.size
        BY <1>1, <1>5, <3>2, <4>1 DEF LInv, OneOwner, Owned, Staged
      <4>4. q.size <= Stored(u) BY <1>2, <4>3, StoredType DEF IInv, LInv
      <4>5. ~(users[u].used + q.delta < 0) BY <1>3, <2>4, <4>1, <4>4
      <4>6. users'[u].used = users[u].used + q.delta BY <2>2, <2>4, <4>5 DEF Adjusted, UserRecord
      <4> QED BY <1>3, <2>4, <4>1, <4>2, <4>6
    <3> QED BY <2>1, <3>1, <3>2
  <2>6. q.op = "delete" \/ q.op = "upload" => archives[a] # None BY <2>1 DEF OnItsOwn
  <2> HIDE DEF q
  <2>7. r \in Request /\ r.op = q.op /\ r.at = "adjusted" /\ r.owner = u /\ r.archive = a
    BY <1>1 DEF Request, q
  <2> HIDE DEF r
  <2>8. OnItsOwn(req[s])'
    BY <2>1, <2>2, <2>3, <2>5, <2>6, <2>7 DEF OnItsOwn, Admitted, Pending
  <2> QED BY <2>2, <2>7, <2>8, NoRecordAssumption
<1>12. CASE QuotaSaves(s)
  <2>1. req'[s] = None /\ users'[u] = req[s].user /\ archives' = archives /\ req[s].op = "quota" /\ req[s].at = "save"
    BY <1>2, <1>12 DEF QuotaSaves, Finish, IInv, TypeOK
  <2>2. users[u] # None /\ req[s].user.used = users[u].used /\ users[u].used + 0 = Stored(u)
    BY <2>1 DEF OnItsOwn, Pending
  <2>3. Stored(u)' = Stored(u) BY <2>1 DEF Stored, Owned
  <2> QED BY <1>3, <1>4, <2>1, <2>2, <2>3
<1> QED BY <1>6, <1>7, <1>8, <1>9, <1>10, <1>11, <1>12 DEF Step


LEMMA StartLedger ==
    ASSUME IInv, LInv, NEW s \in Slots, Start(s), NEW u \in Users
    PROVE  Ledger(u)'
<1>1. PICK r : /\ Begin(s, r) /\ UNCHANGED <<users, archives>> /\ r.owner \in Users
               /\ OnLedger(r.owner) = {} /\ alone[r.owner] => OnItsOwn(r)
  <2>1. \A v \in Users : alone[v] /\ OnLedger(v) = {} /\ users[v] # None => users[v].used \in Nat /\ users[v].used = Stored(v)
    BY DEF LInv, Ledger, IInv, TypeOK, UserRecord
  <2>2. ASSUME NEW v \in Users, NEW size \in Sizes, NEW tags, UploadChecksQuota(s, v, size, tags)
        PROVE  \E r : /\ Begin(s, r) /\ UNCHANGED <<users, archives>> /\ r.owner \in Users
                      /\ OnLedger(r.owner) = {} /\ alone[r.owner] => OnItsOwn(r)
    <3> DEFINE r == [op |-> "upload", at |-> "tags", owner |-> v, archive |-> None,
                     size |-> size, tags |-> tags, old |-> FALSE, user |-> None, delta |-> 0]
    <3>1. Begin(s, r) /\ UNCHANGED <<users, archives>> /\ CheckUserQuota(v, size) BY <2>2 DEF UploadChecksQuota
    <3>2. OnLedger(v) = {} /\ alone[v] => OnItsOwn(r)
      <4> SUFFICES ASSUME OnLedger(v) = {}, alone[v] PROVE OnItsOwn(r) OBVIOUS
      <4>1. users[v] # None /\ users[v].used \in Nat /\ users[v].used = Stored(v) BY <2>1, <3>1 DEF CheckUserQuota
      <4>2. Admitted(r, users[v]) BY <3>1 DEF CheckUserQuota, Admitted
      <4>3. Pending(r) = 0 BY DEF Pending
      <4> QED BY <4>1, <4>2, <4>3 DEF OnItsOwn
    <3> HIDE DEF r
    <3>3. r.owner = v BY DEF r
    <3> QED BY <3>1, <3>2, <3>3
  <2>3. ASSUME NEW c \in Archives, NEW tags, EditReads(s, c, tags)
        PROVE  \E r : /\ Begin(s, r) /\ UNCHANGED <<users, archives>> /\ r.owner \in Users
                      /\ OnLedger(r.owner) = {} /\ alone[r.owner] => OnItsOwn(r)
    <3> DEFINE v == archives[c].owner
               r == [op |-> "edit", at |-> "tags", owner |-> archives[c].owner, archive |-> c,
                     size |-> archives[c].size, tags |-> tags, old |-> FALSE, user |-> None, delta |-> 0]
    <3>1. Begin(s, r) /\ UNCHANGED <<users, archives>> /\ archives[c] # None BY <2>3 DEF EditReads
    <3>2. v \in Users BY <3>1 DEF IInv, TypeOK, ArchiveRecord
    <3>3. OnLedger(v) = {} /\ alone[v] => OnItsOwn(r)
      <4> SUFFICES ASSUME OnLedger(v) = {}, alone[v] PROVE OnItsOwn(r) OBVIOUS
      <4>1. users[v] # None => users[v].used \in Nat /\ users[v].used = Stored(v) BY <2>1, <3>2
      <4> QED BY <3>1, <4>1 DEF OnItsOwn, Admitted, Pending
    <3> HIDE DEF r
    <3>4. r.owner = v BY DEF r
    <3> QED BY <3>1, <3>2, <3>3, <3>4
  <2>4. ASSUME NEW c \in Archives, DeleteStarts(s, c)
        PROVE  \E r : /\ Begin(s, r) /\ UNCHANGED <<users, archives>> /\ r.owner \in Users
                      /\ OnLedger(r.owner) = {} /\ alone[r.owner] => OnItsOwn(r)
    <3> DEFINE v == archives[c].owner
               r == [op |-> "delete", at |-> "look", owner |-> archives[c].owner, archive |-> c,
                     size |-> archives[c].size, tags |-> {}, old |-> FALSE, user |-> None, delta |-> 0]
    <3>1. Begin(s, r) /\ UNCHANGED <<users, archives>> /\ archives[c] # None BY <2>4 DEF DeleteStarts
    <3>2. v \in Users BY <3>1 DEF IInv, TypeOK, ArchiveRecord
    <3>3. OnLedger(v) = {} /\ alone[v] => OnItsOwn(r)
      <4> SUFFICES ASSUME OnLedger(v) = {}, alone[v] PROVE OnItsOwn(r) OBVIOUS
      <4>1. users[v] # None => users[v].used \in Nat /\ users[v].used = Stored(v) BY <2>1, <3>2
      <4> QED BY <3>1, <4>1 DEF OnItsOwn, Admitted, Pending
    <3> HIDE DEF r
    <3>4. r.owner = v BY DEF r
    <3> QED BY <3>1, <3>2, <3>3, <3>4
  <2>5. ASSUME NEW v \in Users, NEW quota, QuotaReads(s, v, quota)
        PROVE  \E r : /\ Begin(s, r) /\ UNCHANGED <<users, archives>> /\ r.owner \in Users
                      /\ OnLedger(r.owner) = {} /\ alone[r.owner] => OnItsOwn(r)
    <3>0. PICK copy : copy = [users[v] EXCEPT !.quota = quota] OBVIOUS
    <3> DEFINE r == [op |-> "quota", at |-> "save", owner |-> v, archive |-> None, size |-> 0,
                     tags |-> {}, old |-> FALSE, user |-> copy, delta |-> 0]
    <3>1. Begin(s, r) /\ UNCHANGED <<users, archives>> /\ users[v] # None BY <2>5, <3>0 DEF QuotaReads
    <3>2. copy.used = users[v].used
      BY <3>0, <3>1 DEF IInv, TypeOK, UserRecord
    <3>3. OnLedger(v) = {} /\ alone[v] => OnItsOwn(r)
      <4> SUFFICES ASSUME OnLedger(v) = {}, alone[v] PROVE OnItsOwn(r) OBVIOUS
      <4>1. users[v].used \in Nat /\ users[v].used = Stored(v) BY <2>1, <3>1
      <4> QED BY <3>1, <3>2, <4>1 DEF OnItsOwn, Admitted, Pending
    <3> HIDE DEF r
    <3>4. r.owner = v BY DEF r
    <3> QED BY <3>1, <3>3, <3>4
  <2> QED BY <2>2, <2>3, <2>4, <2>5 DEF Start
<1>2. req[s] = None /\ req'[s] = r /\ \A t \in Slots \ {s} : req'[t] = req[t]
  BY <1>1 DEF Begin, IInv, TypeOK
<1>3. alone' = [alone EXCEPT ![r.owner] = @ /\ OnLedger(r.owner) = {}]
  BY <1>1 DEF Begin
<1>4. Stored(u)' = Stored(u) BY <1>1 DEF Stored, Owned
<1>5. CASE u # r.owner
  <2>1. alone'[u] = alone[u] BY <1>3, <1>5 DEF IInv, TypeOK
  <2>2. OnLedger(u)' = OnLedger(u) /\ \A t \in OnLedger(u) : req'[t] = req[t]
    BY <1>2, <1>5 DEF OnLedger, Busy
  <2> QED BY <1>1, <1>4, <2>1, <2>2, LedgerKept DEF LInv
<1>6. CASE u = r.owner
  <2> SUFFICES ASSUME alone'[u]
               PROVE  /\ \A t, q \in OnLedger(u)' : t = q
                      /\ \A t \in OnLedger(u)' : OnItsOwn(req[t])'
                      /\ OnLedger(u)' = {} /\ users'[u] # None => users'[u].used = Stored(u)'
    BY DEF Ledger
  <2>1. alone[u] /\ OnLedger(u) = {} BY <1>3, <1>6 DEF IInv, TypeOK
  <2>2. OnItsOwn(r) BY <1>1, <1>6, <2>1 DEF LInv
  <2>3. \A t \in OnLedger(u)' : t = s BY <1>2, <2>1 DEF OnLedger, Busy
  <2>4. OnItsOwn(req[s])' BY <1>1, <1>2, <1>4, <1>6, <2>2 DEF OnItsOwn, Admitted, Pending
  <2>5. OnLedger(u)' = {} => (users'[u] # None => users'[u].used = Stored(u)')
    BY <1>1, <1>4, <2>1 DEF LInv, Ledger
  <2> QED BY <2>3, <2>4, <2>5
<1> QED BY <1>5, <1>6

LEMMA AccountsLedger ==
    ASSUME IInv, LInv, NEW v \in Users, NEW u \in Users,
           (\E quota \in Quotas : CreateUser(v, quota)) \/ DeleteUser(v)
    PROVE  Ledger(u)'
<1>1. /\ UNCHANGED <<archives, req>> /\ alone' = [alone EXCEPT ![v] = @ /\ Stored(v) = 0 /\ OnLedger(v) = {}]
      /\ \E record \in {[quota |-> quota, used |-> 0] : quota \in Quotas} \cup {None} : users' = [users EXCEPT ![v] = record]
  BY DEF CreateUser, DeleteUser
<1>2. Stored(u)' = Stored(u) /\ OnLedger(u)' = OnLedger(u)
  BY <1>1 DEF Stored, Owned, OnLedger, Busy
<1>3. CASE u # v
  BY <1>1, <1>2, <1>3, LedgerKept DEF LInv, IInv, TypeOK
<1>4. CASE u = v
  <2> SUFFICES ASSUME alone'[u] PROVE Ledger(u)' BY DEF Ledger
  <2>1. Stored(u) = 0 /\ OnLedger(u) = {} BY <1>1, <1>4 DEF IInv, TypeOK
  <2>2. users'[u] # None => users'[u].used = 0 BY <1>1, <1>4 DEF IInv, TypeOK
  <2> QED BY <1>2, <2>1, <2>2 DEF Ledger
<1> QED BY <1>3, <1>4

LEMMA NextLedger == IInv /\ LInv /\ IInv' /\ [Next]_vars => LInv'
<1> SUFFICES ASSUME IInv, LInv, IInv', [Next]_vars PROVE LInv'
  OBVIOUS
<1>1. ASSUME NEW s \in Slots, Start(s) PROVE LInv'
  <2>1. archives' = archives BY <1>1 DEF Start, UploadChecksQuota, EditReads, DeleteStarts, QuotaReads
  <2>2. IsFiniteSet(Recorded)' BY <2>1 DEF LInv, Recorded
  <2> QED BY <1>1, <2>2, StartOwns, StartLedger DEF LInv
<1>2. ASSUME NEW s \in Slots, Step(s) PROVE LInv'
  <2>1. PICK a : a = req[s].archive OBVIOUS
  <2>2. \A b \in Archives \ {a} : archives'[b] = archives[b] BY <1>2, <2>1, StepFrame
  <2>3. IsFiniteSet(Recorded)' BY <2>2, FewRecorded DEF LInv
  <2>4. \A u \in Users : Ledger(u)' BY <1>2, <2>3, StepOfOthers, StepOfTheUser
  <2> QED BY <1>2, <2>3, <2>4, StepOwns DEF LInv
<1>3. ASSUME NEW v \in Users, (\E quota \in Quotas : CreateUser(v, quota)) \/ DeleteUser(v) PROVE LInv'
  <2>1. UNCHANGED <<archives, req>> BY <1>3 DEF CreateUser, DeleteUser
  <2>2. IsFiniteSet(Recorded)' /\ OneOwner' BY <2>1 DEF LInv, Recorded, OneOwner, Holds, Busy, At
  <2> QED BY <1>3, <2>2, AccountsLedger DEF LInv
<1>4. CASE UNCHANGED vars
  <2>1. UNCHANGED <<users, archives, req, alone>> BY <1>4 DEF vars
  <2>2. \A u \in Users : Stored(u)' = Stored(u) /\ OnLedger(u)' = OnLedger(u)
    BY <2>1 DEF Stored, Owned, OnLedger, Busy
  <2>3. \A u \in Users : Ledger(u)' BY <2>1, <2>2, LedgerKept DEF LInv
  <2>4. IsFiniteSet(Recorded)' /\ OneOwner' BY <2>1 DEF LInv, Recorded, OneOwner, Holds, Busy, At
  <2> QED BY <2>3, <2>4 DEF LInv
<1> QED BY <1>1, <1>2, <1>3, <1>4 DEF Next

LEMMA InitLedger == Init => LInv
<1> SUFFICES ASSUME Init PROVE LInv OBVIOUS
<1>1. Recorded = {} /\ \A a \in Archives : Holds(a) = {} BY DEF Init, Recorded, Holds, Busy
<1>2. IsFiniteSet(Recorded) /\ OneOwner BY <1>1, FS_EmptySet DEF OneOwner
<1>3. ASSUME NEW u \in Users PROVE Ledger(u)
  <2>1. Owned(u) = {} /\ OnLedger(u) = {} BY DEF Init, Owned, OnLedger, Busy
  <2>2. Stored(u) = 0
    <3>1. DOMAIN [a \in Owned(u) |-> archives[a].size] = {} BY <2>1
    <3> QED BY <3>1, SumEmpty DEF Stored, SumFunction
  <2>3. users[u].used = 0 BY DEF Init
  <2> QED BY <2>1, <2>2, <2>3 DEF Ledger
<1> QED BY <1>2, <1>3 DEF LInv


(* The ledger of a user is what the records of the user's archives add up to *)
(* whenever the requests of that user never overlapped, for any number of    *)
(* users, archives and requests in progress.                                 *)
THEOREM LedgerExact == Spec => []LedgerIsExact
<1>1. IInv /\ LInv => LedgerIsExact
  BY DEF LInv, Ledger, LedgerIsExact
<1> QED BY <1>1, InitLedger, NextLedger, Invariant, PTL DEF Spec

\* An archive appears at the end of an upload that was admitted.
LEMMA RecordedWithinQuota ==
    ASSUME IInv, LInv, IInv', Next, NEW u \in Users, alone[u], users[u] # None, users[u].quota > 0,
           NEW a \in Archives, archives[a] = None, archives'[a] # None, archives'[a].owner = u
    PROVE  Stored(u)' <= users[u].quota
<1>1. PICK s \in Slots : Step(s)
  BY DEF Next, Start, UploadChecksQuota, EditReads, DeleteStarts, QuotaReads, CreateUser, DeleteUser
<1>2. SaveArchive(s) /\ a = req[s].archive /\ req[s] \in Request /\ req[s] # None /\ Staged(req[s])
  BY <1>1, StepFrame
<1>3. archives' = [archives EXCEPT ![a] = [owner |-> req[s].owner, size |-> req[s].size, tags |-> req[s].tags]]
      /\ req[s].at = "put"
  BY <1>2 DEF SaveArchive
<1>4. archives'[a].size = req[s].size /\ req[s].owner = u /\ \A b \in Archives \ {a} : archives'[b] = archives[b]
  BY <1>3 DEF IInv, TypeOK
<1>5. OnItsOwn(req[s])
  BY <1>2, <1>4 DEF LInv, Ledger, OnLedger, Busy
<1>6. req[s].op = "upload"
  BY <1>2, <1>3, <1>5 DEF OnItsOwn, Staged, Request
<1>7. users[u].used + req[s].size <= users[u].quota /\ users[u].used + 0 = Stored(u)
  BY <1>3, <1>4, <1>5, <1>6 DEF OnItsOwn, Admitted, Pending
<1>8. Stored(u)' = Stored(u) + req[s].size
  <2>1. a \notin Owned(u) /\ Owned(u)' = Owned(u) \cup {a} /\ \A b \in Owned(u) : archives'[b].size = archives[b].size
    BY <1>4 DEF Owned
  <2> QED BY <1>4, <2>1, StoredAdds DEF IInv, LInv
<1>9. users[u].used \in Nat
  BY DEF IInv, TypeOK, UserRecord
<1> QED BY <1>7, <1>8, <1>9

(* An upload that is recorded leaves its user within the quota of that       *)
(* moment, if the requests of that user never overlapped.                    *)
THEOREM UploadsKeepQuota == Spec => UploadKeepsQuota
<1>1. IInv /\ LInv /\ IInv' /\ [Next]_vars =>
        [\A u \in Users :
           (/\ alone[u] /\ users[u] # None /\ users[u].quota > 0
            /\ \E a \in Archives : archives[a] = None /\ archives'[a] # None /\ archives'[a].owner = u)
           => Stored(u)' <= users[u].quota]_vars
  BY RecordedWithinQuota
<1> QED BY <1>1, InitLedger, NextLedger, Invariant, PTL DEF Spec, UploadKeepsQuota

================================================================================
