----------------------------- MODULE AlarmCenter -----------------------------
(***************************************************************************)
(* The alarm center: what workers report and take back by themselves       *)
(* (checkSelfHealth, ReportAlarm and ResolveAlarm of                       *)
(* internal/worker/agent.go), the alarm bucket that aggregates it          *)
(* (internal/store/store.go) and the administrator's operations            *)
(* (handleAlarmReport and handleAlarmItem of internal/manager/api.go).     *)
(*                                                                         *)
(* Reports, automatic resolutions and the clearing of the history hold the *)
(* store's mutex over a read and a write; acknowledging, resolving by hand *)
(* and deleting do not.                                                    *)
(***************************************************************************)
EXTENDS Naturals, FiniteSets, Functions

CONSTANTS
    Node, Type,
    Handler,            \* requests the manager serves at once
    AdminOp,            \* what the administrator may do
    MaxMs,              \* bounds: milliseconds in which alarms are created,
    MaxCount,           \*   occurrences counted,
    MaxChanges,         \*   changes of the condition of a node,
    MaxTimeouts,        \*   requests lost or answered too late,
    MaxAdmin            \*   operations of the administrator

ASSUME HandlerType == {"admin", "free"} \cap Handler = {}
ASSUME AdminType   == AdminOp \subseteq {"ack", "resolve", "delete", "clear"}
ASSUME AlarmBoundsType  == /\ {MaxChanges, MaxTimeouts, MaxAdmin} \subseteq Nat
                      /\ {MaxMs, MaxCount} \subseteq Nat \ {0}

VARIABLES
    condition,  \* of each node: bad, between the two thresholds, or good
    cooling,    \* alarm types reported within the last 30 seconds
    inbox,      \* requests on their way; those the worker gave up are late
    alarms,     \* bucket alarms
    ms,         \* millisecond of the latest new alarm
    mu,         \* the store's mutex
    op,         \* request in service: what it read
    admin,      \* the administrator's operation: what it read
    changes, timeouts,
    adminOps    \* operations of the administrator so far, by kind

env  == <<condition, cooling, changes, timeouts>>
alarmVars == <<condition, cooling, inbox, alarms, ms, mu, op, admin, changes, timeouts, adminOps>>

Key     == Node \X Type
ID      == (1..MaxMs) \X Type
Alarm   == [node : Node, status : {"active", "acknowledged", "resolved"}, count : 1..MaxCount]
NoAlarm == [status |-> "none"]
NoID    == <<0, "none">>
Request == [node : Node, type : Type, action : {"report", "resolve"}, late : BOOLEAN]
NoOp    == [request |-> "none"]
NoAdmin == [does |-> "none"]

AlarmTypeOK ==
    /\ condition \in [Key -> {"bad", "between", "good"}]
    /\ cooling \subseteq Key
    /\ inbox \subseteq Request
    /\ alarms \in [ID -> Alarm \cup {NoAlarm}]
    /\ ms \in 0..MaxMs
    /\ mu \in Handler \cup {"admin", "free"}
    /\ mu \in Handler => op[mu] # NoOp
    /\ mu = "admin" => admin.does = "clear"
    /\ op \in [Handler -> [request : Request, id : ID \cup {NoID}, copy : Alarm \cup {NoAlarm}]
                          \cup {NoOp}]
    /\ \/ admin = NoAdmin
       \/ admin \in [does : {"ack", "resolve"}, id : ID, copy : Alarm]
       \/ admin \in [does : {"clear"}, ids : SUBSET ID]
    /\ changes \in 0..MaxChanges /\ timeouts \in 0..MaxTimeouts
    /\ adminOps \in [AdminOp -> Nat]

AlarmInit ==
    /\ condition = [k \in Key |-> "good"] /\ cooling = {}
    /\ inbox = {} /\ alarms = [i \in ID |-> NoAlarm] /\ ms = 0
    /\ mu = "free" /\ op = [h \in Handler |-> NoOp] /\ admin = NoAdmin
    /\ changes = 0 /\ timeouts = 0 /\ adminOps = [o \in AdminOp |-> 0]

Stored   == {i \in ID : alarms[i] # NoAlarm}
Open(n, t) == {i \in Stored : i[2] = t /\ alarms[i].node = n /\ alarms[i].status # "resolved"}

-----------------------------------------------------------------------------
(* checkSelfHealth: a worker sends one request after the other. *)

InService(n) ==
    \/ \E m \in inbox : m.node = n /\ ~m.late
    \/ \E h \in Handler : op[h] # NoOp /\ op[h].request.node = n /\ ~op[h].request.late

Send(n, t, action) ==
    /\ ~InService(n)
    /\ inbox' = inbox \cup {[node |-> n, type |-> t, action |-> action, late |-> FALSE]}
    /\ UNCHANGED <<condition, alarms, ms, mu, op, admin, changes, timeouts, adminOps>>

ReportAlarm(n, t) ==
    /\ condition[n, t] = "bad" /\ <<n, t>> \notin cooling
    /\ cooling' = cooling \cup {<<n, t>>}
    /\ Send(n, t, "report")

ResolveAlarm(n, t) ==
    /\ condition[n, t] = "good"
    /\ UNCHANGED cooling
    /\ Send(n, t, "resolve")

\* Mutant: the cooldown is never over.
CooledNever(k) == FALSE

Cooled(k) == k \in cooling

CooldownEnds(k) ==
    /\ Cooled(k)
    /\ cooling' = cooling \ {k}
    /\ UNCHANGED <<condition, inbox, alarms, ms, mu, op, admin, changes, timeouts, adminOps>>

Change(k, c) ==
    /\ changes < MaxChanges /\ condition[k] # c
    /\ changes' = changes + 1
    /\ condition' = [condition EXCEPT ![k] = c]
    /\ UNCHANGED <<cooling, inbox, alarms, ms, mu, op, admin, timeouts, adminOps>>

Lost(m) ==
    /\ m \in inbox /\ timeouts < MaxTimeouts
    /\ timeouts' = timeouts + 1
    /\ inbox' = inbox \ {m}
    /\ UNCHANGED <<condition, cooling, alarms, ms, mu, op, admin, changes, adminOps>>

TimesOut(m) ==
    /\ m \in inbox /\ ~m.late /\ timeouts < MaxTimeouts
    /\ timeouts' = timeouts + 1
    /\ inbox' = (inbox \ {m}) \cup {[m EXCEPT !.late = TRUE]}
    /\ UNCHANGED <<condition, cooling, alarms, ms, mu, op, admin, changes, adminOps>>

-----------------------------------------------------------------------------
(* handleAlarmReport: CreateOrAggregateAlarm and Store.ResolveAlarm. *)

\* Mutant: the mutex is not taken.
AvailableAlways == TRUE

Available == mu = "free"

\* Mutant: an alarm the administrator acknowledged is not found.
FindUnacknowledged(n, t) ==
    LET found == {i \in Open(n, t) : alarms[i].status = "active"}
    IN  IF found = {} THEN NoID ELSE CHOOSE i \in found : \A j \in found : j[1] <= i[1]

\* The last match in key order.
FindActiveAlarm(n, t) ==
    IF Open(n, t) = {} THEN NoID
    ELSE CHOOSE i \in Open(n, t) : \A j \in Open(n, t) : j[1] <= i[1]

Serve(h, m) ==
    /\ m \in inbox /\ op[h] = NoOp /\ Available
    /\ mu' = h
    /\ inbox' = inbox \ {m}
    /\ LET found == FindActiveAlarm(m.node, m.type)
       IN  op' = [op EXCEPT ![h] =
                  [request |-> m, id |-> found,
                   copy |-> IF found = NoID THEN NoAlarm ELSE alarms[found]]]
    /\ UNCHANGED <<env, alarms, ms, admin, adminOps>>

Done(h) ==
    /\ op' = [op EXCEPT ![h] = NoOp]
    /\ mu' = "free"
    /\ UNCHANGED <<env, inbox, admin, adminOps>>

Capped(n) == IF n < MaxCount THEN n ELSE MaxCount

Aggregates(h) ==
    /\ op[h] # NoOp /\ op[h].request.action = "report" /\ op[h].id # NoID
    /\ alarms' = [alarms EXCEPT ![op[h].id] =
                  [op[h].copy EXCEPT !.count = Capped(@ + 1)]]
    /\ UNCHANGED ms
    /\ Done(h)

\* The ID is made of the millisecond and the type; two alarms may be created
\* within one.
Creates(h) ==
    /\ op[h] # NoOp /\ op[h].request.action = "report" /\ op[h].id = NoID
    /\ ms' \in {ms, ms + 1} \cap (1..MaxMs)
    /\ alarms' = [alarms EXCEPT ![<<ms', op[h].request.type>>] =
                  [node |-> op[h].request.node, status |-> "active", count |-> 1]]
    /\ Done(h)

Resolves(h) ==
    /\ op[h] # NoOp /\ op[h].request.action = "resolve"
    /\ alarms' = IF op[h].id = NoID THEN alarms
                 ELSE [alarms EXCEPT ![op[h].id] = [op[h].copy EXCEPT !.status = "resolved"]]
    /\ UNCHANGED ms
    /\ Done(h)

Finish(h) == Aggregates(h) \/ Creates(h) \/ Resolves(h)

-----------------------------------------------------------------------------
(* handleAlarmItem and handleAlarms: AcknowledgeAlarm, ManualResolveAlarm, *)
(* DeleteAlarm, ClearResolvedAlarms.                                       *)

AdminStarts(does) ==
    /\ admin = NoAdmin /\ does \in AdminOp /\ SumFunction(adminOps) < MaxAdmin
    /\ adminOps' = [adminOps EXCEPT ![does] = @ + 1]
    /\ UNCHANGED <<env, inbox, ms, op>>

\* Mutant: whatever the administrator sees he may acknowledge.
MayAcknowledgeAny(i) == TRUE

MayAcknowledge(i) == alarms[i].status # "resolved"

AdminReads(does, i) ==
    /\ AdminStarts(does) /\ does \in {"ack", "resolve"}
    /\ i \in Stored
    /\ does = "ack" => MayAcknowledge(i)
    /\ admin' = [does |-> does, id |-> i, copy |-> alarms[i]]
    /\ UNCHANGED <<alarms, mu>>

AdminSaves ==
    /\ admin.does \in {"ack", "resolve"}
    /\ alarms' = [alarms EXCEPT ![admin.id] =
           [admin.copy EXCEPT !.status = IF admin.does = "ack" THEN "acknowledged" ELSE "resolved"]]
    /\ admin' = NoAdmin
    /\ UNCHANGED <<env, inbox, ms, mu, op, adminOps>>

DeleteAlarm(i) ==
    /\ AdminStarts("delete")
    /\ i \in Stored
    /\ alarms' = [alarms EXCEPT ![i] = NoAlarm]
    /\ UNCHANGED <<admin, mu>>

ClearLists ==
    /\ AdminStarts("clear")
    /\ Available
    /\ mu' = "admin"
    /\ admin' = [does |-> "clear", ids |-> {i \in Stored : alarms[i].status = "resolved"}]
    /\ UNCHANGED alarms

ClearDeletes ==
    /\ admin.does = "clear"
    /\ alarms' = [i \in ID |-> IF i \in admin.ids THEN NoAlarm ELSE alarms[i]]
    /\ admin' = NoAdmin /\ mu' = "free"
    /\ UNCHANGED <<env, inbox, ms, op, adminOps>>

Administrate ==
    \/ \E i \in ID : AdminReads("ack", i) \/ AdminReads("resolve", i) \/ DeleteAlarm(i)
    \/ AdminSaves \/ ClearLists \/ ClearDeletes

-----------------------------------------------------------------------------

CheckSelfHealth(n) == \E t \in Type : ReportAlarm(n, t) \/ ResolveAlarm(n, t)

AlarmNext ==
    \/ \E n \in Node : CheckSelfHealth(n)
    \/ \E k \in Key : CooldownEnds(k) \/ \E c \in {"bad", "between", "good"} : Change(k, c)
    \/ \E m \in inbox : Lost(m) \/ TimesOut(m)
    \/ \E h \in Handler : Finish(h) \/ \E m \in inbox : Serve(h, m)
    \/ Administrate

AlarmSpec == AlarmInit /\ [][AlarmNext]_alarmVars

(* A worker checks itself at every heartbeat, each condition in turn, time *)
(* passes and the manager serves what has arrived.                         *)
AlarmFairness ==
    /\ \A n \in Node, t \in Type :
          SF_alarmVars(ReportAlarm(n, t)) /\ SF_alarmVars(ResolveAlarm(n, t))
    /\ \A k \in Key : WF_alarmVars(CooldownEnds(k))
    /\ \A m \in Request : SF_alarmVars(\E h \in Handler : Serve(h, m))
    /\ \A h \in Handler : WF_alarmVars(Finish(h))
    /\ WF_alarmVars(AdminSaves) /\ WF_alarmVars(ClearDeletes)

FairAlarmSpec == AlarmSpec /\ AlarmFairness

-----------------------------------------------------------------------------
(* Properties *)

(* While a fault lasts an open alarm shows it, again and again, whatever the *)
(* administrator and the network do meanwhile.                               *)
LastingFaultIsAlarmed ==
    \A n \in Node, t \in Type :
        <>[](condition[n, t] = "bad") => []<>(Open(n, t) # {})

(* Once the fault is over for good all its alarms get resolved, those        *)
(* included that were acknowledged or came from a report that arrived late.  *)
ClearedFaultIsResolved ==
    \A n \in Node, t \in Type :
        <>[](condition[n, t] = "good") => <>[](Open(n, t) = {})

(* Reports of one condition are aggregated: it has one open alarm, as long   *)
(* as the administrator acknowledges none.                                   *)
OneOpenAlarm ==
    ("ack" \in AdminOp => adminOps["ack"] = 0)
        => \A n \in Node, t \in Type : Cardinality(Open(n, t)) <= 1

(* A resolved alarm is not opened again, by whatever requests, late reports   *)
(* and operations of the administrator follow: a new occurrence is a new      *)
(* alarm.  It holds of an alarm nobody holds an older copy of and whose       *)
(* millisecond is over: a report that read it before it was resolved by hand  *)
(* saves it open again, and an alarm created within the same millisecond has   *)
(* its ID.                                                                    *)
Over(i) ==
    /\ alarms[i].status \in {"resolved", "none"} /\ i[1] < ms
    /\ \A h \in Handler : op[h] = NoOp \/ op[h].id # i
    /\ ~(admin.does = "ack" /\ admin.id = i)

ResolvedStaysResolved == [][\A i \in ID : Over(i) => Over(i)']_alarmVars
=============================================================================
