------------------------------ MODULE RecordProofs ------------------------------
(* Proofs about records of the store that a handler reads in one transaction and *)
(* writes back in another: alarms (AlarmCenter) and the record of an archive      *)
(* (ArchiveLifecycle).                                                            *)
EXTENDS AlarmCenter, ArchiveLifecycle, FiniteSetTheorems, WellFoundedInduction, TLAPS

-----------------------------------------------------------------------------
(* Alarms: the one that is found *)

\* Of some alarms one is the latest.
LEMMA HasLatest ==
    ASSUME NEW S, S \subseteq ID, S # {}
    PROVE  \E i \in S : \A j \in S : j[1] <= i[1]
<1> DEFINE T == {MaxMs - i[1] : i \in S}
<1>1. MaxMs \in Nat BY AlarmBoundsType
<1>2. \A i \in S : i[1] \in 1..MaxMs BY DEF ID
<1>3. T \subseteq Nat /\ T # {} BY <1>1, <1>2
<1>4. \E m \in T : \A n \in T : ~(<<n, m>> \in OpToRel(<, Nat))
  <2> HIDE DEF T
  <2> QED BY <1>3, WFMin, NatLessThanWellFounded, Zenon
<1>5. PICK i \in S : \A j \in S : ~(<<MaxMs - j[1], MaxMs - i[1]>> \in OpToRel(<, Nat))
  BY <1>4
<1>6. ASSUME NEW j \in S PROVE j[1] <= i[1]
  <2>1. MaxMs - j[1] \in Nat /\ MaxMs - i[1] \in Nat BY <1>1, <1>2
  <2>2. ~(MaxMs - j[1] < MaxMs - i[1]) BY <1>5, <2>1 DEF OpToRel
  <2> QED BY <1>1, <1>2, <2>2
<1> QED BY <1>6

LEMMA FoundType ==
    ASSUME AlarmTypeOK, NEW n \in Node, NEW t \in Type
    PROVE  \/ Open(n, t) = {} /\ FindActiveAlarm(n, t) = NoID
           \/ FindActiveAlarm(n, t) \in Open(n, t)
<1>1. Open(n, t) \subseteq ID BY DEF Open, Stored
<1>2. CASE Open(n, t) = {} BY <1>2 DEF FindActiveAlarm
<1>3. CASE Open(n, t) # {}
  <2>1. \E i \in Open(n, t) : \A j \in Open(n, t) : j[1] <= i[1] BY <1>1, <1>3, HasLatest
  <2> QED BY <1>3, <2>1 DEF FindActiveAlarm
<1> QED BY <1>2, <1>3

-----------------------------------------------------------------------------
(* Alarms: the invariant *)

\* The request that holds the mutex is the one in service.
Locking ==
    /\ \A h \in Handler : op[h] # NoOp <=> mu = h
    /\ mu = "admin" <=> admin.does = "clear"

\* What a request remembers is an alarm of the condition it is about.
Remembers ==
    \A h \in Handler : op[h] # NoOp /\ op[h].id # NoID =>
        /\ op[h].copy \in Alarm
        /\ op[h].copy.node = op[h].request.node
        /\ op[h].id[2] = op[h].request.type

NoAck == "ack" \in AdminOp => adminOps["ack"] = 0

\* Without acknowledgements: a request that holds the mutex knows the open
\* alarm of its condition, and there is one at most.
Single ==
    NoAck =>
        /\ admin.does # "ack"
        /\ \A n \in Node, t \in Type : \A i, j \in Open(n, t) : i = j
        /\ \A h \in Handler : op[h] # NoOp =>
               \A i \in Open(op[h].request.node, op[h].request.type) : i = op[h].id

IInv == AlarmTypeOK /\ Locking /\ Remembers

AInv == IInv /\ Single

LEMMA NothingIsSomething == NoAlarm \notin Alarm /\ NoID \notin ID
BY DEF NoAlarm, Alarm, NoID, ID

LEMMA ServiceIsSomething ==
    ASSUME NEW m, NEW i, NEW c
    PROVE  [request |-> m, id |-> i, copy |-> c] # NoOp
<1>1. DOMAIN [request |-> m, id |-> i, copy |-> c] = {"request", "id", "copy"} OBVIOUS
<1>2. DOMAIN NoOp = {"request"} BY DEF NoOp
<1> QED BY <1>1, <1>2

\* What is known of a request in service.
LEMMA InServiceType ==
    ASSUME IInv, NEW h \in Handler, op[h] # NoOp
    PROVE  /\ op[h] \in [request : Request, id : ID \cup {NoID}, copy : Alarm \cup {NoAlarm}]
           /\ op[h].request.node \in Node /\ op[h].request.type \in Type
           /\ mu = h
BY DEF IInv, AlarmTypeOK, Locking, Request

-----------------------------------------------------------------------------
(* Each step keeps it *)

LEMMA InitIInv == AlarmInit => AInv
<1> SUFFICES ASSUME AlarmInit PROVE AInv OBVIOUS
<1>1. AlarmTypeOK
  BY HandlerType, AlarmBoundsType DEF AlarmInit, AlarmTypeOK, NoAdmin
<1>2. Locking /\ Remembers BY HandlerType DEF AlarmInit, Locking, Remembers, NoAdmin
<1>3. Single BY DEF AlarmInit, Single, NoAdmin, Open, Stored
<1> QED BY <1>1, <1>2, <1>3 DEF AInv, IInv

\* The steps of the workers and of the network touch no alarm.
LEMMA WorkersType ==
    ASSUME IInv,
           \/ \E n \in Node : CheckSelfHealth(n)
           \/ \E k \in Key : CooldownEnds(k) \/ \E c \in {"bad", "between", "good"} : Change(k, c)
           \/ \E m \in inbox : Lost(m) \/ TimesOut(m)
    PROVE  IInv' /\ UNCHANGED <<alarms, ms, mu, op, admin, adminOps>>
<1> USE DEF IInv, AlarmTypeOK, Locking, Remembers
<1>1. ASSUME NEW n \in Node, CheckSelfHealth(n)
      PROVE  IInv' /\ UNCHANGED <<alarms, ms, mu, op, admin, adminOps>>
  <2>1. PICK t \in Type : ReportAlarm(n, t) \/ ResolveAlarm(n, t) BY <1>1 DEF CheckSelfHealth
  <2>2. \A a \in {"report", "resolve"} : [node |-> n, type |-> t, action |-> a, late |-> FALSE] \in Request
    BY DEF Request
  <2>3. <<n, t>> \in Key BY DEF Key
  <2> QED BY <2>1, <2>2, <2>3 DEF ReportAlarm, ResolveAlarm, Send
<1>2. ASSUME NEW k \in Key, CooldownEnds(k)
      PROVE  IInv' /\ UNCHANGED <<alarms, ms, mu, op, admin, adminOps>>
  BY <1>2 DEF CooldownEnds
<1>3. ASSUME NEW k \in Key, NEW c \in {"bad", "between", "good"}, Change(k, c)
      PROVE  IInv' /\ UNCHANGED <<alarms, ms, mu, op, admin, adminOps>>
  BY <1>3, AlarmBoundsType DEF Change
<1>4. ASSUME NEW m \in inbox, Lost(m)
      PROVE  IInv' /\ UNCHANGED <<alarms, ms, mu, op, admin, adminOps>>
  BY <1>4, AlarmBoundsType DEF Lost
<1>5. ASSUME NEW m \in inbox, TimesOut(m)
      PROVE  IInv' /\ UNCHANGED <<alarms, ms, mu, op, admin, adminOps>>
  <2>1. [m EXCEPT !.late = TRUE] \in Request BY DEF Request
  <2>2. inbox' \subseteq Request /\ timeouts' \in 0..MaxTimeouts
        /\ UNCHANGED <<condition, cooling, alarms, ms, mu, op, admin, changes, adminOps>>
    <3>1. timeouts' = timeouts + 1 /\ timeouts < MaxTimeouts /\ MaxTimeouts \in Nat
      BY <1>5, AlarmBoundsType DEF TimesOut
    <3>2. inbox' = (inbox \ {m}) \cup {[m EXCEPT !.late = TRUE]} BY <1>5 DEF TimesOut
    <3>3. UNCHANGED <<condition, cooling, alarms, ms, mu, op, admin, changes, adminOps>>
      BY <1>5 DEF TimesOut
    <3>4. inbox' \subseteq Request BY <2>1, <3>2
    <3>5. timeouts' \in 0..MaxTimeouts
      <4>1. timeouts \in 0..MaxTimeouts OBVIOUS
      <4> HIDE DEF IInv
      <4> QED BY <3>1, <4>1
    <3> QED BY <3>3, <3>4, <3>5
  <2> QED BY <2>2
<1> QED BY <1>1, <1>2, <1>3, <1>4, <1>5

LEMMA ServeType ==
    ASSUME IInv, NEW h \in Handler, NEW m \in inbox, Serve(h, m)
    PROVE  IInv'
<1> DEFINE found == FindActiveAlarm(m.node, m.type)
           r == [request |-> m, id |-> found, copy |-> IF found = NoID THEN NoAlarm ELSE alarms[found]]
<1>1. m \in Request /\ m.node \in Node /\ m.type \in Type BY DEF IInv, AlarmTypeOK, Request
<1>2. op' = [op EXCEPT ![h] = r] /\ mu' = h /\ mu = "free" BY DEF Serve, Available
<1>3. found = NoID \/ found \in Open(m.node, m.type) BY <1>1, FoundType DEF IInv
<1>4. r \in [request : Request, id : ID \cup {NoID}, copy : Alarm \cup {NoAlarm}]
  BY <1>1, <1>3 DEF Open, Stored, IInv, AlarmTypeOK
<1>5. r # NoOp BY ServiceIsSomething
<1>6. AlarmTypeOK'
  BY <1>2, <1>4, <1>5, HandlerType DEF Serve, env, IInv, AlarmTypeOK
<1>7. Locking' BY <1>2, <1>5, HandlerType DEF Serve, IInv, AlarmTypeOK, Locking
<1>8. r.id # NoID => r.copy \in Alarm /\ r.copy.node = m.node /\ r.id[2] = m.type
  BY <1>3 DEF Open, Stored, IInv, AlarmTypeOK
<1>9. Remembers' BY <1>2, <1>8 DEF IInv, AlarmTypeOK, Remembers
<1> QED BY <1>6, <1>7, <1>9 DEF IInv

\* A request leaves.
LEMMA DoneType ==
    ASSUME IInv, NEW h \in Handler, op[h] # NoOp, Done(h),
           alarms' \in [ID -> Alarm \cup {NoAlarm}], ms' \in 0..MaxMs
    PROVE  IInv'
<1>1. mu = h BY InServiceType
<1>2. AlarmTypeOK' BY HandlerType DEF Done, env, IInv, AlarmTypeOK
<1>3. Locking' BY <1>1, HandlerType DEF Done, IInv, AlarmTypeOK, Locking
<1>4. Remembers' BY DEF Done, IInv, AlarmTypeOK, Remembers
<1> QED BY <1>2, <1>3, <1>4 DEF IInv

LEMMA FinishType ==
    ASSUME IInv, NEW h \in Handler, Finish(h)
    PROVE  /\ IInv' /\ op[h] # NoOp /\ Done(h)
           /\ \E i \in ID, a \in Alarm :
                 /\ alarms' = alarms \/ alarms' = [alarms EXCEPT ![i] = a]
                 /\ a.status # "resolved" =>
                       /\ a.node = op[h].request.node /\ i[2] = op[h].request.type
                       /\ op[h].id \in {i, NoID}
<1> DEFINE Informed == [request : Request, id : ID \cup {NoID}, copy : Alarm \cup {NoAlarm}]
<1>1. op[h] # NoOp /\ Done(h) BY DEF Finish, Aggregates, Creates, Resolves
<1>2. op[h] \in Informed /\ op[h].request.node \in Node /\ op[h].request.type \in Type
  BY <1>1, InServiceType
<1>3. ms \in 0..MaxMs /\ alarms \in [ID -> Alarm \cup {NoAlarm}] BY DEF IInv, AlarmTypeOK
<1>4. CASE Aggregates(h)
  <2>1. op[h].id \in ID /\ op[h].id # NoID BY <1>2, <1>4 DEF Aggregates
  <2>2. op[h].copy \in Alarm /\ op[h].copy.node = op[h].request.node /\ op[h].id[2] = op[h].request.type
    BY <1>1, <2>1 DEF IInv, Remembers
  <2> DEFINE a == [op[h].copy EXCEPT !.count = Capped(@ + 1)]
  <2>3. Capped(op[h].copy.count + 1) \in 1..MaxCount
    <3>1. op[h].copy.count \in 1..MaxCount BY <2>2 DEF Alarm
    <3> QED BY <3>1, AlarmBoundsType DEF Capped
  <2>4. a \in Alarm /\ a.node = op[h].request.node BY <2>2, <2>3 DEF Alarm
  <2>5. alarms' = [alarms EXCEPT ![op[h].id] = a] /\ ms' = ms BY <1>4 DEF Aggregates
  <2>6. IInv' BY <1>1, <1>3, <2>4, <2>5, DoneType
  <2> QED BY <1>1, <2>1, <2>2, <2>4, <2>5, <2>6
<1>5. CASE Creates(h)
  <2> DEFINE a == [node |-> op[h].request.node, status |-> "active", count |-> 1]
             i == <<ms', op[h].request.type>>
  <2>1. ms' \in 1..MaxMs /\ op[h].id = NoID /\ alarms' = [alarms EXCEPT ![i] = a]
    BY <1>5 DEF Creates
  <2>2. i \in ID /\ i[2] = op[h].request.type BY <1>2, <2>1 DEF ID
  <2>3. a \in Alarm BY <1>2, AlarmBoundsType DEF Alarm
  <2>4. ms' \in 0..MaxMs BY <2>1, AlarmBoundsType
  <2>5. IInv' BY <1>1, <1>3, <2>1, <2>3, <2>4, DoneType
  <2> QED BY <1>1, <2>1, <2>2, <2>3, <2>5
<1>6. CASE Resolves(h)
  <2>1. CASE op[h].id = NoID
    <3>1. alarms' = alarms /\ ms' = ms BY <1>6, <2>1 DEF Resolves
    <3>2. IInv' BY <1>1, <1>3, <3>1, DoneType
    <3> DEFINE a == [node |-> op[h].request.node, status |-> "resolved", count |-> 1]
               i == <<1, op[h].request.type>>
    <3>3. a \in Alarm BY <1>2, AlarmBoundsType DEF Alarm
    <3>4. i \in ID BY <1>2, AlarmBoundsType DEF ID
    <3>5. a.status = "resolved" OBVIOUS
    <3> QED BY <1>1, <3>1, <3>2, <3>3, <3>4, <3>5
  <2>2. CASE op[h].id # NoID
    <3>1. op[h].id \in ID BY <1>2, <2>2
    <3>2. op[h].copy \in Alarm BY <1>1, <2>2 DEF IInv, Remembers
    <3> DEFINE a == [op[h].copy EXCEPT !.status = "resolved"]
    <3>3. a \in Alarm /\ a.status = "resolved" BY <3>2 DEF Alarm
    <3>4. alarms' = [alarms EXCEPT ![op[h].id] = a] /\ ms' = ms BY <1>6, <2>2 DEF Resolves
    <3>5. IInv' BY <1>1, <1>3, <3>3, <3>4, DoneType
    <3> QED BY <1>1, <3>1, <3>3, <3>4, <3>5
  <2> QED BY <2>1, <2>2
<1> QED BY <1>4, <1>5, <1>6 DEF Finish

\* The administrator changes alarms towards less, but for an acknowledgement.
LEMMA AdministrateType ==
    ASSUME IInv, Administrate
    PROVE  /\ IInv' /\ UNCHANGED op
           /\ NoAck' => NoAck
           /\ NoAck' /\ admin.does # "ack" =>
                 /\ admin'.does # "ack"
                 /\ \A i \in ID : alarms'[i] = alarms[i] \/ alarms'[i] = NoAlarm
                                     \/ alarms'[i].status = "resolved"
<1> USE DEF IInv, AlarmTypeOK, Locking, Remembers
<1> DEFINE Goal == /\ IInv' /\ UNCHANGED op
                   /\ NoAck' => NoAck
                   /\ NoAck' /\ admin.does # "ack" =>
                         /\ admin'.does # "ack"
                         /\ \A i \in ID : alarms'[i] = alarms[i] \/ alarms'[i] = NoAlarm
                                             \/ alarms'[i].status = "resolved"
<1>1. ASSUME NEW does, AdminStarts(does)
      PROVE  /\ adminOps' \in [AdminOp -> Nat] /\ (NoAck' => NoAck) /\ (does = "ack" => ~NoAck')
             /\ admin = NoAdmin /\ UNCHANGED <<env, inbox, ms, op>>
  BY <1>1 DEF AdminStarts, NoAck
<1>2. ASSUME NEW i \in ID, NEW does \in {"ack", "resolve"}, AdminReads(does, i) PROVE Goal
  <2>1. alarms[i] \in Alarm BY <1>2 DEF AdminReads, Stored
  <2>2. AdminStarts(does) /\ admin' = [does |-> does, id |-> i, copy |-> alarms[i]] /\ UNCHANGED <<alarms, mu>>
    BY <1>2 DEF AdminReads
  <2>3. mu # "admin" BY <1>1, <2>2 DEF NoAdmin
  <2>4. AlarmTypeOK' BY <1>1, <2>1, <2>2, <2>3 DEF env
  <2>5. Locking' /\ Remembers' BY <1>1, <2>2, <2>3
  <2> QED BY <1>1, <2>2, <2>4, <2>5
<1>3. ASSUME NEW i \in ID, DeleteAlarm(i) PROVE Goal
  <2>1. AdminStarts("delete") /\ alarms' = [alarms EXCEPT ![i] = NoAlarm] /\ UNCHANGED <<admin, mu>>
    BY <1>3 DEF DeleteAlarm
  <2>2. IInv' BY <1>1, <2>1 DEF env
  <2> QED BY <1>1, <2>1, <2>2
<1>4. CASE AdminSaves
  <2>1. admin \in [does : {"ack", "resolve"}, id : ID, copy : Alarm] BY <1>4 DEF AdminSaves, NoAdmin
  <2> DEFINE a == [admin.copy EXCEPT !.status = IF admin.does = "ack" THEN "acknowledged" ELSE "resolved"]
  <2>2. a \in Alarm /\ (admin.does # "ack" => a.status = "resolved") BY <2>1 DEF Alarm
  <2>3. alarms' = [alarms EXCEPT ![admin.id] = a] /\ admin' = NoAdmin
        /\ UNCHANGED <<env, inbox, ms, mu, op, adminOps>>
    BY <1>4 DEF AdminSaves
  <2>4. mu # "admin" /\ admin'.does # "ack" /\ admin'.does # "clear" BY <2>1, <2>3 DEF NoAdmin
  <2>5. AlarmTypeOK' BY <2>1, <2>2, <2>3, <2>4 DEF env
  <2>6. Locking' /\ Remembers' BY <2>3, <2>4
  <2> QED BY <2>1, <2>2, <2>3, <2>4, <2>5, <2>6 DEF NoAck
<1>5. CASE ClearLists
  <2>1. AdminStarts("clear") /\ mu = "free" /\ mu' = "admin" /\ UNCHANGED alarms
        /\ admin' = [does |-> "clear", ids |-> {i \in Stored : alarms[i].status = "resolved"}]
    BY <1>5 DEF ClearLists, Available
  <2>2. AlarmTypeOK' BY <1>1, <2>1, HandlerType DEF env, Stored
  <2>3. Locking' /\ Remembers' BY <1>1, <2>1, HandlerType
  <2> QED BY <1>1, <2>1, <2>2, <2>3
<1>6. CASE ClearDeletes
  <2>1. admin.does = "clear" /\ admin' = NoAdmin /\ mu' = "free"
        /\ alarms' = [i \in ID |-> IF i \in admin.ids THEN NoAlarm ELSE alarms[i]]
        /\ UNCHANGED <<env, inbox, ms, op, adminOps>>
    BY <1>6 DEF ClearDeletes
  <2>2. AlarmTypeOK' BY <2>1, HandlerType DEF env
  <2>3. Locking' /\ Remembers' BY <2>1, HandlerType DEF NoAdmin
  <2> QED BY <2>1, <2>2, <2>3 DEF NoAck, NoAdmin
<1> QED BY <1>2, <1>3, <1>4, <1>5, <1>6 DEF Administrate

LEMMA StepIInv == IInv /\ [AlarmNext]_alarmVars => IInv'
<1> SUFFICES ASSUME IInv, [AlarmNext]_alarmVars PROVE IInv' OBVIOUS
<1>1. CASE UNCHANGED alarmVars BY <1>1 DEF alarmVars, IInv, AlarmTypeOK, Locking, Remembers
<1>2. CASE AlarmNext
  BY <1>2, WorkersType, ServeType, FinishType, AdministrateType DEF AlarmNext
<1> QED BY <1>1, <1>2

\* Every state of the alarm center has its type: the center never stores or
\* remembers anything but alarms of a known condition, and one request at a
\* time holds the mutex.
THEOREM AlarmTypeCorrect == AlarmSpec => []AlarmTypeOK
<1>1. AlarmInit => IInv BY InitIInv DEF AInv
<1>2. IInv => AlarmTypeOK BY DEF IInv
<1> QED BY <1>1, <1>2, StepIInv, PTL DEF AlarmSpec

-----------------------------------------------------------------------------
(* One open alarm for a condition *)

\* The open alarms of a condition after one alarm was written.
LEMMA OpenAfterWrite ==
    ASSUME NEW i \in ID, NEW a \in Alarm, alarms \in [ID -> Alarm \cup {NoAlarm}],
           alarms' = alarms \/ alarms' = [alarms EXCEPT ![i] = a],
           NEW n \in Node, NEW t \in Type,
           NEW j \in Open(n, t)'
    PROVE  j \in Open(n, t) \/ (j = i /\ a.status # "resolved" /\ a.node = n /\ i[2] = t)
BY DEF Open, Stored

\* What is known of the open alarms stays known while only fewer are open.
LEMMA FewerStaySingle ==
    ASSUME IInv, Single, NoAck' => NoAck, NoAck' => admin'.does # "ack", op' = op,
           NoAck' => \A n \in Node, t \in Type : Open(n, t)' \subseteq Open(n, t)
    PROVE  Single'
<1> SUFFICES ASSUME NoAck' PROVE /\ \A n \in Node, t \in Type : \A i, j \in Open(n, t)' : i = j
                                 /\ \A h \in Handler : op[h] # NoOp =>
                                       \A i \in Open(op[h].request.node, op[h].request.type)' : i = op[h].id
  BY DEF Single
<1>1. \A n \in Node, t \in Type : Open(n, t)' \subseteq Open(n, t) OBVIOUS
<1>2. \A h \in Handler : op[h] # NoOp => op[h].request.node \in Node /\ op[h].request.type \in Type
  BY InServiceType
<1>3. \A n \in Node, t \in Type : \A i, j \in Open(n, t) : i = j BY DEF Single
<1>4. \A h \in Handler : op[h] # NoOp =>
         \A i \in Open(op[h].request.node, op[h].request.type) : i = op[h].id
  BY DEF Single
<1> QED BY <1>1, <1>2, <1>3, <1>4

LEMMA StepSingle == AInv /\ [AlarmNext]_alarmVars => Single'
<1> SUFFICES ASSUME IInv, Single, [AlarmNext]_alarmVars PROVE Single' BY DEF AInv
<1>1. CASE UNCHANGED <<alarms, op, admin, adminOps>>
  BY <1>1 DEF Single, NoAck, Open, Stored
<1>2. ASSUME NEW h \in Handler, NEW m \in inbox, Serve(h, m) PROVE Single'
  <2> DEFINE found == FindActiveAlarm(m.node, m.type)
  <2>1. m.node \in Node /\ m.type \in Type BY DEF IInv, AlarmTypeOK, Request
  <2>2. /\ op'[h].request = m /\ op'[h].id = found
        /\ \A g \in Handler : op[g] = NoOp
        /\ \A g \in Handler \ {h} : op'[g] = NoOp
    BY <1>2, HandlerType DEF Serve, Available, IInv, AlarmTypeOK, Locking
  <2>3. UNCHANGED <<alarms, admin, adminOps>> BY <1>2 DEF Serve
  <2>4. found \in Open(m.node, m.type) \/ Open(m.node, m.type) = {} BY <2>1, FoundType DEF IInv
  <2>5. \A n \in Node, t \in Type : Open(n, t)' = Open(n, t) BY <2>3 DEF Open, Stored
  <2>6. ASSUME NoAck'
        PROVE  /\ admin.does # "ack"
               /\ \A n \in Node, t \in Type : \A i, j \in Open(n, t) : i = j
    BY <2>3, <2>6 DEF Single, NoAck
  <2>7. ASSUME NoAck', NEW g \in Handler, op'[g] # NoOp,
               NEW i \in Open(op[g].request.node, op[g].request.type)'
        PROVE  i = op'[g].id
    <3>1. g = h BY <2>2, <2>7
    <3>2. i \in Open(m.node, m.type) BY <2>1, <2>2, <2>5, <2>7, <3>1
    <3> QED BY <2>1, <2>2, <2>4, <2>6, <2>7, <3>1, <3>2
  <2> QED BY <2>3, <2>5, <2>6, <2>7 DEF Single
<1>3. ASSUME NEW h \in Handler, Finish(h) PROVE Single'
  <2>1. op[h] # NoOp /\ Done(h) BY <1>3, FinishType
  <2>2. PICK i \in ID, a \in Alarm :
           /\ alarms' = alarms \/ alarms' = [alarms EXCEPT ![i] = a]
           /\ a.status # "resolved" =>
                 /\ a.node = op[h].request.node /\ i[2] = op[h].request.type
                 /\ op[h].id \in {i, NoID}
    BY <1>3, FinishType
  <2>3. UNCHANGED <<admin, adminOps>> BY <2>1 DEF Done
  <2>4. \A g \in Handler : op'[g] = NoOp
    BY <2>1, InServiceType, HandlerType DEF Done, IInv, AlarmTypeOK, Locking
  <2> SUFFICES ASSUME NoAck', NEW n \in Node, NEW t \in Type, NEW j \in Open(n, t)', NEW k \in Open(n, t)'
               PROVE  j = k /\ admin.does # "ack"
    <3>1. Node # {} /\ Type # {} BY <2>1, InServiceType
    <3>2. NoAck' => NoAck BY <2>3 DEF NoAck
    <3> QED BY <2>3, <2>4, <3>2 DEF Single
  <2>5. NoAck BY <2>3 DEF NoAck
  <2>6. alarms \in [ID -> Alarm \cup {NoAlarm}] BY DEF IInv, AlarmTypeOK
  <2>7. /\ j \in Open(n, t) \/ (j = i /\ a.status # "resolved" /\ a.node = n /\ i[2] = t)
        /\ k \in Open(n, t) \/ (k = i /\ a.status # "resolved" /\ a.node = n /\ i[2] = t)
    BY <2>2, <2>6, OpenAfterWrite
  <2>8. CASE j \in Open(n, t) /\ k \in Open(n, t) BY <2>5, <2>8 DEF Single
  <2>9. CASE a.status # "resolved" /\ a.node = n /\ i[2] = t
    <3>1. op[h].request.node = n /\ op[h].request.type = t /\ op[h].id \in {i, NoID} BY <2>2, <2>9
    <3>2. \A l \in Open(n, t) : l = op[h].id BY <2>1, <2>5, <3>1 DEF Single
    <3>3. Open(n, t) \subseteq ID BY DEF Open, Stored
    <3>4. \A l \in Open(n, t) : l = i BY <3>1, <3>2, <3>3, NothingIsSomething
    <3> QED BY <2>5, <2>7, <3>4 DEF Single
  <2> QED BY <2>5, <2>7, <2>8, <2>9 DEF Single
<1>4. CASE Administrate
  <2>1. /\ UNCHANGED op /\ (NoAck' => NoAck)
        /\ NoAck' => /\ admin'.does # "ack"
                      /\ \A i \in ID : alarms'[i] = alarms[i] \/ alarms'[i] = NoAlarm
                                          \/ alarms'[i].status = "resolved"
    BY <1>4, AdministrateType DEF Single
  <2>2. NoAck' => \A n \in Node, t \in Type : Open(n, t)' \subseteq Open(n, t)
    BY <2>1 DEF Open, Stored
  <2> QED BY <2>1, <2>2, FewerStaySingle
<1>5. CASE UNCHANGED alarmVars BY <1>1, <1>5 DEF alarmVars
<1>6. CASE AlarmNext
  BY <1>1, <1>2, <1>3, <1>4, <1>6, WorkersType DEF AlarmNext
<1> QED BY <1>5, <1>6

\* Reports of one condition are aggregated into one open alarm, for any number
\* of workers, requests served at once, lost or late requests and resolutions
\* by hand, as long as nothing is acknowledged: the mutex is held from the
\* look-up to the save, and whatever else writes the bucket only resolves or
\* deletes.
THEOREM OneAlarm == AlarmSpec => []OneOpenAlarm
<1>1. AInv /\ [AlarmNext]_alarmVars => AInv' BY StepIInv, StepSingle DEF AInv
<1>2. AInv => OneOpenAlarm
  <2> SUFFICES ASSUME AInv, NoAck, NEW n \in Node, NEW t \in Type PROVE Cardinality(Open(n, t)) <= 1
    BY DEF OneOpenAlarm, NoAck
  <2>1. \A i, j \in Open(n, t) : i = j BY DEF AInv, Single
  <2>2. CASE Open(n, t) = {} BY <2>2, FS_EmptySet
  <2>3. CASE Open(n, t) # {}
    <3>1. PICK i : Open(n, t) = {i} BY <2>1, <2>3
    <3>2. Cardinality({i}) = 1 BY FS_Singleton
    <3> QED BY <3>1, <3>2
  <2> QED BY <2>2, <2>3
<1> QED BY <1>1, <1>2, InitIInv, PTL DEF AlarmSpec

-----------------------------------------------------------------------------
(* A resolved alarm stays resolved *)

\* Only an open alarm is found, and a request in service writes only the alarm
\* it found or one of the current millisecond.
LEMMA RequestsKeepOver ==
    ASSUME IInv, NEW i \in ID, Over(i), NEW h \in Handler,
           Finish(h) \/ \E m \in inbox : Serve(h, m)
    PROVE  Over(i)'
<1> USE DEF Over
<1>1. ASSUME NEW m \in inbox, Serve(h, m) PROVE Over(i)'
  <2> DEFINE found == FindActiveAlarm(m.node, m.type)
  <2>1. m.node \in Node /\ m.type \in Type BY DEF IInv, AlarmTypeOK, Request
  <2>2. found = NoID \/ (alarms[found] \in Alarm /\ alarms[found].status # "resolved")
    BY <2>1, FoundType DEF Open, Stored, IInv, AlarmTypeOK
  <2>3. found # i BY <2>2, NothingIsSomething DEF Alarm
  <2>4. op'[h].id = found /\ \A g \in Handler \ {h} : op'[g] = op[g]
    BY <1>1 DEF Serve, IInv, AlarmTypeOK
  <2>5. UNCHANGED <<alarms, ms, admin>> BY <1>1 DEF Serve
  <2> QED BY <2>3, <2>4, <2>5
<1>2. ASSUME Finish(h) PROVE Over(i)'
  <2>1. op[h] # NoOp /\ Done(h) BY <1>2 DEF Finish, Aggregates, Creates, Resolves
  <2>2. admin' = admin /\ \A g \in Handler : op'[g] \in {op[g], NoOp}
    BY <2>1 DEF Done, IInv, AlarmTypeOK
  <2>3. ms \in Nat /\ alarms \in [ID -> Alarm \cup {NoAlarm}] /\ i[1] \in Nat
    BY DEF IInv, AlarmTypeOK, ID
  <2>4. alarms'[i] = alarms[i] /\ i[1] < ms'
    <3>1. CASE Aggregates(h) \/ Resolves(h) BY <2>1, <2>3, <3>1 DEF Aggregates, Resolves
    <3>2. CASE Creates(h)
      <4> DEFINE new == <<ms', op[h].request.type>>
      <4>1. ms' \in {ms, ms + 1} BY <3>2 DEF Creates
      <4>2. i[1] < ms' BY <2>3, <4>1
      <4>3. new # i BY <2>3, <4>1, <4>2
      <4> QED BY <2>3, <3>2, <4>2, <4>3 DEF Creates
    <3> QED BY <1>2, <3>1, <3>2 DEF Finish
  <2> QED BY <2>2, <2>4
<1> QED BY <1>1, <1>2

\* The administrator acknowledges no alarm he sees resolved, and otherwise only
\* resolves and deletes.
LEMMA AdministratorKeepsOver ==
    ASSUME IInv, NEW i \in ID, Over(i), Administrate
    PROVE  Over(i)'
<1> USE DEF Over
<1>0. /\ alarms \in [ID -> Alarm \cup {NoAlarm}]
      /\ \/ admin = NoAdmin
         \/ admin \in [does : {"ack", "resolve"}, id : ID, copy : Alarm]
         \/ admin \in [does : {"clear"}, ids : SUBSET ID]
  BY DEF IInv, AlarmTypeOK
<1>1. ASSUME NEW j \in ID, NEW does \in {"ack", "resolve"}, AdminReads(does, j) PROVE Over(i)'
  <2>1. /\ admin' = [does |-> does, id |-> j, copy |-> alarms[j]] /\ UNCHANGED <<alarms, ms, op>>
        /\ alarms[j] \in Alarm /\ (does = "ack" => alarms[j].status # "resolved")
    BY <1>0, <1>1 DEF AdminReads, AdminStarts, MayAcknowledge, Stored
  <2>2. does = "ack" => i # j BY <2>1 DEF Alarm
  <2> QED BY <2>1, <2>2
<1>2. ASSUME NEW j \in ID, DeleteAlarm(j) PROVE Over(i)'
  BY <1>0, <1>2 DEF DeleteAlarm, AdminStarts, NoAlarm
<1>3. CASE AdminSaves
  <2>1. admin \in [does : {"ack", "resolve"}, id : ID, copy : Alarm] BY <1>0, <1>3 DEF AdminSaves, NoAdmin
  <2> DEFINE a == [admin.copy EXCEPT !.status = IF admin.does = "ack" THEN "acknowledged" ELSE "resolved"]
  <2>2. alarms' = [alarms EXCEPT ![admin.id] = a] /\ admin' = NoAdmin /\ UNCHANGED <<ms, op>>
    BY <1>3 DEF AdminSaves
  <2>3. admin.does = "resolve" => a.status = "resolved" BY <2>1 DEF Alarm
  <2>4. alarms'[i].status \in {"resolved", "none"} BY <1>0, <2>1, <2>2, <2>3
  <2> QED BY <2>2, <2>4 DEF NoAdmin
<1>4. CASE ClearLists BY <1>4 DEF ClearLists, AdminStarts
<1>5. CASE ClearDeletes
  <2>1. alarms'[i] \in {alarms[i], NoAlarm} /\ admin' = NoAdmin /\ UNCHANGED <<ms, op>>
    BY <1>5 DEF ClearDeletes
  <2> QED BY <2>1 DEF NoAdmin, NoAlarm
<1> QED BY <1>1, <1>2, <1>3, <1>4, <1>5 DEF Administrate

\* An alarm that is resolved or cleared, that nobody holds an older copy of and
\* whose millisecond is over, is not opened again, for any number of workers,
\* requests served at once, late reports and operations of the administrator.
THEOREM ResolvedStays == AlarmSpec => ResolvedStaysResolved
<1>1. ASSUME IInv, [AlarmNext]_alarmVars, NEW i \in ID, Over(i) PROVE Over(i)'
  <2>1. CASE UNCHANGED <<alarms, ms, op, admin>> BY <1>1, <2>1 DEF Over
  <2>2. CASE UNCHANGED alarmVars BY <2>1, <2>2 DEF alarmVars
  <2>3. CASE AlarmNext
    BY <1>1, <2>1, <2>3, WorkersType, RequestsKeepOver, AdministratorKeepsOver DEF AlarmNext
  <2> QED BY <1>1, <2>2, <2>3
<1>2. IInv /\ [AlarmNext]_alarmVars => [\A i \in ID : Over(i) => Over(i)']_alarmVars BY <1>1
<1>3. AlarmInit => IInv BY InitIInv DEF AInv
<1> QED BY <1>2, <1>3, StepIInv, PTL DEF AlarmSpec, ResolvedStaysResolved
-----------------------------------------------------------------------------
(* Archives: type correctness *)

\* What the goroutine does next is of its type.
LEMMA FailedType ==
    ASSUME NEW j \in Job
    PROVE  /\ AfterCall(j) \in Job /\ AfterCall(j).at \in {"diagnose", "done"}
           /\ Failed(j) \in Job
           /\ AfterCall(j).status = j.status /\ AfterCall(j).report = j.report
           /\ Failed(j).status = j.status /\ Failed(j).report = j.report
           /\ (Failed(j).at # "extract" \/ j.at = "extract")
           /\ LET again == [Failed(j) EXCEPT !.at = IF @ = "wait" THEN "call" ELSE @]
              IN  /\ again \in Job
                  /\ again.at # "extract" \/ j.at = "extract"
                  /\ again.status = j.status /\ again.report = j.report
<1>1. AfterCall(j) \in Job /\ AfterCall(j).at \in {"diagnose", "done"}
      /\ AfterCall(j).status = j.status /\ AfterCall(j).report = j.report
  <2> DEFINE next == IF j.status = "ready" /\ ~j.report THEN "diagnose" ELSE "done"
  <2>1. next \in {"diagnose", "done"} OBVIOUS
  <2>2. AfterCall(j) = [j EXCEPT !.at = next, !.attempt = 0] BY DEF AfterCall
  <2>3. 0 \in 0..MaxAttempts BY AttemptsType
  <2> HIDE DEF next
  <2> QED BY <2>1, <2>2, <2>3 DEF Job
<1>2. CASE j.attempt + 1 < MaxAttempts
  <2>1. Failed(j) = [j EXCEPT !.attempt = @ + 1]
    BY <1>2 DEF Failed
  <2>2. j.attempt + 1 \in 0..MaxAttempts
    BY <1>2, AttemptsType DEF Job
  <2> QED BY <1>1, <2>1, <2>2 DEF Job
<1>3. CASE ~(j.attempt + 1 < MaxAttempts)
  <2>1. Failed(j) = AfterCall(j)
    BY <1>3 DEF Failed
  <2> QED BY <1>1, <2>1 DEF Job
<1> QED BY <1>2, <1>3

LEMMA UploadType ==
    ASSUME TypeOK, UploadForwards \/ UploadSaves \/ JobExtracts \/ JobDiagnoses
    PROVE  TypeOK'
<1> USE DEF TypeOK, used
<1>1. CASE UploadForwards BY <1>1, AttemptsType DEF UploadForwards, Job
<1>2. CASE UploadSaves BY <1>2 DEF UploadSaves, Record, Status
<1>3. CASE JobExtracts
  <2>1. job \in Job BY <1>3 DEF JobExtracts, Idle
  <2>2. job' \in Job BY <1>3, <2>1 DEF JobExtracts, Job
  <2> QED BY <1>3, <2>2 DEF JobExtracts
<1>4. CASE JobDiagnoses
  <2>1. job \in Job BY <1>4 DEF JobDiagnoses, Idle
  <2>2. job' \in Job BY <1>4, <2>1 DEF JobDiagnoses, Job
  <2> QED BY <1>4, <2>2 DEF JobDiagnoses
<1> QED BY <1>1, <1>2, <1>3, <1>4

LEMMA CallbackType ==
    ASSUME TypeOK, Callback \/ CallbackLost
    PROVE  TypeOK'
<1> USE DEF TypeOK
<1>1. job.at # "idle" => job \in Job
  BY DEF Idle
<1>2. CASE CallbackReads
  <2>1. job \in Job /\ archive \in Record
    BY <1>1, <1>2 DEF CallbackReads, Known, Job
  <2>2. callback' \in [at : {"save", "report"}, copy : Record, report : BOOLEAN]
    BY <1>2, <2>1 DEF CallbackReads, Known, Reported, Record, Status, Job
  <2> QED BY <1>2, <2>1, <2>2 DEF CallbackReads, Job, used
<1>3. CASE CallbackUnknown
  <2>1. job \in Job BY <1>1, <1>3 DEF CallbackUnknown
  <2>2. Failed(job) \in Job BY <2>1, FailedType
  <2> QED BY <1>3, <2>2 DEF CallbackUnknown, used
<1>4. CASE CallbackSaves
  BY <1>4 DEF CallbackSaves, Idle, used
<1>5. CASE CallbackReports
  <2>1. job' \in Job \cup {Idle}
    BY <1>1, <1>5, FailedType DEF CallbackReports
  <2> QED BY <1>5, <2>1 DEF CallbackReports, Idle, used
<1>6. CASE CallbackLost
  <2>1. job \in Job BY <1>1, <1>6 DEF CallbackLost
  <2>2. job' \in Job BY <1>6, <2>1, FailedType DEF CallbackLost
  <2>3. faults' \in [Fault -> Nat] BY <1>6 DEF CallbackLost, Fails, Fault
  <2> QED BY <1>6, <2>1, <2>2, <2>3 DEF CallbackLost, Fails
<1> QED BY <1>2, <1>3, <1>4, <1>5, <1>6 DEF Callback

LEMMA DispatchType ==
    ASSUME TypeOK, Retry \/ DispatchAnalyzeTask
    PROVE  TypeOK'
<1> USE DEF TypeOK, used
<1>1. CASE Retry
  BY <1>1 DEF Retry, Uses, Operation, Record, Status
<1>2. ASSUME NEW from, NEW status \in Status, DispatchSaves(from, "idle", status),
             from # "idle"
      PROVE  TypeOK'
  BY <1>2 DEF DispatchSaves, Record, Status, Idle
<1>3. ASSUME NEW from, NEW to, to # "idle", to \in {"start", "remote", "local", "diagnose"},
             NEW status \in Status, DispatchSaves(from, to, status), from # "idle"
      PROVE  TypeOK'
  BY <1>3 DEF DispatchSaves, Record, Status, Idle
<1>4. ASSUME NEW from, DispatchReports(from, "finish"), from # "idle"
      PROVE  TypeOK'
  BY <1>4 DEF DispatchReports, Idle
<1>5. CASE DispatchFallsBack
  BY <1>5 DEF DispatchFallsBack, Idle
<1> QED
  <2>1. Status = {"extracting", "analyzing", "ready", "failed"} BY DEF Status
  <2>2. CASE DispatchAnalyzeTask
    <3>1. CASE DispatchSaves("mark", "start", "extracting") BY <3>1, <2>1, <1>3
    <3>2. CASE DispatchSaves("start", "remote", "extracting") BY <3>2, <2>1, <1>3
    <3>3. CASE DispatchSaves("start", "local", "extracting") BY <3>3, <2>1, <1>3
    <3>4. CASE DispatchSaves("local", "diagnose", "analyzing") BY <3>4, <2>1, <1>3
    <3>5. CASE DispatchSaves("local", "idle", "failed") BY <3>5, <2>1, <1>2
    <3>6. CASE DispatchSaves("diagnose", "idle", "failed") BY <3>6, <2>1, <1>2
    <3>7. CASE DispatchSaves("finish", "idle", "ready") BY <3>7, <2>1, <1>2
    <3>8. CASE DispatchReports("remote", "finish") \/ DispatchReports("diagnose", "finish") BY <3>8, <1>4
    <3> QED BY <2>2, <1>5, <3>1, <3>2, <3>3, <3>4, <3>5, <3>6, <3>7, <3>8 DEF DispatchAnalyzeTask
  <2> QED BY <1>1, <2>2

LEMMA OperationType ==
    ASSUME TypeOK, \/ \E p \in BOOLEAN : SetArchivePinned(p)
                   \/ EditReads \/ EditSaves
                   \/ \E by \in {"delete", "retain"} : DeleteStarts(by)
                   \/ Delete
    PROVE  TypeOK'
<1> USE DEF TypeOK, used
<1>1. ASSUME NEW p \in BOOLEAN, SetArchivePinned(p) PROVE TypeOK'
  BY <1>1 DEF SetArchivePinned, Uses, Operation, Record
<1>2. CASE EditReads BY <1>2 DEF EditReads, Uses, Operation
<1>3. CASE EditSaves BY <1>3 DEF EditSaves
<1>4. ASSUME NEW by \in {"delete", "retain"}, DeleteStarts(by) PROVE TypeOK'
  BY <1>4 DEF DeleteStarts, Uses, Operation
<1>5. CASE Delete BY <1>5 DEF Delete, DeleteCleans, DeleteReport, DeleteRecord
<1> QED BY <1>1, <1>2, <1>3, <1>4, <1>5

LEMMA FaultType ==
    ASSUME TypeOK, WorkerCrashes \/ WorkerRestarts \/ ManagerRestarts
    PROVE  TypeOK'
<1> USE DEF TypeOK, used
<1>1. CASE WorkerCrashes
  <2>1. job' \in Job \cup {Idle} BY <1>1 DEF WorkerCrashes, Job
  <2>2. faults' \in [Fault -> Nat] BY <1>1 DEF WorkerCrashes, Fails, Fault
  <2>3. /\ archive' = archive /\ report' = report /\ upload' = upload
        /\ callback' = callback /\ dispatch' = dispatch /\ edit' = edit
        /\ deletion' = deletion /\ disk' = disk /\ workerUp' = FALSE
        /\ operations' = operations
    BY <1>1 DEF WorkerCrashes, Fails
  <2>4. /\ archive' \in Record \cup {NoArchive}
        /\ callback' \in [at : {"save", "report"}, copy : Record, report : BOOLEAN] \cup {Idle}
    BY <2>3
  <2>5. /\ dispatch' \in [at : {"mark", "start", "remote", "remoteReport", "local", "diagnose", "report", "finish"},
                          copy : Record] \cup {Idle}
        /\ edit' \in [at : {"save"}, copy : Record] \cup {Idle}
    BY <2>3
  <2>6. /\ report' \in BOOLEAN /\ workerUp' \in BOOLEAN
        /\ upload' \in {"none", "forwarded", "done"} /\ deletion' \in {"none", "clean", "report", "record"}
        /\ disk' \subseteq {"file", "extracted"} /\ operations' \in [Operation -> Nat]
    BY <2>3
  <2> QED BY <2>1, <2>2, <2>4, <2>5, <2>6, Zenon
<1>2. CASE WorkerRestarts BY <1>2 DEF WorkerRestarts
<1>3. CASE ManagerRestarts
  <2>1. ASSUME job.at = "wait" PROVE job' \in Job
    <3>1. job \in Job BY <2>1 DEF Idle
    <3>2. job' \in Job BY <1>3, <2>1, <3>1, FailedType DEF ManagerRestarts
    <3> QED BY <3>2
  <2>2. job.at # "wait" => job' = job BY <1>3 DEF ManagerRestarts
  <2>3. job' \in Job \cup {Idle} BY <2>1, <2>2
  <2>4. faults' \in [Fault -> Nat] BY <1>3 DEF ManagerRestarts, Fails, Fault
  <2>5. /\ callback' = Idle /\ dispatch' = Idle /\ edit' = Idle /\ deletion' = "none"
        /\ upload' \in {"none", "forwarded", "done"}
        /\ archive' = archive /\ report' = report /\ disk' = disk
        /\ workerUp' = workerUp /\ operations' = operations
    BY <1>3 DEF ManagerRestarts, Fails
  <2> QED BY <2>3, <2>4, <2>5
<1> QED BY <1>1, <1>2, <1>3

LEMMA StepType == TypeOK /\ [Next]_vars => TypeOK'
<1> SUFFICES ASSUME TypeOK, [Next]_vars PROVE TypeOK'
  OBVIOUS
<1>1. CASE UNCHANGED vars BY <1>1 DEF vars, used, TypeOK
<1> QED
  BY <1>1, UploadType, CallbackType, DispatchType, OperationType, FaultType DEF Next

(* Every variable keeps its range, whatever copies are written back and      *)
(* however many attempts, faults and operations there are.                   *)
THEOREM TypeCorrect == Spec => []TypeOK
<1>1. Init => TypeOK
  <2> SUFFICES ASSUME Init PROVE TypeOK OBVIOUS
  <2>1. faults \in [Fault -> Nat] /\ operations \in [Operation -> Nat] BY DEF Init
  <2>2. archive = NoArchive /\ job = Idle /\ callback = Idle /\ dispatch = Idle /\ edit = Idle BY DEF Init
  <2>3. report \in BOOLEAN /\ workerUp \in BOOLEAN /\ disk \subseteq {"file", "extracted"} BY DEF Init
  <2>4. upload \in {"none", "forwarded", "done"} /\ deletion \in {"none", "clean", "report", "record"} BY DEF Init
  <2> QED BY <2>1, <2>2, <2>3, <2>4 DEF TypeOK
<1> QED BY <1>1, StepType, PTL DEF Spec

-----------------------------------------------------------------------------
(* Archives: what the store says is what the worker found *)

\* Before the upload handler has saved the record there is nothing to copy, and
\* a callback brings an outcome.
Unsaved ==
    /\ upload = "none" => job = Idle
    /\ callback # Idle => callback.copy.status \in {"ready", "failed"}
    /\ upload # "done" => archive = NoArchive /\ callback = Idle /\ dispatch = Idle /\ edit = Idle

\* The job has come to the outcome that a copy of the record tells.
Founded(record) ==
    record.status \in {"ready", "failed"} =>
        job # Idle /\ job.at # "extract" /\ job.status = record.status

\* Every copy of the record is founded, and with it what any step saves.
CopiesFounded ==
    operations["retry"] = 0 =>
        /\ dispatch = Idle
        /\ Founded(archive)
        /\ edit # Idle => Founded(edit.copy)
        /\ callback # Idle =>
              /\ job # Idle /\ job.at # "extract"
              /\ callback.copy.status = job.status
              /\ callback.report => job.report
        /\ report => job # Idle /\ job.report

LEMMA UnsavedStep == TypeOK /\ Unsaved /\ [Next]_vars => Unsaved'
<1> SUFFICES ASSUME TypeOK, Unsaved, [Next]_vars PROVE Unsaved'
  OBVIOUS
<1> USE DEF Unsaved
<1>1. CASE UploadForwards BY <1>1 DEF UploadForwards
<1>2. CASE UploadSaves BY <1>2 DEF UploadSaves
<1>3. CASE JobExtracts \/ JobDiagnoses BY <1>3 DEF JobExtracts, JobDiagnoses, Idle
<1>4. CASE CallbackReads
  <2>1. job \in Job /\ archive \in Record BY <1>4 DEF CallbackReads, Known, TypeOK, Idle
  <2>2. callback'.copy.status = job.status BY <1>4, <2>1 DEF CallbackReads, Known, Reported, Record
  <2> QED BY <1>4, <2>1, <2>2 DEF CallbackReads, Known, Job, Idle
<1>5. CASE CallbackUnknown \/ CallbackLost BY <1>5 DEF CallbackUnknown, CallbackLost, Idle
<1>6. CASE CallbackSaves
  <2>1. callback \in [at : {"save", "report"}, copy : Record, report : BOOLEAN]
    BY <1>6 DEF CallbackSaves, TypeOK, Idle
  <2>2. callback'.copy = callback.copy BY <1>6, <2>1 DEF CallbackSaves
  <2> QED BY <1>6, <2>1, <2>2 DEF CallbackSaves, Idle
<1>7. CASE CallbackReports BY <1>7 DEF CallbackReports, Idle
<1>8. CASE Retry BY <1>8 DEF Retry
<1>9. CASE DispatchAnalyzeTask
  <2>1. dispatch # Idle /\ UNCHANGED <<upload, job, callback>>
    BY <1>9 DEF DispatchAnalyzeTask, DispatchSaves, DispatchReports, DispatchFallsBack, Idle
  <2> QED BY <2>1
<1>10. CASE \E p \in BOOLEAN : SetArchivePinned(p) BY <1>10 DEF SetArchivePinned
<1>11. CASE EditReads \/ EditSaves BY <1>11 DEF EditReads, EditSaves
<1>12. CASE \E by \in {"delete", "retain"} : DeleteStarts(by) BY <1>12 DEF DeleteStarts
<1>13. CASE Delete BY <1>13 DEF Delete, DeleteCleans, DeleteReport, DeleteRecord
<1>14. CASE WorkerCrashes \/ WorkerRestarts BY <1>14 DEF WorkerCrashes, WorkerRestarts
<1>15. CASE ManagerRestarts BY <1>15 DEF ManagerRestarts, TypeOK, Idle
<1>16. CASE UNCHANGED vars BY <1>16 DEF vars
<1> QED
  BY <1>1, <1>2, <1>3, <1>4, <1>5, <1>6, <1>7, <1>8, <1>9, <1>10, <1>11, <1>12, <1>13, <1>14,
     <1>15, <1>16 DEF Next, Callback

LEMMA CopiesFoundedStep == TypeOK /\ Unsaved /\ CopiesFounded /\ [Next]_vars => CopiesFounded'
<1> SUFFICES ASSUME TypeOK, Unsaved, CopiesFounded, [Next]_vars, operations'["retry"] = 0
             PROVE  CopiesFounded'
  BY DEF CopiesFounded
<1> USE DEF Founded, used
<1>1. CASE UploadForwards BY <1>1 DEF UploadForwards, CopiesFounded, Unsaved, Idle
<1>2. CASE UploadSaves BY <1>2 DEF UploadSaves, CopiesFounded
<1>3. CASE JobExtracts BY <1>3 DEF JobExtracts, CopiesFounded, TypeOK, Job, Idle
<1>4. CASE JobDiagnoses BY <1>4 DEF JobDiagnoses, CopiesFounded, TypeOK, Job, Idle
<1>5. CASE CallbackReads
  <2>1. job \in Job BY <1>5 DEF CallbackReads, TypeOK, Idle
  <2>2. archive \in Record BY <1>5 DEF CallbackReads, Known, TypeOK
  <2>3. /\ job' = [job EXCEPT !.at = "wait"]
        /\ callback' = [at |-> "save", copy |-> [archive EXCEPT !.status = job.status], report |-> job.report]
    BY <1>5 DEF CallbackReads, Known, Reported
  <2>4. /\ job' # Idle /\ job'.at = "wait" /\ job'.status = job.status /\ job'.report = job.report
        /\ callback'.copy.status = job.status /\ callback'.report = job.report
    BY <2>1, <2>2, <2>3 DEF Job, Record, Idle
  <2> QED BY <1>5, <2>4 DEF CallbackReads, CopiesFounded
<1>6. CASE CallbackUnknown \/ CallbackLost
  <2>1. job \in Job /\ job.at \in {"call", "wait"}
    BY <1>6 DEF CallbackUnknown, CallbackLost, TypeOK, Idle
  <2>2. job' \in Job /\ job'.at # "extract" /\ job'.status = job.status /\ job'.report = job.report
    <3>1. CASE CallbackUnknown BY <2>1, <3>1, FailedType DEF CallbackUnknown
    <3>2. CASE CallbackLost BY <2>1, <3>2, FailedType DEF CallbackLost
    <3> QED BY <1>6, <3>1, <3>2
  <2>3. UNCHANGED <<archive, report, callback, dispatch, edit>> /\ operations' = operations
    BY <1>6 DEF CallbackUnknown, CallbackLost, Fails
  <2>4. job' # Idle BY <2>2 DEF Job, Idle
  <2> QED BY <2>1, <2>2, <2>3, <2>4 DEF CopiesFounded, Idle
<1>7. CASE CallbackSaves
  <2>1. callback \in [at : {"save", "report"}, copy : Record, report : BOOLEAN]
    BY <1>7 DEF CallbackSaves, TypeOK, Idle
  <2>2. callback' # Idle /\ callback'.copy = callback.copy /\ callback'.report = callback.report
    BY <1>7, <2>1 DEF CallbackSaves, Idle
  <2> QED BY <1>7, <2>1, <2>2 DEF CallbackSaves, CopiesFounded, Idle
<1>8. CASE CallbackReports
  <2>1. callback # Idle /\ job # Idle /\ job \in Job /\ job.at # "extract" /\ (callback.report => job.report)
    BY <1>8 DEF CallbackReports, CopiesFounded, TypeOK, Idle
  <2>2. job' \in Job /\ job'.at # "extract" /\ job'.status = job.status /\ job'.report = job.report
    BY <1>8, <2>1, FailedType DEF CallbackReports
  <2>3. job' # Idle BY <2>2 DEF Job, Idle
  <2> QED BY <1>8, <2>1, <2>2, <2>3 DEF CallbackReports, CopiesFounded
<1>9. CASE Retry
  BY <1>9 DEF Retry, Uses, TypeOK, Operation
<1>10. CASE DispatchAnalyzeTask
  <2>1. dispatch # Idle /\ operations' = operations
    BY <1>10 DEF DispatchAnalyzeTask, DispatchSaves, DispatchReports, DispatchFallsBack, Idle
  <2> QED BY <2>1 DEF CopiesFounded
<1>11. ASSUME NEW p \in BOOLEAN, SetArchivePinned(p) PROVE CopiesFounded'
  <2>1. operations["retry"] = 0 BY <1>11 DEF SetArchivePinned, Uses, TypeOK, Operation
  <2>2. archive'.status = archive.status BY <1>11 DEF SetArchivePinned, TypeOK, Record
  <2> QED BY <1>11, <2>1, <2>2 DEF SetArchivePinned, CopiesFounded
<1>12. CASE EditReads
  <2>1. operations["retry"] = 0 BY <1>12 DEF EditReads, Uses, TypeOK, Operation
  <2> QED BY <1>12, <2>1 DEF EditReads, CopiesFounded
<1>13. CASE EditSaves BY <1>13 DEF EditSaves, CopiesFounded
<1>14. ASSUME NEW by \in {"delete", "retain"}, DeleteStarts(by) PROVE CopiesFounded'
  <2>1. operations["retry"] = 0 BY <1>14 DEF DeleteStarts, Uses, TypeOK, Operation
  <2> QED BY <1>14, <2>1 DEF DeleteStarts, CopiesFounded
<1>15. CASE Delete
  BY <1>15 DEF Delete, DeleteCleans, DeleteReport, DeleteRecord, CopiesFounded, NoArchive
<1>16. CASE WorkerCrashes
  BY <1>16 DEF WorkerCrashes, Fails, CopiesFounded, TypeOK, Job, Idle
<1>17. CASE WorkerRestarts BY <1>17 DEF WorkerRestarts, CopiesFounded
<1>18. CASE ManagerRestarts
  <2>1. CASE job.at = "wait"
    <3>1. job \in Job BY <2>1 DEF TypeOK, Idle
    <3>2. job' # Idle /\ job'.at # "extract" /\ job'.status = job.status /\ job'.report = job.report
      BY <1>18, <2>1, <3>1, FailedType DEF ManagerRestarts, Job, Idle
    <3> QED BY <1>18, <3>2 DEF ManagerRestarts, Fails, CopiesFounded
  <2>2. CASE job.at # "wait"
    BY <1>18, <2>2 DEF ManagerRestarts, Fails, CopiesFounded
  <2> QED BY <2>1, <2>2
<1>19. CASE UNCHANGED vars BY <1>19 DEF vars, CopiesFounded
<1> QED
  BY <1>1, <1>2, <1>3, <1>4, <1>5, <1>6, <1>7, <1>8, <1>9, <1>10, <1>11, <1>12, <1>13, <1>14,
     <1>15, <1>16, <1>17, <1>18, <1>19 DEF Next, Callback

LEMMA FoundedAlways == Spec => [](TypeOK /\ Unsaved /\ CopiesFounded)
<1>1. Init => Unsaved /\ CopiesFounded
  BY DEF Init, Unsaved, CopiesFounded, Founded, NoArchive
<1> QED BY <1>1, TypeCorrect, UnsavedStep, CopiesFoundedStep, PTL DEF Spec

(* Until a retry, the store never says more than the worker found, whatever  *)
(* copies are written back, lost or late, and whoever crashes.               *)
THEOREM OutcomeFounded == Spec => []OutcomeIsTheWorkers
<1>1. CopiesFounded => OutcomeIsTheWorkers
  BY DEF CopiesFounded, Founded, OutcomeIsTheWorkers
<1> QED BY <1>1, FoundedAlways, PTL

-----------------------------------------------------------------------------
(* What is over stays over *)

\* The record is deleted and nobody holds a copy of it.
Gone == upload = "done" /\ archive = NoArchive /\ callback = Idle /\ dispatch = Idle /\ edit = Idle

(* A deleted archive of which nobody holds a copy never comes back, for any  *)
(* number of attempts, faults and operations.                                *)
THEOREM DeletedForGood == Spec => DeletedStaysDeleted
<1>1. Gone /\ [Next]_vars => Gone'
  <2> SUFFICES ASSUME Gone, [Next]_vars PROVE Gone'
    OBVIOUS
  <2> USE DEF Gone
  <2>1. CASE UploadForwards \/ UploadSaves BY <2>1 DEF UploadForwards, UploadSaves
  <2>2. CASE JobExtracts \/ JobDiagnoses BY <2>2 DEF JobExtracts, JobDiagnoses
  <2>3. CASE Callback
    BY <2>3 DEF Callback, CallbackReads, CallbackUnknown, CallbackSaves, CallbackReports, Known, Idle
  <2>4. CASE CallbackLost BY <2>4 DEF CallbackLost
  <2>5. CASE Retry BY <2>5 DEF Retry
  <2>6. CASE DispatchAnalyzeTask
    BY <2>6 DEF DispatchAnalyzeTask, DispatchSaves, DispatchReports, DispatchFallsBack, Idle
  <2>7. CASE \E p \in BOOLEAN : SetArchivePinned(p) BY <2>7 DEF SetArchivePinned
  <2>8. CASE EditReads \/ EditSaves BY <2>8 DEF EditReads, EditSaves
  <2>9. CASE \E by \in {"delete", "retain"} : DeleteStarts(by) BY <2>9 DEF DeleteStarts
  <2>10. CASE Delete BY <2>10 DEF Delete, DeleteCleans, DeleteReport, DeleteRecord
  <2>11. CASE WorkerCrashes \/ WorkerRestarts BY <2>11 DEF WorkerCrashes, WorkerRestarts
  <2>12. CASE ManagerRestarts BY <2>12 DEF ManagerRestarts
  <2>13. CASE UNCHANGED vars BY <2>13 DEF vars
  <2> QED
    BY <2>1, <2>2, <2>3, <2>4, <2>5, <2>6, <2>7, <2>8, <2>9, <2>10, <2>11, <2>12, <2>13 DEF Next
<1>2. Gone => archive = NoArchive
  BY DEF Gone
<1>3. (upload = "done" /\ archive = NoArchive /\ callback = Idle /\ dispatch = Idle /\ edit = Idle) => Gone
  BY DEF Gone
<1> QED BY <1>1, <1>2, <1>3, PTL DEF Spec, DeletedStaysDeleted

(* Only a retry, or an edit begun before, puts an archive that was ready      *)
(* back into extraction: no callback, upload or deletion does.                *)
THEOREM ReadyFinal == Spec => ReadyIsFinal
<1>1. TypeOK /\ Unsaved /\ [Next]_vars
        => [archive.status = "ready" /\ archive'.status = "extracting" => dispatch # Idle \/ EditSaves]_vars
  <2> SUFFICES ASSUME TypeOK, Unsaved, Next, archive.status = "ready", archive'.status = "extracting",
                      ~EditSaves
               PROVE  dispatch # Idle
    OBVIOUS
  <2>1. ~UploadSaves BY DEF UploadSaves, Unsaved, NoArchive
  <2>2. archive' # archive OBVIOUS
  <2>3. ~CallbackSaves
    BY DEF CallbackSaves, Unsaved, Idle
  <2>4. \A p \in BOOLEAN : ~SetArchivePinned(p)
    BY DEF SetArchivePinned, TypeOK, Record
  <2>5. ~Delete
    BY <2>2 DEF Delete, DeleteCleans, DeleteReport, DeleteRecord, NoArchive
  <2>6. CASE DispatchAnalyzeTask
    BY <2>6 DEF DispatchAnalyzeTask, DispatchSaves, DispatchReports, DispatchFallsBack, Idle
  <2>7. ~(\/ UploadForwards \/ JobExtracts \/ JobDiagnoses \/ CallbackLost \/ Retry \/ EditReads
          \/ CallbackReads \/ CallbackUnknown \/ CallbackReports
          \/ WorkerCrashes \/ WorkerRestarts \/ ManagerRestarts)
    BY <2>2 DEF UploadForwards, JobExtracts, JobDiagnoses, CallbackLost, Retry, EditReads, CallbackReads,
                CallbackUnknown, CallbackReports, WorkerCrashes, WorkerRestarts, ManagerRestarts
  <2>8. \A by \in {"delete", "retain"} : ~DeleteStarts(by)
    BY <2>2 DEF DeleteStarts
  <2> QED
    BY <2>1, <2>3, <2>4, <2>5, <2>6, <2>7, <2>8 DEF Next, Callback
<1> QED BY <1>1, FoundedAlways, PTL DEF ReadyIsFinal, Spec

=================================================================================
