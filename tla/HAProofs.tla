------------------------------- MODULE HAProofs -------------------------------
(***************************************************************************)
(* Proofs about the replication of the store, module HASync, and the       *)
(* settings of one manager, module HAReconfig, for all managers, calls,    *)
(* settings and limits.                                                    *)
(***************************************************************************)
EXTENDS HASync, HAReconfig, FiniteSetTheorems, TLAPS

-----------------------------------------------------------------------------
(* Replication *)

LEMMA PeerType == ASSUME NEW m \in Manager PROVE Peer(m) \in Manager /\ Peer(m) # m
BY ManagersDiffer DEF Peer, Manager

\* Only a whole database has the kind of one.
LEMMA WholeIsDatabase ==
    ASSUME NEW d \in Database \cup Damaged \cup {NoFile}, d.kind = "whole"
    PROVE  d \in Database
BY DEF Damaged, Torn, Blank, Cut, Empty, Partial, NoFile

LEMMA PartialIsDamaged ==
    ASSUME NEW m \in Manager, NEW s \in Slot[m] PROVE Partial(s) \in Damaged
BY DEF Damaged

\* A transaction of the store commits.
LEMMA TxType == ASSUME NEW d \in Database PROVE [d EXCEPT !.tx = @ + 1] \in Database
BY DEF Database

\* What a call carries at each of its stages.
LEMMA StageType ==
    ASSUME NEW c \in Call
    PROVE  /\ c.stage = "asked" => c.etag \in Nat
           /\ c.stage \in {"asked", "answered", "exported", "copying"} => c.from \in Manager
           /\ c.stage \in {"answered", "exported", "copying", "copied", "verified", "swapped"} => c.header \in Nat
           /\ c.stage \in {"exported", "copying"} => c.snapshot \in Body
           /\ c.stage = "copying" => c \in [stage : {"copying"}, from : Manager, header : Nat, snapshot : Body,
                                            file : {"tmp", "db", "unlinked"}]
BY DEF Call, Idle

LEMMA HandleType ==
    ASSUME NEW c \in Call, NEW m \in Manager
    PROVE  Unlinked(c) \in Call /\ Renamed(c) \in Call /\ Broken(c, m) \in Call
<1> DEFINE Copying == [stage : {"copying"}, from : Manager, header : Nat, snapshot : Body, file : {"tmp", "db", "unlinked"}]
<1>1. c.stage = "copying" => c \in Copying BY StageType
<1>2. Copying \subseteq Call BY DEF Call
<1>3. \A f \in {"tmp", "db", "unlinked"} : c \in Copying => [c EXCEPT !.file = f] \in Copying OBVIOUS
<1>4. Unlinked(c) \in Call BY <1>1, <1>2, <1>3 DEF Unlinked
<1>5. Renamed(c) \in Call
  <2>1. CASE c.stage = "copying"
    <3>1. PICK f \in {"tmp", "db", "unlinked"} : Renamed(c) = [c EXCEPT !.file = f]
      BY <2>1 DEF Renamed
    <3> QED BY <1>1, <1>2, <1>3, <2>1, <3>1
  <2> QED BY <2>1 DEF Renamed
<1>6. Broken(c, m) \in Call BY DEF Broken, Call
<1> QED BY <1>4, <1>5, <1>6

LEMMA FilledType ==
    ASSUME NEW m \in Manager, NEW s \in Slot[m], call[m][s] \in Call, call[m][s].stage = "copying", NEW f
    PROVE  Filled(m, s, f) \in Database \cup Damaged
<1>1. call[m][s].snapshot \in Body BY StageType
<1> QED BY <1>1 DEF Filled, Body, Damaged

LEMMA StoreTells ==
    ASSUME NEW d \in Database \cup Damaged
    PROVE  TxIDs(d) \subseteq Nat /\ Exports(d) \subseteq Body
<1>1. CASE d.kind = "whole"
  <2>1. d \in Database BY <1>1, WholeIsDatabase
  <2> QED BY <1>1, <2>1 DEF TxIDs, Exports, Database, Body
<1>2. CASE d.kind # "whole" BY <1>2, BoundsType DEF TxIDs, Exports, Body
<1> QED BY <1>1, <1>2

\* A call that goes on touches no other.
LEMMA SetCallType ==
    ASSUME TypeOK, NEW m \in Manager, NEW s \in Slot[m], NEW c \in Call, SetCall(m, s, c)
    PROVE  DOMAIN call' = Manager /\ \A n \in Manager : call'[n] \in [Slot[n] -> Call]
BY DEF TypeOK, SetCall

-----------------------------------------------------------------------------
(* Type correctness *)

LEMMA InitType == Init => TypeOK
<1> SUFFICES ASSUME Init PROVE TypeOK OBVIOUS
<1>1. db \in [Manager -> Database \cup Damaged] BY DEF Init, Database, NewDatabase
<1>2. \A m \in Manager : call[m] \in [Slot[m] -> Call] BY DEF Init, Call
<1>3. role \in [Manager -> {"active", "standby"}] BY DEF Init, InitialRole
<1> QED BY <1>1, <1>2, <1>3, BoundsType DEF Init, TypeOK

LEMMA WriteType ==
    ASSUME TypeOK, NEW m \in Manager, Write(m) \/ SaveHAConfig(m)
    PROVE  TypeOK'
<1> USE DEF TypeOK, bounds
<1>1. db[m] \in Database BY WholeIsDatabase DEF Write, SaveHAConfig, Usable
<1>2. CASE Write(m)
  <2> DEFINE d == [db[m] EXCEPT !.log = @ \cup {writes + 1}, !.tx = @ + 1]
  <2>1. writes + 1 \in 1..MaxWrites /\ writes + 1 \in 0..MaxWrites BY <1>2, BoundsType DEF Write
  <2>2. d \in Database
    <3> DEFINE e == [db[m] EXCEPT !.log = @ \cup {writes + 1}]
    <3>1. e \in Database BY <1>1, <2>1 DEF Database
    <3>2. d = [e EXCEPT !.tx = @ + 1] BY <1>1 DEF Database
    <3> HIDE DEF d, e
    <3> QED BY <3>1, <3>2, TxType
  <2>3. db' = [db EXCEPT ![m] = d] BY <1>2 DEF Write
  <2> QED BY <1>2, <2>1, <2>2, <2>3 DEF Write
<1>3. CASE SaveHAConfig(m)
  <2> DEFINE d == [db[m] EXCEPT !.settings = m, !.tx = @ + 1]
  <2>1. d \in Database
    <3> DEFINE e == [db[m] EXCEPT !.settings = m]
    <3>1. e \in Database BY <1>1 DEF Database
    <3>2. d = [e EXCEPT !.tx = @ + 1] BY <1>1 DEF Database
    <3> HIDE DEF d, e
    <3> QED BY <3>1, <3>2, TxType
  <2>2. db' = [db EXCEPT ![m] = d] BY <1>3 DEF SaveHAConfig
  <2>3. saves' \in 0..MaxSaves BY <1>3, BoundsType DEF SaveHAConfig
  <2>4. haConfig' \in [Manager -> Manager \cup {"flags"}] BY <1>3 DEF SaveHAConfig
  <2> QED BY <1>3, <2>1, <2>2, <2>3, <2>4 DEF SaveHAConfig
<1> QED BY <1>2, <1>3

\* The steps that only advance the call.
LEMMA AdvanceType ==
    ASSUME TypeOK, NEW m \in Manager, NEW s \in Slot[m], NEW c \in Call, SetCall(m, s, c),
           tmp' \in [Manager -> Database \cup Damaged \cup {NoFile}],
           db' \in [Manager -> Database \cup Damaged],
           lastTxID' \in [Manager -> Nat],
           syncStatus' \in [Manager -> {"none", "syncing", "synced", "error"}],
           faults' \in 0..MaxFaults,
           UNCHANGED <<role, up, haConfig, writes, saves, roleChanges>>
    PROVE  TypeOK'
BY SetCallType DEF TypeOK

LEMMA AbandonsType ==
    ASSUME TypeOK, NEW m \in Manager, NEW s \in Slot[m], Abandons(m, s)
    PROVE  TypeOK'
<1>1. Idle \in Call BY DEF Call
<1>2. [t \in Slot[m] |-> IF t = s THEN Idle ELSE Unlinked(call[m][t])] \in [Slot[m] -> Call]
  BY <1>1, HandleType DEF TypeOK
<1> QED BY <1>2 DEF Abandons, TypeOK, bounds

LEMMA ReplacedType ==
    ASSUME TypeOK, NEW m \in Manager, NEW s \in Slot[m], NEW c \in Call, Replaced(m, s, c),
           syncStatus' \in [Manager -> {"none", "syncing", "synced", "error"}]
    PROVE  TypeOK'
<1>1. [t \in Slot[m] |-> IF t = s THEN c ELSE Renamed(call[m][t])] \in [Slot[m] -> Call]
  BY HandleType DEF TypeOK
<1>2. tmp[m] \in Database \cup Damaged BY DEF Replaced, TypeOK
<1> QED BY <1>1, <1>2 DEF Replaced, TypeOK, bounds

LEMMA SyncOnceType ==
    ASSUME TypeOK, NEW m \in Manager, NEW s \in Slot[m], syncOnce(m, s)
    PROVE  TypeOK'
<1> DEFINE c == call[m][s]
<1>1. c \in Call /\ Idle \in Call BY DEF TypeOK, Call
<1>2. \A n \in Manager : TxIDs(db[n]) \subseteq Nat /\ Exports(db[n]) \subseteq Body
  BY StoreTells DEF TypeOK
<1>3. lastTxID[m] \in Nat /\ Source(m) \in Manager BY PeerType DEF TypeOK, Source
<1>4. CASE SyncStarts(m, s)
  <2>1. [stage |-> "asked", from |-> Source(m), etag |-> lastTxID[m]] \in Call BY <1>3 DEF Call
  <2> QED BY <1>4, <2>1, AdvanceType DEF SyncStarts, TypeOK, bounds
<1>5. CASE NotModified(m, s)
  <2>1. [stage |-> "unmodified"] \in Call BY DEF Call
  <2> QED BY <1>5, <2>1, AdvanceType DEF NotModified, TypeOK, bounds
<1>6. CASE TxIDRead(m, s)
  <2>1. PICK tx \in TxIDs(db[c.from]) : SetCall(m, s, [stage |-> "answered", from |-> c.from, header |-> tx])
    BY <1>6 DEF TxIDRead
  <2>2. c.from \in Manager BY <1>1, <1>6, StageType DEF TxIDRead
  <2>3. [stage |-> "answered", from |-> c.from, header |-> tx] \in Call BY <1>2, <2>2 DEF Call
  <2> QED BY <1>6, <2>1, <2>3, AdvanceType DEF TxIDRead, TypeOK, bounds
<1>7. CASE ExportSnapshot(m, s) \/ ExportFails(m, s)
  <2>1. c.from \in Manager /\ c.header \in Nat
    BY <1>1, <1>7, StageType DEF ExportSnapshot, ExportFails
  <2>2. PICK body \in Body : Sent(m, s, body)
    BY <1>2, <1>7, <2>1 DEF ExportSnapshot, ExportFails, Body
  <2>3. [stage |-> "exported", from |-> c.from, header |-> c.header, snapshot |-> body] \in Call
    BY <2>1, <2>2 DEF Call
  <2>4. faults' \in 0..MaxFaults BY <1>7, BoundsType DEF ExportSnapshot, ExportFails, TypeOK, bounds
  <2>5. UNCHANGED <<role, up, db, tmp, lastTxID, syncStatus, haConfig, writes, saves, roleChanges>>
    BY <1>7 DEF ExportSnapshot, ExportFails, bounds
  <2> DEFINE d == [stage |-> "exported", from |-> c.from, header |-> c.header, snapshot |-> body]
  <2>6. SetCall(m, s, d) /\ d \in Call BY <2>2, <2>3 DEF Sent
  <2> HIDE DEF d
  <2> QED BY <2>4, <2>5, <2>6, AdvanceType DEF TypeOK
<1>8. CASE SkipsReload(m, s) BY <1>1, <1>8, AdvanceType DEF SkipsReload, TypeOK, bounds
<1>9. CASE OpenTmp(m, s)
  <2>1. [stage |-> "copying", from |-> c.from, header |-> c.header, snapshot |-> c.snapshot, file |-> "tmp"] \in Call
    BY <1>1, <1>9, StageType DEF OpenTmp, Call
  <2>2. tmp' \in [Manager -> Database \cup Damaged \cup {NoFile}]
    BY <1>9, PartialIsDamaged DEF OpenTmp, TypeOK
  <2> QED BY <1>9, <2>1, <2>2, AdvanceType DEF OpenTmp, TypeOK, bounds
<1>10. CASE Copied(m, s)
  <2>1. \A f : Filled(m, s, f) \in Database \cup Damaged BY <1>1, <1>10, FilledType DEF Copied
  <2>2. [stage |-> "copied", header |-> c.header] \in Call BY <1>1, <1>10, StageType DEF Copied, Call
  <2>3. tmp' \in [Manager -> Database \cup Damaged \cup {NoFile}] BY <1>10, <2>1 DEF Copied, TypeOK
  <2>4. db' \in [Manager -> Database \cup Damaged] BY <1>10, <2>1 DEF Copied, TypeOK
  <2> QED BY <1>10, <2>2, <2>3, <2>4, AdvanceType DEF Copied, TypeOK, bounds
<1>11. CASE Verified(m, s)
  <2>1. [stage |-> "verified", header |-> c.header] \in Call BY <1>1, <1>11, StageType DEF Verified, Call
  <2>2. tmp' \in [Manager -> Database \cup Damaged \cup {NoFile}] BY <1>11 DEF Verified, TypeOK, Damaged
  <2> QED BY <1>11, <2>1, <2>2, AdvanceType DEF Verified, TypeOK, bounds
<1>12. CASE Rejected(m, s) \/ CopyFails(m, s) BY <1>12, AbandonsType DEF Rejected, CopyFails
<1>13. CASE Swapped(m, s)
  <2>1. [stage |-> "swapped", header |-> c.header] \in Call
    BY <1>1, <1>13, StageType DEF Swapped, Replaced, Call
  <2> QED BY <1>13, <2>1, ReplacedType DEF Swapped, TypeOK
<1>14. CASE ReopenFails(m, s) BY <1>1, <1>14, ReplacedType DEF ReopenFails, TypeOK
<1>15. CASE RenameFails(m, s) BY <1>1, <1>15, AdvanceType DEF RenameFails, TypeOK, bounds
<1>16. CASE SyncFinishes(m, s)
  <2>1. (IF c.header # 0 THEN {c.header} ELSE TxIDs(db[m])) \subseteq Nat
    BY <1>1, <1>2, <1>16, StageType DEF SyncFinishes
  <2>2. lastTxID' \in [Manager -> Nat] BY <1>3, <1>16, <2>1 DEF SyncFinishes, TypeOK
  <2> QED BY <1>1, <1>16, <2>2, AdvanceType DEF SyncFinishes, TypeOK, bounds
<1>17. CASE AnswerFails(m, s)
  <2>1. faults' \in 0..MaxFaults BY <1>17, BoundsType DEF AnswerFails, TypeOK
  <2> QED BY <1>1, <1>17, <2>1, AdvanceType DEF AnswerFails, TypeOK
<1> QED BY <1>4, <1>5, <1>6, <1>7, <1>8, <1>9, <1>10, <1>11, <1>12, <1>13, <1>14, <1>15, <1>16, <1>17
        DEF syncOnce

LEMMA OpenedType ==
    ASSUME NEW d \in Database \cup Damaged
    PROVE  /\ Opened(d) \in Database \cup Damaged
           /\ SavedSettings(Opened(d)) \subseteq Manager \cup {"flags"}
           /\ d.kind = "whole" => Opened(d).kind = "whole" /\ Opened(d).log = d.log
                                  /\ Opened(d).tx = d.tx + 1 /\ Opened(d).settings = d.settings
<1>1. CASE d.kind = "whole"
  <2>1. d \in Database BY <1>1, WholeIsDatabase
  <2>2. Opened(d) = [d EXCEPT !.tx = @ + 1] BY <1>1 DEF Opened
  <2>3. Opened(d) \in Database BY <2>1, <2>2, TxType
  <2> QED BY <1>1, <2>1, <2>2, <2>3 DEF SavedSettings, Database
<1>2. CASE d.kind # "whole"
  <2>1. NewDatabase \in Database BY DEF NewDatabase, Database
  <2>2. Opened(d) \in {NewDatabase, d} BY <1>2 DEF Opened
  <2>3. CASE Opened(d) = NewDatabase BY <1>2, <2>1, <2>3 DEF SavedSettings, Database
  <2>4. CASE Opened(d) = d BY <1>2, <2>4 DEF SavedSettings
  <2> QED BY <1>2, <2>2, <2>3, <2>4
<1> QED BY <1>1, <1>2

LEMMA FaultsType ==
    ASSUME TypeOK, NEW m \in Manager, RoleChanges(m) \/ Crash(m) \/ Restart(m)
    PROVE  TypeOK'
<1> USE DEF TypeOK, bounds
<1>1. CASE RoleChanges(m)
  <2>1. roleChanges' \in Nat BY <1>1 DEF RoleChanges
  <2>2. role' \in [Manager -> {"active", "standby"}] BY <1>1 DEF RoleChanges
  <2> QED BY <1>1, <2>1, <2>2 DEF RoleChanges
<1>2. CASE Crash(m)
  <2>1. faults' \in 0..MaxFaults BY <1>2, BoundsType DEF Crash
  <2>2. Idle \in Call BY DEF Call
  <2>3. [s \in Slot[m] |-> Idle] \in [Slot[m] -> Call] BY <2>2
  <2>4. [s \in Slot[Peer(m)] |-> Broken(call[Peer(m)][s], m)] \in [Slot[Peer(m)] -> Call]
    BY PeerType, HandleType
  <2>5. DOMAIN call' = Manager /\ \A n \in Manager : call'[n] \in [Slot[n] -> Call]
    BY <1>2, <2>3, <2>4, PeerType DEF Crash
  <2> QED BY <1>2, <2>1, <2>5 DEF Crash
<1>3. CASE Restart(m)
  <2>1. Opened(db[m]) \in Database \cup Damaged /\ SavedSettings(Opened(db[m])) \subseteq Manager \cup {"flags"}
    BY OpenedType
  <2>2. PICK owner \in Manager \cup {"flags"} :
          /\ haConfig' = [haConfig EXCEPT ![m] = owner]
          /\ role' = [role EXCEPT ![m] = InitialRole(IF owner = "flags" THEN m ELSE owner)]
    BY <1>3, <2>1 DEF Restart
  <2>3. role' \in [Manager -> {"active", "standby"}] /\ haConfig' \in [Manager -> Manager \cup {"flags"}]
    BY <2>2 DEF InitialRole
  <2>4. db' \in [Manager -> Database \cup Damaged] BY <1>3, <2>1 DEF Restart
  <2>5. roleChanges' \in Nat BY <1>3 DEF Restart
  <2> QED BY <1>3, <2>3, <2>4, <2>5 DEF Restart
<1> QED BY <1>1, <1>2, <1>3

LEMMA StepType == TypeOK /\ [Next]_vars => TypeOK'
<1>1. ASSUME TypeOK, UNCHANGED vars PROVE TypeOK' BY <1>1 DEF vars, bounds, TypeOK
<1>2. ASSUME TypeOK, Next PROVE TypeOK'
  BY <1>2, SyncOnceType, WriteType, FaultsType DEF Next
<1> QED BY <1>1, <1>2

\* Every state of the replication has its type: a call carries at each stage
\* what its next step reads, and a store holds a database or one of the damaged
\* files, whatever two calls do to the file they share.
THEOREM TypeCorrect == Spec => []TypeOK
BY InitType, StepType, PTL DEF Spec

-----------------------------------------------------------------------------
(* The active manager keeps its writes *)

LEMMA SyncKeepsWrites ==
    ASSUME TypeOK, NEW n \in Manager, NEW s \in Slot[n], syncOnce(n, s),
           NEW m \in Manager, Settled(m)
    PROVE  Settled(m)' /\ db'[m] = db[m]
<1>1. n # m
  <2>1. SUFFICES ASSUME n = m PROVE FALSE OBVIOUS
  <2>2. call[m][s].stage = "idle" /\ role[m] # "standby" BY <2>1 DEF Settled, Idle
  <2> QED BY <2>1, <2>2
      DEF syncOnce, SyncStarts, MayStart, NotModified, TxIDRead, ExportSnapshot, ExportFails, Sent, SkipsReload, OpenTmp,
          Copied, Verified, Rejected, Swapped, ReopenFails, Replaced, RenameFails, SyncFinishes, AnswerFails,
          CopyFails
<1>2. db'[m] = db[m] /\ call'[m] = call[m] /\ role' = role
  BY <1>1 DEF TypeOK, SetCall, syncOnce, SyncStarts, NotModified, TxIDRead, ExportSnapshot, ExportFails, Sent, SkipsReload, OpenTmp,
          Copied, Verified, Rejected, Abandons, Swapped, ReopenFails, Replaced, RenameFails, SyncFinishes,
          AnswerFails, CopyFails
<1> QED BY <1>2 DEF Settled

\* A manager that is active and has no download under way begins none and loses
\* no write, for any number of calls, writes, crashes and role changes of its
\* peer: only its own downloads touch its database.
THEOREM ActiveKeeps == Spec => ActiveKeepsItsWrites
<1>1. ASSUME TypeOK, [Next]_vars, NEW m \in Manager, Settled(m), role'[m] = "active"
      PROVE  Settled(m)' /\ db[m].log \subseteq db'[m].log
  <2>0. db[m] \in Database BY <1>1, WholeIsDatabase DEF Settled, TypeOK
  <2>1. CASE UNCHANGED vars BY <1>1, <2>1 DEF vars, Settled
  <2>2. ASSUME NEW n \in Manager, NEW s \in Slot[n], syncOnce(n, s)
        PROVE  Settled(m)' /\ db[m].log \subseteq db'[m].log
    BY <1>1, <2>2, SyncKeepsWrites
  <2>3. ASSUME NEW n \in Manager, Write(n) \/ SaveHAConfig(n)
        PROVE  Settled(m)' /\ db[m].log \subseteq db'[m].log
    <3>1. db'[m].kind = "whole" /\ db[m].log \subseteq db'[m].log
      BY <1>1, <2>0, <2>3 DEF Write, SaveHAConfig, TypeOK, Database
    <3>2. call' = call BY <2>3 DEF Write, SaveHAConfig
    <3> QED BY <1>1, <3>1, <3>2 DEF Settled
  <2>6. ASSUME NEW n \in Manager, Restart(n)
        PROVE  Settled(m)' /\ db[m].log \subseteq db'[m].log
    <3>1. Opened(db[m]).kind = "whole" /\ Opened(db[m]).log = db[m].log
      BY <1>1, <2>0, OpenedType DEF Settled
    <3>2. db'[m] \in {db[m], Opened(db[m])} BY <2>6 DEF Restart, TypeOK
    <3>3. call' = call BY <2>6 DEF Restart
    <3> QED BY <1>1, <3>1, <3>2, <3>3 DEF Settled
  <2>4. ASSUME NEW n \in Manager, RoleChanges(n)
        PROVE  Settled(m)' /\ db[m].log \subseteq db'[m].log
    BY <1>1, <2>4 DEF RoleChanges, Settled
  <2>5. ASSUME NEW n \in Manager, Crash(n)
        PROVE  Settled(m)' /\ db[m].log \subseteq db'[m].log
    <3>1. \A s \in Slot[m] : call'[m][s] = Idle
      BY <1>1, <2>5, PeerType DEF Crash, Settled, TypeOK, Broken, Idle, Peer, Manager
    <3> QED BY <1>1, <2>5, <3>1 DEF Crash, Settled
  <2> QED BY <1>1, <2>1, <2>2, <2>3, <2>4, <2>5, <2>6 DEF Next
<1>2. TypeOK /\ [Next]_vars =>
        [\A m \in Manager : Settled(m) /\ role'[m] = "active" =>
             Settled(m)' /\ db[m].log \subseteq db'[m].log]_vars
  BY <1>1
<1> QED BY <1>2, TypeCorrect, PTL DEF Spec, ActiveKeepsItsWrites

-----------------------------------------------------------------------------
(* The standby follows the active manager *)

\* What a primary that gets nothing but its own writes has held.
Initial(log) == \E n \in Nat : log = 1..n

\* A content between the standby's, if it has one, and the primary's.
Taken(log) ==
    /\ Initial(log) /\ log \subseteq db[NodeA].log
    /\ db[NodeB].kind = "whole" => db[NodeB].log \subseteq log

\* A transaction number the primary has had: while it still has it, log is
\* what it holds.
Numbers(tx, log) == tx <= db[NodeA].tx /\ (tx = db[NodeA].tx => log = db[NodeA].log)

\* What came with the number tx: a content of that number, or what a failed
\* export left.  The number is a later one than the standby remembers.
Came(file, tx) ==
    /\ lastTxID[NodeB] < tx /\ tx <= db[NodeA].tx
    /\ \/ file.kind = "whole" /\ Taken(file.log) /\ Numbers(tx, file.log)
       \/ file.kind \in {"cut", "empty"} /\ faults > 0

CallFollows(s) ==
    LET c == call[NodeB][s] IN
    /\ c.stage = "asked" => c.from = NodeA /\ c.etag = lastTxID[NodeB]
    /\ c.stage = "answered" =>
          c.from = NodeA /\ lastTxID[NodeB] < c.header /\ c.header <= db[NodeA].tx
    /\ c.stage \in {"exported", "copying"} => Came(c.snapshot, c.header)
    /\ c.stage = "copying" => c.file = "tmp" /\ tmp[NodeB] = Partial(s)
    /\ c.stage \in {"copied", "verified"} => Came(tmp[NodeB], c.header)
    /\ c.stage = "swapped" =>
          /\ 0 < c.header /\ c.header <= db[NodeA].tx
          /\ db[NodeB].kind = "whole" => Numbers(c.header, db[NodeB].log)

PrimaryFollows ==
    /\ role[NodeA] = "active"
    /\ \A s \in Slot[NodeA] : call[NodeA][s] = Idle
    /\ db[NodeA].kind = "whole" /\ db[NodeA].tx > 0
    /\ db[NodeA].settings \in {"flags", NodeA} /\ db[NodeA].log \subseteq 1..writes

\* Nothing is down, and no role has changed, but for a failure.
FailedBefore ==
    /\ \A m \in Manager : ~up[m] => faults > 0
    /\ ~up[NodeB] => \A s \in Slot[NodeB] : call[NodeB][s] = Idle
    /\ roleChanges > 0 => faults > 0

StandbyFollows ==
    /\ role[NodeB] = "standby" /\ haConfig[NodeB] \in {"flags", NodeB}
    /\ db[NodeA].log = 1..writes
    /\ \/ db[NodeB].kind = "whole" /\ Taken(db[NodeB].log) /\ Numbers(lastTxID[NodeB], db[NodeB].log)
       \/ db[NodeB].kind \in {"cut", "empty"} /\ faults > 0
    /\ lastTxID[NodeB] <= db[NodeA].tx
    /\ \A s \in Slot[NodeB] : CallFollows(s)

\* The inductive invariant, for one call at a time and roles that change by
\* restarts alone.
Follows == PrimaryFollows /\ FailedBefore /\ (roleChanges = 0 => StandbyFollows)

RolesStay == MaxRoleChanges = 0 /\ ~StandbyWrites
OneAtATime == \A s, t \in Slot[NodeB] : s = t

LEMMA InitFollows == Init => Follows
<1> SUFFICES ASSUME Init PROVE Follows OBVIOUS
<1>0. NodeA \in Manager /\ NodeB \in Manager /\ NodeA # NodeB BY ManagersDiffer DEF Manager
<1>1. \A m \in Manager : /\ db[m].log = {} /\ db[m].tx = 1 /\ db[m].kind = "whole"
                         /\ db[m].settings = "flags" /\ lastTxID[m] = 0 /\ up[m]
  BY DEF Init, NewDatabase
<1>2. \A m \in Manager : \A s \in Slot[m] : call[m][s].stage = "idle" /\ call[m][s] = Idle
  BY DEF Init, Idle
<1>3. {} = 1..0 /\ writes = 0 /\ roleChanges = 0 BY DEF Init
<1>4. role[NodeA] = "active" /\ role[NodeB] = "standby" /\ haConfig[NodeB] = "flags"
  BY <1>0 DEF Init, InitialRole
<1>5. PrimaryFollows BY <1>0, <1>1, <1>2, <1>3, <1>4 DEF PrimaryFollows
<1>6. Taken(db[NodeB].log) BY <1>0, <1>1, <1>3 DEF Taken, Initial
<1>7. \A s \in Slot[NodeB] : CallFollows(s) BY <1>0, <1>2 DEF CallFollows
<1>8. StandbyFollows BY <1>0, <1>1, <1>3, <1>4, <1>6, <1>7 DEF StandbyFollows, Numbers
<1> QED BY <1>1, <1>3, <1>5, <1>8 DEF Follows, FailedBefore, Manager

\* A step that leaves the standby's content and file alone, whatever the
\* primary commits, keeps every number and every snapshot as good as it was.
LEMMA StandbyKept ==
    ASSUME TypeOK, TypeOK', PrimaryFollows, PrimaryFollows', StandbyFollows,
           role'[NodeB] = "standby", haConfig'[NodeB] \in {"flags", NodeB}, faults <= faults',
           db'[NodeA].log = 1..writes',
           db[NodeA].log \subseteq db'[NodeA].log, db[NodeA].tx <= db'[NodeA].tx,
           db[NodeA].tx = db'[NodeA].tx => db'[NodeA].log = db[NodeA].log,
           db'[NodeB].kind = db[NodeB].kind,
           db[NodeB].kind = "whole" => db'[NodeB].log = db[NodeB].log,
           tmp'[NodeB] = tmp[NodeB], lastTxID'[NodeB] = lastTxID[NodeB],
           \A s \in Slot[NodeB] : \/ call'[NodeB][s] = call[NodeB][s]
                                  \/ call'[NodeB][s].stage \in {"idle", "broken", "unmodified"}
    PROVE  StandbyFollows'
<1>0. NodeA \in Manager /\ NodeB \in Manager BY DEF Manager
<1>1. db[NodeA] \in Database /\ db'[NodeA] \in Database
  BY <1>0, WholeIsDatabase DEF TypeOK, PrimaryFollows
<1>2. /\ db[NodeA].tx \in Nat /\ db'[NodeA].tx \in Nat /\ lastTxID[NodeB] \in Nat
      /\ faults \in Nat /\ faults' \in Nat
  BY <1>0, <1>1, BoundsType DEF Database, TypeOK
<1>3. ASSUME NEW t \in Nat, NEW log, Numbers(t, log) PROVE Numbers(t, log)'
  BY <1>2, <1>3 DEF Numbers
<1>4. ASSUME NEW log, Taken(log) PROVE Taken(log)' BY <1>4 DEF Taken
<1>5. ASSUME NEW t \in Nat, NEW f, Came(f, t) PROVE Came(f, t)'
  BY <1>2, <1>3, <1>4, <1>5 DEF Came
<1>6. ASSUME NEW s \in Slot[NodeB] PROVE CallFollows(s)'
  <2> DEFINE c == call[NodeB][s]
  <2>1. CASE call'[NodeB][s].stage \in {"idle", "broken", "unmodified"} BY <2>1 DEF CallFollows
  <2>2. CASE call'[NodeB][s] = c
    <3>1. c \in Call /\ CallFollows(s) BY <1>0 DEF TypeOK, StandbyFollows
    <3>2. c.stage = "asked" => c.from = NodeA /\ c.etag = lastTxID'[NodeB] BY <3>1 DEF CallFollows
    <3>3. c.stage = "answered" =>
            c.from = NodeA /\ lastTxID'[NodeB] < c.header /\ c.header <= db'[NodeA].tx
      BY <1>2, <3>1, StageType DEF CallFollows
    <3>4. c.stage \in {"exported", "copying"} => Came(c.snapshot, c.header)'
      <4>1. ASSUME c.stage \in {"exported", "copying"} PROVE c.header \in Nat /\ Came(c.snapshot, c.header)
        BY <3>1, <4>1, StageType DEF CallFollows
      <4>2. c' = c BY <2>2
      <4> HIDE DEF c
      <4> QED BY <1>5, <4>1, <4>2
    <3>5. c.stage \in {"copied", "verified"} => Came(tmp[NodeB], c.header)'
      <4>1. ASSUME c.stage \in {"copied", "verified"} PROVE c.header \in Nat /\ Came(tmp[NodeB], c.header)
        BY <3>1, <4>1, StageType DEF CallFollows
      <4>2. c' = c BY <2>2
      <4> HIDE DEF c
      <4> QED BY <1>5, <4>1, <4>2
    <3>6. c.stage = "swapped" =>
            /\ 0 < c.header /\ c.header <= db'[NodeA].tx
            /\ db'[NodeB].kind = "whole" => Numbers(c.header, db[NodeB].log)'
      <4>1. ASSUME c.stage = "swapped"
            PROVE  /\ c.header \in Nat /\ 0 < c.header /\ c.header <= db[NodeA].tx
                   /\ db[NodeB].kind = "whole" => Numbers(c.header, db[NodeB].log)
        BY <3>1, <4>1, StageType DEF CallFollows
      <4>2. c' = c BY <2>2
      <4> HIDE DEF c
      <4> QED BY <1>2, <1>3, <4>1, <4>2 DEF Numbers
    <3>7. c.stage = "copying" => c.file = "tmp" /\ tmp'[NodeB] = Partial(s) BY <3>1 DEF CallFollows
    <3>8. call'[NodeB][s] = c /\ c' = c BY <2>2
    <3> HIDE DEF c
    <3> QED BY <3>2, <3>3, <3>4, <3>5, <3>6, <3>7, <3>8 DEF CallFollows
  <2> QED BY <2>1, <2>2
<1>7. \/ db'[NodeB].kind = "whole" /\ Taken(db[NodeB].log)' /\ Numbers(lastTxID[NodeB], db[NodeB].log)'
      \/ db'[NodeB].kind \in {"cut", "empty"} /\ faults' > 0
  <2>1. CASE db[NodeB].kind = "whole" BY <1>2, <1>3, <1>4, <2>1 DEF StandbyFollows, Numbers, Taken
  <2>2. CASE db[NodeB].kind # "whole" BY <1>2, <2>2 DEF StandbyFollows
  <2> QED BY <2>1, <2>2
<1>8. lastTxID'[NodeB] <= db'[NodeA].tx BY <1>2 DEF StandbyFollows
<1> QED BY <1>6, <1>7, <1>8 DEF StandbyFollows

\* What a step does to the two contents.
SameCopy ==
    /\ db'[NodeB].kind = db[NodeB].kind /\ roleChanges' = roleChanges
    /\ db[NodeB].kind = "whole" => db'[NodeB].log = db[NodeB].log

Moves ==
    \/ /\ db'[NodeA].log = db[NodeA].log \cup {writes + 1} /\ writes' = writes + 1
       /\ SameCopy /\ faults' = faults
    \/ db'[NodeA].log = db[NodeA].log /\ SameCopy /\ faults' >= faults
    \/ /\ db'[NodeA].log = db[NodeA].log /\ faults' = faults
       /\ GivenUp' => faults > 0
       /\ ~GivenUp /\ ~GivenUp' => db[NodeB].log \subseteq db'[NodeB].log

LEMMA WriteFollows ==
    ASSUME TypeOK, TypeOK', Follows, ~StandbyWrites, NEW m \in Manager, Write(m) \/ SaveHAConfig(m)
    PROVE  Follows' /\ Moves
<1>0. NodeA \in Manager /\ NodeB \in Manager /\ NodeA # NodeB BY ManagersDiffer DEF Manager
<1>1. db[NodeA] \in Database /\ db[m] \in Database /\ db[NodeA].tx \in Nat /\ db[NodeA].log \subseteq 1..writes
  <2>1. db[NodeA] \in Database /\ db[m] \in Database
    BY <1>0, WholeIsDatabase DEF TypeOK, Follows, PrimaryFollows, Write, SaveHAConfig, Usable
  <2> QED BY <2>1 DEF Database, Follows, PrimaryFollows
<1>2. writes \in Nat /\ faults \in Nat BY BoundsType DEF TypeOK
<1>3. /\ up' = up /\ call' = call /\ tmp' = tmp /\ lastTxID' = lastTxID /\ role' = role
      /\ roleChanges' = roleChanges /\ faults' = faults
  BY DEF Write, SaveHAConfig, bounds
<1>4. FailedBefore' BY <1>3 DEF Follows, FailedBefore
<1>5. /\ db'[m].kind = "whole" /\ db[m].kind = "whole"
      /\ \A n \in Manager \ {m} : db'[n] = db[n]
  BY <1>1 DEF Write, SaveHAConfig, Usable, TypeOK, Database
<1>6. CASE Write(m)
  <2>1. /\ db'[m].log = db[m].log \cup {writes + 1} /\ db'[m].tx = db[m].tx + 1
        /\ db'[m].settings = db[m].settings /\ writes' = writes + 1 /\ haConfig' = haConfig
    BY <1>1, <1>6 DEF Write, TypeOK, Database
  <2>2. 1..writes \subseteq 1..(writes + 1) /\ (1..writes) \cup {writes + 1} = 1..(writes + 1) BY <1>2
  <2>3. CASE m = NodeA
    <3>1. PrimaryFollows' BY <1>0, <1>1, <1>2, <1>3, <1>5, <2>1, <2>2, <2>3 DEF Follows, PrimaryFollows
    <3>2. SameCopy BY <1>0, <1>3, <1>5, <2>3 DEF SameCopy
    <3>3. roleChanges = 0 => StandbyFollows'
      <4> SUFFICES ASSUME roleChanges = 0 PROVE StandbyFollows' OBVIOUS
      <4>1. StandbyFollows BY DEF Follows
      <4>2. db'[NodeA].log = 1..writes' BY <2>1, <2>2, <2>3, <4>1 DEF StandbyFollows
      <4>3. db'[NodeB] = db[NodeB] BY <1>0, <1>5, <2>3
      <4> QED BY <1>1, <1>2, <1>3, <2>1, <2>3, <3>1, <4>1, <4>2, <4>3, StandbyKept
              DEF Follows, StandbyFollows
    <3> QED BY <1>3, <1>4, <2>1, <2>3, <3>1, <3>2, <3>3 DEF Follows, Moves
  <2>4. CASE m = NodeB
    <3>1. roleChanges # 0 BY <1>6, <2>4 DEF Write, Follows, StandbyFollows
    <3>2. roleChanges > 0 BY <3>1 DEF TypeOK
    <3>3. db'[NodeA] = db[NodeA] BY <1>0, <1>5, <2>4
    <3>4. PrimaryFollows' BY <1>3, <2>1, <2>2, <3>3 DEF Follows, PrimaryFollows
    <3>5. GivenUp /\ GivenUp' /\ faults > 0 BY <1>3, <3>2 DEF GivenUp, Follows, FailedBefore
    <3> QED BY <1>3, <1>4, <3>1, <3>3, <3>4, <3>5 DEF Follows, Moves
  <2> QED BY <2>3, <2>4 DEF Manager
<1>7. CASE SaveHAConfig(m)
  <2>1. /\ db'[m].log = db[m].log /\ db'[m].tx = db[m].tx + 1 /\ db'[m].settings = m
        /\ writes' = writes /\ haConfig' = [haConfig EXCEPT ![m] = m]
    BY <1>1, <1>7 DEF SaveHAConfig, TypeOK, Database
  <2>2. db'[NodeA].log = db[NodeA].log /\ db'[NodeA].tx \in {db[NodeA].tx, db[NodeA].tx + 1}
    BY <1>0, <1>5, <2>1
  <2>3. PrimaryFollows' BY <1>0, <1>1, <1>3, <1>5, <2>1, <2>2 DEF Follows, PrimaryFollows
  <2>4. SameCopy BY <1>0, <1>3, <1>5, <2>1 DEF SameCopy
  <2>5. roleChanges = 0 => StandbyFollows'
    <3> SUFFICES ASSUME roleChanges = 0 PROVE StandbyFollows' OBVIOUS
    <3>1. StandbyFollows BY DEF Follows
    <3>2. haConfig'[NodeB] \in {"flags", NodeB} BY <1>0, <2>1, <3>1 DEF TypeOK, StandbyFollows
    <3>3. db'[NodeA].log = 1..writes' BY <2>1, <2>2, <3>1 DEF StandbyFollows
    <3>4. db'[NodeB].kind = db[NodeB].kind /\ (db[NodeB].kind = "whole" => db'[NodeB].log = db[NodeB].log)
      BY <2>4 DEF SameCopy
    <3>5. db[NodeA].tx <= db'[NodeA].tx BY <1>1, <2>2
    <3> QED BY <1>2, <1>3, <2>2, <2>3, <3>1, <3>2, <3>3, <3>4, <3>5, StandbyKept
            DEF Follows, StandbyFollows
  <2> QED BY <1>2, <1>3, <1>4, <2>2, <2>3, <2>4, <2>5 DEF Follows, Moves
<1> QED BY <1>6, <1>7

LEMMA CrashFollows ==
    ASSUME TypeOK, TypeOK', Follows, NEW m \in Manager, Crash(m)
    PROVE  Follows' /\ Moves
<1>0. NodeA \in Manager /\ NodeB \in Manager /\ NodeA # NodeB /\ Peer(NodeA) = NodeB /\ Peer(NodeB) = NodeA
  BY ManagersDiffer DEF Manager, Peer
<1>1. /\ db' = db /\ tmp' = tmp /\ lastTxID' = lastTxID /\ role' = role /\ writes' = writes
      /\ haConfig' = haConfig /\ roleChanges' = roleChanges /\ faults' = faults + 1
  BY DEF Crash
<1>2. faults \in Nat BY BoundsType DEF TypeOK
<1>3. \A n \in Manager : \A s \in Slot[n] :
         \/ call'[n][s] = call[n][s] \/ call'[n][s] = Idle \/ call'[n][s].stage = "broken"
  <2>1. \A c \in Call : Broken(c, m) = c \/ Broken(c, m).stage = "broken" BY DEF Broken
  <2> QED BY <1>0, <2>1 DEF Crash, TypeOK, Manager
<1>4. \A n \in Manager : (\A s \in Slot[n] : call[n][s] = Idle) => \A s \in Slot[n] : call'[n][s] = Idle
  <2>1. Broken(Idle, m) = Idle BY DEF Broken, Idle
  <2> QED BY <1>0, <2>1 DEF Crash, TypeOK, Manager
<1>5. PrimaryFollows' BY <1>0, <1>1, <1>4 DEF Follows, PrimaryFollows
<1>6. FailedBefore'
  <2>1. ~up'[NodeB] => \A s \in Slot[NodeB] : call'[NodeB][s] = Idle
    <3>1. CASE m = NodeB BY <1>0, <3>1 DEF Crash, TypeOK
    <3>2. CASE m # NodeB
      <4>1. up'[NodeB] = up[NodeB] BY <1>0, <3>2 DEF Crash, TypeOK
      <4> QED BY <1>0, <1>4, <4>1 DEF Follows, FailedBefore
    <3> QED BY <3>1, <3>2
  <2> QED BY <1>1, <1>2, <2>1 DEF FailedBefore
<1>7. roleChanges = 0 => StandbyFollows'
  <2> SUFFICES ASSUME roleChanges = 0 PROVE StandbyFollows' OBVIOUS
  <2>1. StandbyFollows BY DEF Follows
  <2>2. db[NodeA].tx \in Nat BY <1>0, WholeIsDatabase DEF Follows, PrimaryFollows, TypeOK, Database
  <2>3. \A s \in Slot[NodeB] : \/ call'[NodeB][s] = call[NodeB][s]
                               \/ call'[NodeB][s].stage \in {"idle", "broken", "unmodified"}
    BY <1>0, <1>3 DEF Idle
  <2> QED BY <1>1, <1>2, <1>5, <2>1, <2>2, <2>3, StandbyKept DEF Follows, StandbyFollows
<1> QED BY <1>1, <1>2, <1>5, <1>6, <1>7 DEF Follows, Moves, SameCopy

LEMMA RestartFollows ==
    ASSUME TypeOK, TypeOK', Follows, NEW m \in Manager, Restart(m)
    PROVE  Follows' /\ Moves
<1>0. NodeA \in Manager /\ NodeB \in Manager /\ NodeA # NodeB BY ManagersDiffer DEF Manager
<1>1. /\ tmp' = tmp /\ call' = call /\ writes' = writes /\ faults' = faults /\ ~up[m]
      /\ up' = [up EXCEPT ![m] = TRUE] /\ db' = [db EXCEPT ![m] = Opened(@)]
      /\ lastTxID' = [lastTxID EXCEPT ![m] = 0]
      /\ roleChanges' = roleChanges + (IF role' = role THEN 0 ELSE 1)
  BY DEF Restart
<1>2. PICK owner \in SavedSettings(Opened(db[m])) :
        /\ haConfig' = [haConfig EXCEPT ![m] = owner]
        /\ role' = [role EXCEPT ![m] = InitialRole(IF owner = "flags" THEN m ELSE owner)]
  BY DEF Restart
<1>3. faults \in Nat /\ faults > 0 /\ roleChanges \in Nat BY <1>1, BoundsType DEF TypeOK, Follows, FailedBefore
<1>4. FailedBefore' BY <1>0, <1>1, <1>3 DEF FailedBefore, Follows, TypeOK
<1>5. db[NodeA] \in Database /\ db[NodeA].tx \in Nat
  BY <1>0, WholeIsDatabase DEF Follows, PrimaryFollows, TypeOK, Database
<1>6. /\ Opened(db[NodeA]).kind = "whole" /\ Opened(db[NodeA]).log = db[NodeA].log
      /\ Opened(db[NodeA]).tx = db[NodeA].tx + 1 /\ Opened(db[NodeA]).settings = db[NodeA].settings
  BY <1>5, OpenedType DEF Follows, PrimaryFollows
<1>7. db'[NodeA] \in {db[NodeA], Opened(db[NodeA])} BY <1>0, <1>1 DEF TypeOK
<1>8. role'[NodeA] = "active"
  <2>1. CASE m = NodeB BY <1>0, <1>2, <2>1 DEF TypeOK, Follows, PrimaryFollows
  <2>2. CASE m = NodeA
    <3>1. owner \in {"flags", NodeA} BY <1>2, <1>6, <2>2 DEF SavedSettings, Follows, PrimaryFollows
    <3> QED BY <1>0, <1>2, <2>2, <3>1 DEF InitialRole, TypeOK
  <2> QED BY <2>1, <2>2 DEF Manager
<1>9. PrimaryFollows' BY <1>1, <1>5, <1>6, <1>7, <1>8 DEF Follows, PrimaryFollows
<1>10. CASE m = NodeA
  <2>1. role' = role BY <1>0, <1>2, <1>8, <1>10 DEF TypeOK, Follows, PrimaryFollows
  <2>2. roleChanges' = roleChanges BY <1>1, <1>3, <2>1
  <2>3. db'[NodeB] = db[NodeB] /\ lastTxID'[NodeB] = lastTxID[NodeB] /\ haConfig'[NodeB] = haConfig[NodeB]
    BY <1>0, <1>1, <1>2, <1>10 DEF TypeOK
  <2>4. db'[NodeA].log = db[NodeA].log /\ db'[NodeA].tx \in {db[NodeA].tx, db[NodeA].tx + 1}
    BY <1>6, <1>7
  <2>5. roleChanges = 0 => StandbyFollows'
    BY <1>1, <1>3, <1>5, <1>9, <2>1, <2>3, <2>4, StandbyKept DEF Follows, StandbyFollows
  <2>6. Moves BY <1>1, <1>3, <2>2, <2>3, <2>4 DEF Moves, SameCopy
  <2> QED BY <1>4, <1>9, <2>2, <2>5, <2>6 DEF Follows
<1>11. CASE m = NodeB
  <2>1. db'[NodeA] = db[NodeA] /\ db'[NodeB] = Opened(db[NodeB]) /\ lastTxID'[NodeB] = 0
    BY <1>0, <1>1, <1>11 DEF TypeOK
  <2>2. \A s \in Slot[NodeB] : call'[NodeB][s] = Idle
    BY <1>1, <1>11 DEF Follows, FailedBefore
  <2>3. roleChanges' = 0 =>
          StandbyFollows' /\ (db[NodeB].kind = "whole" => db[NodeB].log \subseteq db'[NodeB].log)
    <3> SUFFICES ASSUME roleChanges' = 0
                 PROVE  StandbyFollows' /\ (db[NodeB].kind = "whole" => db[NodeB].log \subseteq db'[NodeB].log)
      OBVIOUS
    <3>1. roleChanges = 0 /\ role' = role BY <1>1, <1>3
    <3>2. StandbyFollows BY <3>1 DEF Follows
    <3>3. role'[NodeB] = "standby" BY <3>1, <3>2 DEF StandbyFollows
    <3>4. haConfig'[NodeB] \in {"flags", NodeB}
      <4>1. haConfig'[NodeB] = owner /\ role'[NodeB] = InitialRole(IF owner = "flags" THEN NodeB ELSE owner)
        BY <1>0, <1>2, <1>11 DEF TypeOK
      <4>2. owner \in Manager \cup {"flags"} BY <1>0, <1>2, <1>11, OpenedType DEF TypeOK
      <4>3. owner # "flags" => owner # NodeA BY <3>3, <4>1 DEF InitialRole
      <4> QED BY <4>1, <4>2, <4>3 DEF Manager
    <3>5. \A s \in Slot[NodeB] : CallFollows(s)' BY <2>2 DEF CallFollows, Idle
    <3>6. db[NodeB].kind = "whole" => db'[NodeB].kind = "whole" /\ db'[NodeB].log = db[NodeB].log
      BY <1>0, <2>1, OpenedType DEF TypeOK
    <3>7. db[NodeB].kind = "empty" => db'[NodeB].kind = "whole" /\ db'[NodeB].log = {}
      BY <2>1 DEF Opened, NewDatabase
    <3>8. db[NodeB].kind = "cut" => db'[NodeB].kind = "cut" BY <2>1 DEF Opened
    <3>9. db'[NodeA].log = 1..writes' /\ 0 < db'[NodeA].tx
      BY <1>1, <2>1, <3>2 DEF StandbyFollows, Follows, PrimaryFollows
    <3>10. Initial({})
      <4>1. {} = 1..0 /\ 0 \in Nat OBVIOUS
      <4> QED BY <4>1 DEF Initial
    <3>11. \/ db'[NodeB].kind = "whole" /\ Taken(db[NodeB].log)' /\ Numbers(lastTxID[NodeB], db[NodeB].log)'
           \/ db'[NodeB].kind \in {"cut", "empty"} /\ faults' > 0
      <4>1. CASE db[NodeB].kind = "whole"
        BY <1>5, <2>1, <3>2, <3>6, <3>9, <4>1 DEF StandbyFollows, Taken, Numbers
      <4>2. CASE db[NodeB].kind = "empty"
        <5>1. Taken(db[NodeB].log)' BY <3>7, <3>10, <4>2 DEF Taken
        <5>2. Numbers(lastTxID[NodeB], db[NodeB].log)' BY <1>5, <2>1, <3>9 DEF Numbers
        <5> QED BY <3>7, <4>2, <5>1, <5>2
      <4>3. CASE db[NodeB].kind = "cut" BY <1>1, <1>3, <3>8, <4>3
      <4> QED BY <3>2, <4>1, <4>2, <4>3 DEF StandbyFollows
    <3>12. lastTxID'[NodeB] <= db'[NodeA].tx BY <1>5, <2>1
    <3>13. StandbyFollows' BY <3>3, <3>4, <3>5, <3>9, <3>11, <3>12 DEF StandbyFollows
    <3> QED BY <3>6, <3>13
  <2>4. Moves
    <3>1. ~GivenUp /\ ~GivenUp' => db[NodeB].log \subseteq db'[NodeB].log
      <4> SUFFICES ASSUME ~GivenUp, ~GivenUp' PROVE db[NodeB].log \subseteq db'[NodeB].log OBVIOUS
      <4>1. roleChanges' = 0 /\ roleChanges = 0 /\ db[NodeB].kind \notin {"cut", "empty"}
        BY <1>3 DEF GivenUp, TypeOK
      <4>2. db[NodeB].kind = "whole" BY <4>1 DEF Follows, StandbyFollows
      <4> QED BY <2>3, <4>1, <4>2
    <3> QED BY <1>1, <1>3, <2>1, <3>1 DEF Moves
  <2> QED BY <1>4, <1>9, <2>3, <2>4 DEF Follows
<1> QED BY <1>10, <1>11 DEF Manager

\* With one call under way, what it does is all that happens to the standby.
LEMMA CallSteps ==
    ASSUME TypeOK, TypeOK', Follows, OneAtATime, roleChanges = 0,
           NEW s \in Slot[NodeB], syncOnce(NodeB, s), PrimaryFollows',
           db'[NodeA] = db[NodeA], role' = role, haConfig' = haConfig, writes' = writes,
           roleChanges' = roleChanges, faults' >= faults
    PROVE  StandbyFollows' /\ Moves
<1>0. NodeA \in Manager /\ NodeB \in Manager /\ NodeA # NodeB /\ Peer(NodeB) = NodeA
      /\ NodeA # "flags"
  BY ManagersDiffer DEF Manager, Peer
<1> DEFINE c == call[NodeB][s]
<1>1. StandbyFollows /\ role'[NodeB] = "standby" /\ haConfig'[NodeB] \in {"flags", NodeB}
      /\ db'[NodeA].log = 1..writes'
  BY DEF Follows, StandbyFollows
<1>2. c \in Call /\ CallFollows(s) /\ \A t \in Slot[NodeB] : t = s
  BY <1>0, <1>1 DEF TypeOK, StandbyFollows, OneAtATime
<1>3. /\ db[NodeA] \in Database /\ db[NodeA].tx \in Nat /\ 0 < db[NodeA].tx /\ lastTxID[NodeB] \in Nat
      /\ faults \in Nat /\ faults' \in Nat /\ db[NodeA].kind = "whole"
  <2>1. db[NodeA] \in Database /\ 0 < db[NodeA].tx BY <1>0, WholeIsDatabase DEF Follows, PrimaryFollows, TypeOK
  <2> QED BY <1>0, <2>1, BoundsType DEF Database, TypeOK, Follows, PrimaryFollows
<1>4. TxIDs(db[NodeA]) = {db[NodeA].tx} /\ Exports(db[NodeA]) = {db[NodeA]} BY <1>3 DEF TxIDs, Exports
<1>5. Idle.stage = "idle" BY DEF Idle
<1>6. \A d : SetCall(NodeB, s, d) => call'[NodeB][s] = d BY <1>0 DEF SetCall, TypeOK
\* The steps that take the call on leave the standby's content alone.
<1>7. ASSUME db'[NodeB] = db[NodeB], lastTxID' = lastTxID, CallFollows(s)' PROVE StandbyFollows' /\ Moves
  <2>1. \/ db'[NodeB].kind = "whole" /\ Taken(db[NodeB].log)' /\ Numbers(lastTxID[NodeB], db[NodeB].log)'
        \/ db'[NodeB].kind \in {"cut", "empty"} /\ faults' > 0
    BY <1>1, <1>3, <1>7 DEF StandbyFollows, Taken, Numbers
  <2>2. StandbyFollows' BY <1>1, <1>2, <1>7, <2>1 DEF StandbyFollows
  <2> QED BY <1>7, <2>2 DEF Moves, SameCopy
<1>8. ASSUME NEW f, NEW t \in Nat, Came(f, t), db'[NodeB] = db[NodeB], lastTxID' = lastTxID PROVE Came(f, t)'
  BY <1>3, <1>8 DEF Came, Taken, Numbers
<1>9. CASE SyncStarts(NodeB, s)
  <2>1. Source(NodeB) = NodeA BY <1>0, <1>1 DEF Source, StandbyFollows
  <2>2. /\ call'[NodeB][s] = [stage |-> "asked", from |-> NodeA, etag |-> lastTxID[NodeB]]
        /\ db' = db /\ lastTxID' = lastTxID
    BY <1>6, <1>9, <2>1 DEF SyncStarts
  <2>3. CallFollows(s)' BY <2>2 DEF CallFollows
  <2> QED BY <1>7, <2>2, <2>3
<1>10. CASE NotModified(NodeB, s) \/ SkipsReload(NodeB, s) \/ AnswerFails(NodeB, s) \/ RenameFails(NodeB, s)
  <2>1. call'[NodeB][s].stage \in {"idle", "unmodified"}
    BY <1>5, <1>6, <1>10 DEF NotModified, SkipsReload, AnswerFails, RenameFails
  <2>2. CallFollows(s)' BY <2>1 DEF CallFollows
  <2> QED BY <1>7, <1>10, <2>2 DEF NotModified, SkipsReload, AnswerFails, RenameFails
<1>11. CASE TxIDRead(NodeB, s)
  <2>1. c.from = NodeA /\ c.etag = lastTxID[NodeB] BY <1>2, <1>11 DEF TxIDRead, CallFollows
  <2>2. PICK tx \in TxIDs(db[NodeA]) :
          (tx = 0 \/ tx # c.etag) /\ SetCall(NodeB, s, [stage |-> "answered", from |-> NodeA, header |-> tx])
    BY <1>11, <2>1 DEF TxIDRead
  <2>3. tx = db[NodeA].tx /\ lastTxID[NodeB] < tx
    BY <1>1, <1>3, <1>4, <2>1, <2>2 DEF StandbyFollows
  <2>4. call'[NodeB][s] = [stage |-> "answered", from |-> NodeA, header |-> tx] BY <1>6, <2>2
  <2>5. db' = db /\ lastTxID' = lastTxID BY <1>11 DEF TxIDRead
  <2>6. CallFollows(s)' BY <1>3, <2>3, <2>4, <2>5 DEF CallFollows
  <2> QED BY <1>7, <2>5, <2>6
<1>12. CASE ExportSnapshot(NodeB, s) \/ ExportFails(NodeB, s)
  <2>1. c.from = NodeA /\ c.header \in Nat /\ lastTxID[NodeB] < c.header /\ c.header <= db[NodeA].tx
    BY <1>2, <1>12, StageType DEF ExportSnapshot, ExportFails, CallFollows
  <2>2. db' = db /\ lastTxID' = lastTxID BY <1>12 DEF ExportSnapshot, ExportFails
  <2> DEFINE d(body) == [stage |-> "exported", from |-> c.from, header |-> c.header, snapshot |-> body]
  <2>3. PICK body : call'[NodeB][s] = d(body) /\ (body = db[NodeA] \/ (body \in {Cut, Empty} /\ faults' > 0))
    <3>1. CASE ExportSnapshot(NodeB, s)
      <4>1. Sent(NodeB, s, db[NodeA]) BY <1>4, <2>1, <3>1 DEF ExportSnapshot
      <4>2. call'[NodeB][s] = d(db[NodeA]) BY <1>6, <4>1 DEF Sent
      <4> QED BY <4>2
    <3>2. CASE ExportFails(NodeB, s)
      <4>1. faults' > 0 BY <1>3, <3>2 DEF ExportFails
      <4>2. PICK body \in {Cut, Empty} : Sent(NodeB, s, body) BY <3>2 DEF ExportFails
      <4>3. call'[NodeB][s] = d(body) BY <1>6, <4>2 DEF Sent
      <4> QED BY <4>1, <4>2, <4>3
    <3> QED BY <1>12, <3>1, <3>2
  <2>4. call'[NodeB][s] = [stage |-> "exported", from |-> c.from, header |-> c.header, snapshot |-> body]
    BY <2>3
  <2>5. Came(body, c.header)'
    <3>1. CASE body = db[NodeA]
      <4>1. Initial(db[NodeA].log)
        <5>1. db[NodeA].log = 1..writes /\ writes \in Nat BY <1>1, BoundsType DEF StandbyFollows, TypeOK
        <5> QED BY <5>1 DEF Initial
      <4>2. db[NodeB].kind = "whole" => db[NodeB].log \subseteq db[NodeA].log BY <1>1 DEF StandbyFollows, Taken
      <4>3. c' \in {c, c'} /\ body.kind = "whole" BY <1>3, <3>1
      <4>4. Taken(body.log)' BY <2>2, <3>1, <4>1, <4>2 DEF Taken
      <4> HIDE DEF c
      <4>5. lastTxID'[NodeB] < c.header /\ c.header <= db'[NodeA].tx BY <2>1, <2>2
      <4>6. c.header <= db'[NodeA].tx /\ (c.header = db'[NodeA].tx => body.log = db'[NodeA].log)
        BY <2>1, <2>2, <3>1
      <4>7. c'.header = c.header BY <2>4 DEF c
      <4> QED BY <4>3, <4>4, <4>5, <4>6, <4>7 DEF Came, Numbers
    <3>2. CASE body \in {Cut, Empty} /\ faults' > 0
      <4>1. body.kind \in {"cut", "empty"} BY <3>2 DEF Cut, Empty
      <4>2. c'.header = c.header BY <2>4
      <4> HIDE DEF c
      <4> QED BY <2>1, <2>2, <3>2, <4>1, <4>2 DEF Came
    <3> QED BY <2>3, <3>1, <3>2
  <2>6. CallFollows(s)' BY <2>4, <2>5 DEF CallFollows
  <2> QED BY <1>7, <2>2, <2>6
<1>13. CASE OpenTmp(NodeB, s)
  <2> DEFINE d == [stage |-> "copying", from |-> c.from, header |-> c.header, snapshot |-> c.snapshot, file |-> "tmp"]
  <2>1. c.header \in Nat /\ Came(c.snapshot, c.header)
    BY <1>2, <1>13, StageType DEF OpenTmp, CallFollows
  <2>2. call'[NodeB][s] = d /\ db' = db /\ lastTxID' = lastTxID /\ tmp'[NodeB] = Partial(s)
    BY <1>0, <1>6, <1>13 DEF OpenTmp, TypeOK
  <2>3. c'.header = c.header /\ c'.snapshot = c.snapshot /\ c'.stage = "copying" /\ c'.file = "tmp" BY <2>2
  <2>4. Came(c.snapshot, c.header)'
    <3> HIDE DEF c
    <3> QED BY <1>8, <2>1, <2>2, <2>3
  <2>5. CallFollows(s)' BY <2>2, <2>3, <2>4 DEF CallFollows
  <2> QED BY <1>7, <2>2, <2>5
<1>14. CASE Copied(NodeB, s)
  <2>1. c.header \in Nat /\ Came(c.snapshot, c.header) /\ c.file = "tmp" /\ tmp[NodeB] = Partial(s)
    BY <1>2, <1>14, StageType DEF Copied, CallFollows
  <2>2. call'[NodeB][s] = [stage |-> "copied", header |-> c.header] /\ lastTxID' = lastTxID
    BY <1>6, <1>14 DEF Copied
  <2>3. db'[NodeB] = db[NodeB] /\ tmp'[NodeB] = c.snapshot
    BY <1>0, <1>14, <2>1 DEF Copied, Filled, TypeOK
  <2>4. c'.header = c.header BY <2>2
  <2>5. Came(tmp[NodeB], c.header)'
    <3>1. \A f : Came(f, c.header) => Came(f, c.header)'
      <4> HIDE DEF c
      <4> QED BY <1>8, <2>1, <2>2, <2>3, <2>4
    <3> HIDE DEF c
    <3> QED BY <2>1, <2>2, <2>3, <2>4, <3>1 DEF Came, Taken, Numbers
  <2>6. CallFollows(s)' BY <2>2, <2>5 DEF CallFollows
  <2> QED BY <1>7, <2>2, <2>3, <2>6
<1>15. ASSUME c.stage \in {"copied", "verified"}
       PROVE  c.header \in Nat /\ Came(tmp[NodeB], c.header) /\ tmp[NodeB] # NoFile
              /\ tmp[NodeB].kind \in {"whole", "cut", "empty"}
  BY <1>2, <1>15, StageType DEF CallFollows, Came, NoFile
<1>16. CASE Verified(NodeB, s)
  <2>1. c.header \in Nat /\ Came(tmp[NodeB], c.header) /\ tmp[NodeB] # NoFile
    BY <1>15, <1>16 DEF Verified
  <2>2. /\ call'[NodeB][s] = [stage |-> "verified", header |-> c.header]
        /\ db' = db /\ lastTxID' = lastTxID /\ tmp'[NodeB] = tmp[NodeB]
    BY <1>0, <1>6, <1>16, <2>1 DEF Verified, TypeOK
  <2>3. c'.header = c.header BY <2>2
  <2>4. Came(tmp[NodeB], c.header)'
    <3> HIDE DEF c
    <3> QED BY <1>8, <2>1, <2>2, <2>3 DEF Came, Taken, Numbers
  <2>5. CallFollows(s)' BY <2>2, <2>4 DEF CallFollows
  <2> QED BY <1>7, <2>2, <2>5
<1>17. CASE Rejected(NodeB, s) \/ CopyFails(NodeB, s)
  <2>1. call'[NodeB][s] = Idle /\ db' = db /\ lastTxID' = lastTxID
    BY <1>0, <1>17 DEF Rejected, CopyFails, Abandons, TypeOK
  <2>2. CallFollows(s)' BY <1>5, <2>1 DEF CallFollows
  <2> QED BY <1>7, <2>1, <2>2
<1>18. CASE Swapped(NodeB, s) \/ ReopenFails(NodeB, s)
  <2>1. c.header \in Nat /\ Came(tmp[NodeB], c.header)
    BY <1>15, <1>18 DEF Swapped, ReopenFails, Replaced
  <2>2. /\ call'[NodeB][s] \in {Idle, [stage |-> "swapped", header |-> c.header]}
        /\ lastTxID' = lastTxID /\ db'[NodeB] = tmp[NodeB] /\ faults' = faults
    BY <1>0, <1>18 DEF Swapped, ReopenFails, Replaced, TypeOK, bounds
  <2>3. 0 < c.header /\ c.header <= db[NodeA].tx /\ lastTxID[NodeB] < db[NodeA].tx
    BY <1>3, <2>1 DEF Came
  <2>4. CASE tmp[NodeB].kind = "whole"
    <3>1. Taken(tmp[NodeB].log) /\ Numbers(c.header, tmp[NodeB].log) BY <2>1, <2>4 DEF Came
    <3>2. Taken(db[NodeB].log)' BY <2>2, <2>4, <3>1 DEF Taken
    <3>3. Numbers(lastTxID[NodeB], db[NodeB].log)' BY <1>3, <2>2, <2>3 DEF Numbers
    <3>4. c.header <= db'[NodeA].tx /\ (c.header = db'[NodeA].tx => db'[NodeB].log = db'[NodeA].log)
      BY <2>2, <3>1 DEF Numbers
    <3>5. CallFollows(s)' BY <1>5, <2>2, <2>3, <3>4 DEF CallFollows, Numbers
    <3>6. StandbyFollows'
      BY <1>1, <1>2, <1>3, <2>2, <2>3, <2>4, <3>2, <3>3, <3>5 DEF StandbyFollows
    <3>7. ~GivenUp' BY <2>2, <2>4 DEF GivenUp
    <3>8. ~GivenUp => db[NodeB].log \subseteq db'[NodeB].log
      BY <1>1, <2>2, <3>1 DEF GivenUp, StandbyFollows, Taken
    <3> QED BY <2>2, <3>6, <3>7, <3>8 DEF Moves
  <2>5. CASE tmp[NodeB].kind \in {"cut", "empty"} /\ faults > 0
    <3>1. CallFollows(s)' BY <1>5, <2>2, <2>3, <2>5 DEF CallFollows
    <3>2. StandbyFollows'
      BY <1>1, <1>2, <1>3, <2>2, <2>3, <2>5, <3>1 DEF StandbyFollows
    <3>3. GivenUp' BY <2>2, <2>5 DEF GivenUp
    <3> QED BY <2>2, <2>5, <3>2, <3>3 DEF Moves
  <2> QED BY <2>1, <2>4, <2>5 DEF Came
<1>19. CASE SyncFinishes(NodeB, s)
  <2>1. /\ c.header \in Nat /\ 0 < c.header /\ c.header <= db[NodeA].tx
        /\ db[NodeB].kind = "whole" => Numbers(c.header, db[NodeB].log)
    BY <1>2, <1>19, StageType DEF SyncFinishes, CallFollows
  <2>2. call'[NodeB][s] = Idle /\ db' = db /\ lastTxID'[NodeB] = c.header /\ roleChanges' = roleChanges
    BY <1>0, <1>6, <1>19, <2>1 DEF SyncFinishes, TypeOK
  <2>3. CallFollows(s)' BY <1>5, <2>2 DEF CallFollows
  <2>4. \/ db'[NodeB].kind = "whole" /\ Taken(db[NodeB].log)' /\ Numbers(lastTxID[NodeB], db[NodeB].log)'
        \/ db'[NodeB].kind \in {"cut", "empty"} /\ faults' > 0
    BY <1>1, <1>3, <2>1, <2>2 DEF StandbyFollows, Taken, Numbers
  <2>5. StandbyFollows' BY <1>1, <1>2, <2>1, <2>2, <2>3, <2>4 DEF StandbyFollows
  <2> QED BY <2>2, <2>5 DEF Moves, SameCopy
<1> QED BY <1>9, <1>10, <1>11, <1>12, <1>13, <1>14, <1>16, <1>17, <1>18, <1>19 DEF syncOnce

LEMMA SyncFollows ==
    ASSUME TypeOK, TypeOK', Follows, OneAtATime, NEW m \in Manager, NEW s \in Slot[m], syncOnce(m, s)
    PROVE  Follows' /\ Moves
<1>0. NodeA \in Manager /\ NodeB \in Manager /\ NodeA # NodeB BY ManagersDiffer DEF Manager
<1>1. m = NodeB
  <2>1. SUFFICES ASSUME m = NodeA PROVE FALSE BY DEF Manager
  <2>2. call[m][s].stage = "idle" /\ role[m] # "standby"
    BY <1>0, <2>1 DEF Follows, PrimaryFollows, Idle
  <2> QED BY <2>1, <2>2
      DEF syncOnce, SyncStarts, MayStart, NotModified, TxIDRead, ExportSnapshot, ExportFails, SkipsReload, OpenTmp,
          Copied, Verified, Rejected, Swapped, ReopenFails, Replaced, RenameFails, SyncFinishes, AnswerFails,
          CopyFails
<1>2. /\ db'[NodeA] = db[NodeA] /\ call'[NodeA] = call[NodeA] /\ role' = role /\ writes' = writes
      /\ up' = up /\ haConfig' = haConfig /\ roleChanges' = roleChanges /\ faults' \in {faults, faults + 1}
  BY <1>0, <1>1 DEF TypeOK, SetCall, syncOnce, SyncStarts, NotModified, TxIDRead, ExportSnapshot, ExportFails,
        Sent, SkipsReload, OpenTmp, Copied, Verified, Rejected, Abandons, Swapped, ReopenFails, Replaced,
        RenameFails, SyncFinishes, AnswerFails, CopyFails, bounds
<1>3. faults \in Nat BY BoundsType DEF TypeOK
<1>4. PrimaryFollows' BY <1>2 DEF Follows, PrimaryFollows
<1>5. up[NodeB]
  <2>1. SUFFICES ASSUME ~up[NodeB] PROVE FALSE OBVIOUS
  <2>2. call[NodeB][s].stage = "idle" BY <1>1, <2>1 DEF Follows, FailedBefore, Idle
  <2> QED BY <1>1, <2>1, <2>2
      DEF syncOnce, SyncStarts, NotModified, TxIDRead, ExportSnapshot, ExportFails, SkipsReload, OpenTmp,
          Copied, Verified, Rejected, Swapped, ReopenFails, Replaced, RenameFails, SyncFinishes, AnswerFails,
          CopyFails
<1>6. FailedBefore' BY <1>2, <1>3, <1>5 DEF Follows, FailedBefore
<1>7. CASE roleChanges = 0
  <2>1. StandbyFollows' /\ Moves BY <1>1, <1>2, <1>3, <1>4, <1>7, CallSteps
  <2> QED BY <1>4, <1>6, <2>1 DEF Follows
<1>8. CASE roleChanges # 0
  <2>1. roleChanges > 0 BY <1>8 DEF TypeOK
  <2>2. GivenUp /\ GivenUp' /\ faults > 0 BY <1>2, <2>1 DEF GivenUp, Follows, FailedBefore
  <2>3. Moves
    <3>1. CASE faults' = faults BY <1>2, <2>2, <3>1 DEF Moves
    <3>2. CASE faults' # faults
      <4>1. ExportFails(m, s) \/ AnswerFails(m, s)
        BY <3>2 DEF syncOnce, SyncStarts, NotModified, TxIDRead, ExportSnapshot, SkipsReload, OpenTmp, Copied,
              Verified, Rejected, Abandons, Swapped, ReopenFails, Replaced, RenameFails, SyncFinishes, CopyFails,
              bounds
      <4>2. db' = db BY <4>1 DEF ExportFails, AnswerFails
      <4> QED BY <1>2, <1>3, <4>2 DEF Moves, SameCopy
    <3> QED BY <3>1, <3>2
  <2> QED BY <1>2, <1>4, <1>6, <1>8, <2>3 DEF Follows
<1> QED BY <1>7, <1>8

LEMMA StepFollows ==
    ASSUME TypeOK, Follows, RolesStay, OneAtATime, [Next]_vars
    PROVE  Follows' /\ Moves
<1>1. TypeOK' BY StepType
<1>2. CASE UNCHANGED vars
  <2>1. /\ role' = role /\ db' = db /\ tmp' = tmp /\ call' = call /\ lastTxID' = lastTxID /\ up' = up
        /\ haConfig' = haConfig /\ writes' = writes /\ roleChanges' = roleChanges /\ faults' = faults
    BY <1>2 DEF vars, bounds
  <2>2. faults \in Nat BY BoundsType DEF TypeOK
  <2>3. Moves BY <2>1, <2>2 DEF Moves, SameCopy
  <2>4. Follows'
    BY <2>1 DEF Follows, PrimaryFollows, FailedBefore, StandbyFollows, CallFollows, Came, Taken, Numbers
  <2> QED BY <2>3, <2>4
<1>3. ASSUME NEW m \in Manager, RoleChanges(m) PROVE FALSE
  BY <1>3 DEF RoleChanges, RolesStay, TypeOK
<1> QED BY <1>1, <1>2, <1>3, WriteFollows, CrashFollows, RestartFollows, SyncFollows DEF Next, RolesStay

\* A content of the primary is numbered by its writes.
LEMMA VersionIs ==
    ASSUME NEW d \in Database, NEW n \in Nat, d.log = 1..n
    PROVE  Cardinality(d.log) = n /\ Version(d) = n
<1>1. Cardinality(1..n) = n BY FS_Interval
<1> QED BY <1>1 DEF Version, Database

LEMMA Nested == ASSUME NEW i \in Nat, NEW j \in Nat, 1..i \subseteq 1..j PROVE i <= j
<1>1. CASE i = 0 BY <1>1
<1>2. CASE i > 0
  <2>1. i \in 1..i BY <1>2
  <2> QED BY <2>1
<1> QED BY <1>1, <1>2

\* What the copy of the abstract replication is.
Replica == IF GivenUp THEN MaxWrites + 2 ELSE Version(db[NodeB])

ReplicaOK ==
    /\ Cardinality(db[NodeA].log) \in Nat /\ IsFiniteSet(db[NodeA].log)
    /\ Cardinality(db[NodeA].log) <= writes
    /\ ~GivenUp => \E k \in Nat : /\ Replica = k /\ db[NodeB].log = 1..k
                                  /\ k <= Cardinality(db[NodeA].log)

LEMMA ReplicaIs == TypeOK /\ Follows => ReplicaOK
<1> SUFFICES ASSUME TypeOK, Follows PROVE ReplicaOK OBVIOUS
<1>0. NodeA \in Manager /\ NodeB \in Manager BY DEF Manager
<1>1. writes \in Nat BY DEF TypeOK
<1>2. IsFiniteSet(1..writes) /\ Cardinality(1..writes) = writes BY <1>1, FS_Interval
<1>3. db[NodeA].log \subseteq 1..writes BY DEF Follows, PrimaryFollows
<1>4. IsFiniteSet(db[NodeA].log) /\ Cardinality(db[NodeA].log) <= writes /\ Cardinality(db[NodeA].log) \in Nat
  BY <1>2, <1>3, FS_Subset, FS_CardinalityType
<1>5. ASSUME ~GivenUp
      PROVE  \E k \in Nat : Replica = k /\ db[NodeB].log = 1..k /\ k <= Cardinality(db[NodeA].log)
  <2>1. StandbyFollows /\ db[NodeB].kind = "whole"
    BY <1>5 DEF GivenUp, Follows, StandbyFollows, TypeOK
  <2>2. db[NodeB] \in Database BY <1>0, <2>1, WholeIsDatabase DEF TypeOK
  <2>3. PICK k \in Nat : db[NodeB].log = 1..k BY <2>1 DEF StandbyFollows, Taken, Initial
  <2>4. db[NodeA].log = 1..writes /\ 1..k \subseteq 1..writes BY <2>1, <2>3 DEF StandbyFollows, Taken
  <2>5. k <= writes BY <1>1, <2>4, Nested
  <2>6. Replica = k BY <1>5, <2>2, <2>3, VersionIs DEF Replica
  <2> QED BY <1>2, <2>3, <2>4, <2>5, <2>6
<1> QED BY <1>4, <1>5 DEF ReplicaOK

LEMMA StepOfTheCopy ==
    ASSUME TypeOK, TypeOK', Follows, Follows', Moves
    PROVE  [Copy!Next]_<<Cardinality(db[NodeA].log), Replica, faults > 0>>
<1> DEFINE p == Cardinality(db[NodeA].log)
<1>0. NodeA \in Manager /\ NodeB \in Manager /\ writes \in Nat /\ writes' \in 0..MaxWrites /\ faults \in Nat
      /\ MaxWrites \in Nat
  BY BoundsType DEF Manager, TypeOK
<1>1. /\ p \in Nat /\ IsFiniteSet(db[NodeA].log) /\ p <= writes
      /\ ~GivenUp => \E k \in Nat : Replica = k /\ db[NodeB].log = 1..k /\ k <= p
  BY ReplicaIs DEF ReplicaOK
<1>9. ReplicaOK' BY ReplicaIs, PTL
<1>2. /\ p' \in Nat /\ p' <= writes'
      /\ ~GivenUp' => \E k \in Nat : Replica' = k /\ db'[NodeB].log = 1..k /\ k <= p'
  BY <1>9 DEF ReplicaOK
<1>3. GivenUp => Replica = MaxWrites + 2 BY DEF Replica
<1>4. GivenUp' => Replica' = MaxWrites + 2 BY DEF Replica
<1>5. ASSUME SameCopy PROVE Replica' = Replica
  <2>1. GivenUp' = GivenUp BY <1>5 DEF SameCopy, GivenUp
  <2>2. CASE GivenUp BY <1>3, <1>4, <2>1, <2>2
  <2>3. CASE ~GivenUp
    <3>1. db[NodeB].kind = "whole" BY <2>3 DEF GivenUp, Follows, StandbyFollows, TypeOK
    <3>2. PICK k \in Nat : Replica = k /\ db[NodeB].log = 1..k BY <1>1, <2>3
    <3>3. PICK l \in Nat : Replica' = l /\ db'[NodeB].log = 1..l BY <1>2, <2>1, <2>3
    <3>4. k <= l /\ l <= k BY <1>5, <3>1, <3>2, <3>3, Nested DEF SameCopy
    <3> QED BY <3>2, <3>3, <3>4
  <2> QED BY <2>2, <2>3
<1>6. CASE /\ db'[NodeA].log = db[NodeA].log \cup {writes + 1} /\ writes' = writes + 1
           /\ SameCopy /\ faults' = faults
  <2>1. writes + 1 \notin db[NodeA].log BY <1>0 DEF Follows, PrimaryFollows
  <2>2. p' = p + 1 BY <1>1, <1>6, <2>1, FS_AddElement
  <2>3. p < MaxWrites BY <1>0, <1>1, <1>6
  <2> QED BY <1>5, <1>6, <2>2, <2>3 DEF Copy!Next, Copy!Write, Replica
<1>7. CASE db'[NodeA].log = db[NodeA].log /\ SameCopy /\ faults' >= faults
  <2>1. p' = p /\ Replica' = Replica BY <1>5, <1>7
  <2>2. CASE faults' > 0 BY <2>1, <2>2 DEF Copy!Next, Copy!Fail, Replica
  <2>3. CASE ~(faults' > 0)
    <3>1. ~(faults > 0) BY <1>0, <1>7, <2>3 DEF TypeOK
    <3> QED BY <2>1, <2>3, <3>1 DEF Replica
  <2> QED BY <2>2, <2>3
<1>8. CASE /\ db'[NodeA].log = db[NodeA].log /\ faults' = faults
           /\ GivenUp' => faults > 0
           /\ ~GivenUp /\ ~GivenUp' => db[NodeB].log \subseteq db'[NodeB].log
  <2>1. p' = p /\ (faults' > 0) = (faults > 0) BY <1>8
  <2>2. CASE GivenUp' BY <1>4, <1>8, <2>1, <2>2 DEF Copy!Next, Copy!Lose, Replica
  <2>3. CASE ~GivenUp'
    <3>1. PICK l \in Nat : Replica' = l /\ db'[NodeB].log = 1..l /\ l <= p BY <1>2, <2>1, <2>3
    <3>2. Replica' \in (IF Replica = MaxWrites + 2 THEN 0 ELSE Replica)..p
      <4>1. CASE GivenUp BY <1>1, <1>3, <3>1, <4>1
      <4>2. CASE ~GivenUp
        <5>1. PICK k \in Nat : Replica = k /\ db[NodeB].log = 1..k BY <1>1, <4>2
        <5>2. k <= l BY <1>8, <2>3, <3>1, <4>2, <5>1, Nested
        <5> QED BY <1>1, <3>1, <5>1, <5>2
      <4> QED BY <4>1, <4>2
    <3> QED BY <2>1, <3>2 DEF Copy!Next, Copy!Refresh, Replica
  <2> QED BY <2>2, <2>3
<1> QED BY <1>6, <1>7, <1>8 DEF Moves

\* As long as the roles stay put and calls do not overlap, for any number of
\* writes, saved settings, crashes, failed downloads and failed exports: the
\* standby holds a whole content the active manager once had, and never goes back
\* to an older one; only a failed export, or a restart that changes its role,
\* makes it give up its copy.
THEOREM StandbyFollowsActive ==
    ASSUME RolesStay, OneAtATime
    PROVE  Spec => StandbyIsAPastActive
<1>1. Init => TypeOK /\ Follows BY InitType, InitFollows
<1>2. TypeOK /\ Follows /\ [Next]_vars => TypeOK' /\ Follows' BY StepType, StepFollows
<1>3. Init => Copy!Init
  <2> SUFFICES ASSUME Init PROVE Copy!Init OBVIOUS
  <2>1. db[NodeA] \in Database /\ db[NodeB] \in Database /\ db[NodeA].log = 1..0 /\ db[NodeB].log = 1..0
        /\ db[NodeB].kind = "whole" /\ roleChanges = 0 /\ faults = 0
    BY DEF Init, NewDatabase, Database, Manager
  <2>2. 0 \in Nat OBVIOUS
  <2>3. Cardinality(db[NodeA].log) = 0 /\ Version(db[NodeB]) = 0 BY <2>1, <2>2, VersionIs
  <2>4. ~GivenUp BY <2>1 DEF GivenUp
  <2> QED BY <2>1, <2>3, <2>4 DEF Copy!Init
<1>4. TypeOK /\ Follows /\ [Next]_vars =>
        [Copy!Next]_<<Cardinality(db[NodeA].log), Replica, faults > 0>>
  BY StepType, StepFollows, StepOfTheCopy
<1> QED BY <1>1, <1>2, <1>3, <1>4, PTL DEF Spec, StandbyIsAPastActive, Copy!Spec, Replica

\* Under the same conditions an answer 304 is given to a standby with a whole
\* store only when the two stores hold the same: a transaction number the standby
\* remembers never stands for an older content than the one it was noted with.
THEOREM UnchangedMeansSame ==
    ASSUME RolesStay, OneAtATime
    PROVE  Spec => NotModifiedMeansSame
<1>1. Init => TypeOK /\ Follows BY InitType, InitFollows
<1>2. TypeOK /\ Follows /\ [Next]_vars => TypeOK' /\ Follows' BY StepType, StepFollows
<1>3. ASSUME TypeOK, Follows, NEW m \in Manager, NEW s \in Slot[m], NotModified(m, s),
             roleChanges = 0, db[m].kind = "whole"
      PROVE  db[m].log = db[call[m][s].from].log
  <2>1. m = NodeB
    BY <1>3 DEF NotModified, Follows, PrimaryFollows, Idle, Manager
  <2>2. call[NodeB][s].from = NodeA /\ call[NodeB][s].etag = lastTxID[NodeB]
    BY <1>3, <2>1 DEF Follows, StandbyFollows, CallFollows, NotModified
  <2>3. TxIDs(db[NodeA]) = {db[NodeA].tx} BY <1>3 DEF TxIDs, Follows, PrimaryFollows
  <2>4. Numbers(lastTxID[NodeB], db[NodeB].log) BY <1>3, <2>1 DEF Follows, StandbyFollows
  <2> QED BY <1>3, <2>1, <2>2, <2>3, <2>4 DEF NotModified, Numbers
<1>4. TypeOK /\ Follows /\ [Next]_vars =>
        [\A m \in Manager : \A s \in Slot[m] :
            NotModified(m, s) /\ roleChanges = 0 /\ db[m].kind = "whole"
                => db[m].log = db[call[m][s].from].log]_vars
  BY <1>3
<1> QED BY <1>1, <1>2, <1>4, PTL DEF Spec, NotModifiedMeansSame

-----------------------------------------------------------------------------
(* Settings *)

\* The goroutines are counted against the updates that started them.
Counted == ReconfigTypeOK /\ loops <= updates + 1 /\ oneShots <= updates

LEMMA VipOperators ==
    ASSUME NEW v \in VipState, NEW a \in Vips \cup {NoVip}, NEW f \in SUBSET Command
    PROVE  /\ Bind(v, a, f) \in VipState
           /\ Release(v, a, f) \in VipState
           /\ a # NoVip => Bind(v, a, f).active
           /\ v.active => Bind(v, a, f).active
BY DEF Bind, Release, VipState, Command

LEMMA SettingsFacts ==
    ASSUME NEW s \in Settings
    PROVE  s.vip \in Vips \cup {NoVip} /\ StartRole(s) \in {"active", "standby"}
BY DEF Vips, StartRole

LEMMA StartFacts ==
    ASSUME NEW s \in Settings, NEW v \in VipState, NEW f \in SUBSET Command
    PROVE  /\ StartVip(s, v, f) \in VipState
           /\ s.mode # "standalone" /\ StartRole(s) = "active" /\ s.vip # NoVip => StartVip(s, v, f).active
BY SettingsFacts, VipOperators DEF StartVip

LEMMA NoAddress ==
    [active |-> FALSE, bound |-> {}, failed |-> {}] \in VipState
    /\ \A v \in VipState : [v EXCEPT !.active = FALSE] \in VipState
BY DEF VipState

LEMMA InitCounted == ReconfigInit => Counted
<1> SUFFICES ASSUME ReconfigInit PROVE Counted
  OBVIOUS
<1>1. cfg \in Settings
  BY SettingsType DEF ReconfigInit
<1>2. vip \in VipState
  BY <1>1, StartFacts, NoAddress DEF ReconfigInit
<1>3. loops \in 0..1
  BY DEF ReconfigInit, StartLoops
<1>4. MaxLimit \in Nat
  BY LimitsType DEF MaxLimit
<1> QED
  BY <1>1, <1>2, <1>3, <1>4, SettingsFacts, UpdatesType DEF ReconfigInit, Counted, ReconfigTypeOK

LEMMA UpdateFacts ==
    ASSUME Counted, NEW new \in Settings, UpdateConfig(new)
    PROVE  /\ Counted'
           /\ ActiveHoldsVip'
<1> USE DEF Counted, ReconfigTypeOK
<1>1. new.vip \in Vips \cup {NoVip} /\ NewRole(new) \in {"active", "standby"}
  BY SettingsFacts DEF NewRole
<1>0. PICK f \in SUBSET Command : vip' = NewVip(new, f)
  BY DEF UpdateConfig
<1>2. AfterVipChange(new, f) \in VipState
  BY <1>1, VipOperators DEF AfterVipChange
<1> DEFINE v == IF new.mode = "standalone" THEN Release(AfterVipChange(new, f), new.vip, f)
                                           ELSE AfterVipChange(new, f)
<1>3. v \in VipState
  BY <1>1, <1>2, VipOperators
<1>4. vip' = IF NewRole(new) = "active" /\ ~v.active THEN Bind(v, new.vip, f) ELSE v
  BY <1>0 DEF NewVip
<1> HIDE DEF v
<1>5. vip' \in VipState
  BY <1>1, <1>3, <1>4, VipOperators
<1>6. NewRole(new) = "active" /\ new.vip # NoVip => vip'.active
  BY <1>1, <1>3, <1>4, VipOperators
<1>7. MaxLimit \in Nat /\ failures' \in 0..MaxLimit
  BY LimitsType DEF MaxLimit, UpdateConfig
<1>8. /\ loops' \in 0..(MaxUpdates + 1) /\ loops' <= updates' + 1
      /\ oneShots' \in 0..MaxUpdates /\ oneShots' <= updates'
      /\ updates' \in 0..MaxUpdates
  BY SettingsType, UpdatesType DEF UpdateConfig, NewLoops
<1>9. Counted'
  BY <1>1, <1>5, <1>7, <1>8 DEF UpdateConfig
<1>10. ActiveHoldsVip'
  BY <1>6 DEF UpdateConfig, ActiveHoldsVip, Running
<1> QED BY <1>9, <1>10

LEMMA ProbeFacts ==
    ASSUME Counted, NEW limit \in {FailoverLimit, OneShotLimit}, Probe(limit)
    PROVE  /\ Counted'
           /\ ActiveHoldsVip => ActiveHoldsVip'
           /\ UNCHANGED <<cfg, loops, phase>>
<1> USE DEF Counted, ReconfigTypeOK
<1>1. cfg.vip \in Vips \cup {NoVip}
  BY SettingsFacts
<1>2. MaxLimit \in Nat /\ 0 \in 0..MaxLimit /\ Bumped \in 0..MaxLimit
  BY LimitsType DEF MaxLimit, Bumped
<1>3. UNCHANGED <<cfg, loops, phase, updates, stops>> /\ oneShots' \in 0..oneShots
  BY DEF Probe, ProbeSucceeds, ProbeFails, Failover, SelfDemotion, Probing
<1>4. failures' \in 0..MaxLimit
  BY <1>2 DEF Probe, ProbeSucceeds, ProbeFails, Failover, SelfDemotion
<1>5. \/ UNCHANGED <<ownRole, vip>>
      \/ BecomesActive
      \/ BecomesStandby
  BY DEF Probe, ProbeSucceeds, ProbeFails, Failover, SelfDemotion
<1>6. ownRole' \in {"active", "standby"} /\ vip' \in VipState
  BY <1>1, <1>5, VipOperators DEF BecomesActive, BecomesStandby
<1>7. ActiveHoldsVip => ActiveHoldsVip'
  BY <1>1, <1>3, <1>5, VipOperators
     DEF BecomesActive, BecomesStandby, ActiveHoldsVip, Running
<1>8. oneShots' \in 0..MaxUpdates /\ oneShots' <= updates'
  BY <1>3, UpdatesType
<1>9. Counted'
  BY <1>3, <1>4, <1>6, <1>8
<1> QED BY <1>3, <1>7, <1>9

LEMMA PeerSwitchFacts ==
    ASSUME Counted, PeerPromotes \/ PeerDemotes
    PROVE  /\ Counted'
           /\ ActiveHoldsVip'
           /\ UNCHANGED <<cfg, loops, phase>>
<1>1. cfg.vip \in Vips \cup {NoVip}
  BY SettingsFacts DEF Counted, ReconfigTypeOK
<1> QED
  BY <1>1, VipOperators
     DEF Counted, ReconfigTypeOK, PeerPromotes, PeerDemotes, BecomesActive, BecomesStandby,
         ActiveHoldsVip, Running

LEMMA ProcessFacts ==
    ASSUME Counted, Stop \/ LoopEnds \/ Exit \/ Boot \/ HostReboot
    PROVE  /\ Counted'
           /\ ActiveHoldsVip'
           /\ PairIsProbed'
<1> USE DEF Counted, ReconfigTypeOK
<1>1. cfg.vip \in Vips \cup {NoVip} /\ StartRole(cfg) \in {"active", "standby"}
  BY SettingsFacts
<1>2. CASE Boot
  <2>1. vip' \in VipState
    BY <1>2, StartFacts, NoAddress DEF Boot
  <2>2. loops' \in 0..1 /\ (cfg.mode # "standalone" => loops' = 1)
    BY <1>2 DEF Boot, StartLoops
  <2>3. cfg.mode # "standalone" /\ StartRole(cfg) = "active" /\ cfg.vip # NoVip => vip'.active
    BY <1>2, StartFacts, NoAddress DEF Boot
  <2>4. MaxLimit \in Nat
    BY LimitsType DEF MaxLimit
  <2> QED
    BY <1>1, <1>2, <2>1, <2>2, <2>3, <2>4, UpdatesType
       DEF Boot, ActiveHoldsVip, PairIsProbed, Running
<1>3. CASE LoopEnds
  BY <1>1, <1>3, VipOperators, UpdatesType DEF LoopEnds, ActiveHoldsVip, PairIsProbed, Running
<1>4. CASE Stop \/ Exit \/ HostReboot
  BY <1>4, UpdatesType DEF Stop, Exit, HostReboot, VipState, ActiveHoldsVip, PairIsProbed, Running
<1> QED BY <1>2, <1>3, <1>4

LEMMA NextFacts ==
    ASSUME Counted, [ReconfigNext]_reconfigVars
    PROVE  /\ Counted'
           /\ ActiveHoldsVip => ActiveHoldsVip'
           /\ PairIsProbed => PairIsProbed'
<1>1. ASSUME NEW new \in Settings, UpdateConfig(new)
      PROVE  PairIsProbed => PairIsProbed'
  BY <1>1 DEF UpdateConfig, NewLoops, PairIsProbed, Running, Counted, ReconfigTypeOK
<1>2. ASSUME UNCHANGED <<cfg, loops, phase>> PROVE PairIsProbed => PairIsProbed'
  BY <1>2 DEF PairIsProbed, Running
<1>3. CASE UNCHANGED reconfigVars
  BY <1>3 DEF reconfigVars, Counted, ReconfigTypeOK, ActiveHoldsVip, PairIsProbed, Running
<1> QED BY <1>1, <1>2, <1>3, UpdateFacts, ProbeFacts, PeerSwitchFacts, ProcessFacts DEF ReconfigNext

(* Type correctness; the loops and one-shot probes are bounded by the       *)
(* updates that started them.                                               *)
THEOREM ReconfigTypeCorrect == ReconfigSpec => []ReconfigTypeOK
<1>1. Counted /\ [ReconfigNext]_reconfigVars => Counted'
  BY NextFacts
<1>2. Counted => ReconfigTypeOK
  BY DEF Counted
<1> QED BY <1>1, <1>2, InitCounted, PTL DEF ReconfigSpec

(* Whatever the settings are changed to, and in whatever order, a manager   *)
(* of a pair has a loop that probes its peer.                               *)
THEOREM PairProbed == ReconfigSpec => []PairIsProbed
<1>1. ReconfigInit => PairIsProbed
  BY DEF ReconfigInit, PairIsProbed, StartLoops
<1>2. Counted /\ PairIsProbed /\ [ReconfigNext]_reconfigVars => Counted' /\ PairIsProbed'
  BY NextFacts
<1> QED BY <1>1, <1>2, InitCounted, PTL DEF ReconfigSpec

(* The active manager of a pair goes by holding its VIP whatever happened.  *)
THEOREM VipHeld == ReconfigSpec => []ActiveHoldsVip
<1>1. ReconfigInit => ActiveHoldsVip
  <2> SUFFICES ASSUME ReconfigInit PROVE ActiveHoldsVip
    OBVIOUS
  <2>1. cfg \in Settings /\ cfg.vip \in Vips \cup {NoVip}
    BY SettingsType, SettingsFacts DEF ReconfigInit
  <2> QED BY <2>1, StartFacts, NoAddress DEF ReconfigInit, ActiveHoldsVip
<1>2. Counted /\ ActiveHoldsVip /\ [ReconfigNext]_reconfigVars => Counted' /\ ActiveHoldsVip'
  BY NextFacts
<1> QED BY <1>1, <1>2, InitCounted, PTL DEF ReconfigSpec

-----------------------------------------------------------------------------
(* The status against the kernel: a record v of the address a tells what   *)
(* the kernel has, and binding and releasing a keep that.                  *)
Truthful(v, a) ==
    /\ v.bound \subseteq {a}
    /\ v.active /\ "add" \notin v.failed => v.bound = {a}
    /\ ~v.active /\ "del" \notin v.failed => v.bound = {}

\* Until the first stop the process runs.
VipInductive == (stops = 0 => Running) /\ VipStatusIsTrue

LEMMA TruthfulOperators ==
    ASSUME NEW v \in VipState, NEW a, NEW f, Truthful(v, a)
    PROVE  Truthful(Bind(v, a, f), a) /\ Truthful(Release(v, a, f), a)
BY DEF Truthful, Bind, Release, VipState

LEMMA VipInductiveStep ==
    ASSUME Counted, VipInductive, [ReconfigNext]_reconfigVars
    PROVE  VipInductive'
<1> DEFINE OneVip == \A s, t \in Settings : s.vip = t.vip
<1>1. (stops = 0 => Running)'
  BY DEF VipInductive, Running, ReconfigNext, reconfigVars, UpdateConfig, Probe, ProbeSucceeds, ProbeFails,
         Failover, SelfDemotion, Probing, PeerPromotes, PeerDemotes, Stop, LoopEnds, Exit,
         Boot, HostReboot, Counted, ReconfigTypeOK
<1>2. SUFFICES ASSUME stops' = 0, OneVip PROVE Truthful(vip', cfg'.vip)
  BY <1>1 DEF VipInductive, VipStatusIsTrue, Truthful
<1>3. stops = 0 /\ phase = "running"
  BY <1>2, SettingsType, UpdatesType
     DEF VipInductive, Running, ReconfigNext, reconfigVars, UpdateConfig, Probe, ProbeSucceeds, ProbeFails,
         Failover, SelfDemotion, Probing, PeerPromotes, PeerDemotes, Stop, LoopEnds, Exit,
         Boot, HostReboot, Counted, ReconfigTypeOK
<1>4. vip \in VipState /\ Truthful(vip, cfg.vip)
  BY <1>2, <1>3 DEF VipInductive, VipStatusIsTrue, Truthful, Counted, ReconfigTypeOK
<1>5. ASSUME NEW new \in Settings, UpdateConfig(new) PROVE Truthful(vip', cfg'.vip)
  <2>1. new.vip = cfg.vip /\ cfg' = new /\ \E f \in SUBSET Command : vip' = NewVip(new, f)
    BY <1>2, <1>5 DEF UpdateConfig, Counted, ReconfigTypeOK
  <2>0. PICK f \in SUBSET Command : vip' = NewVip(new, f) BY <2>1
  <2> DEFINE v == IF new.mode = "standalone" THEN Release(vip, new.vip, f) ELSE vip
  <2>2. Truthful(v, new.vip) /\ v \in VipState
    BY <1>4, <2>1, TruthfulOperators, VipOperators, SettingsFacts
  <2>3. vip' = IF NewRole(new) = "active" /\ ~v.active THEN Bind(v, new.vip, f) ELSE v
    BY <2>0, <2>1 DEF NewVip, AfterVipChange
  <2> HIDE DEF v
  <2> QED BY <2>1, <2>2, <2>3, TruthfulOperators
<1>6. ASSUME NEW limit \in {FailoverLimit, OneShotLimit}, Probe(limit)
      PROVE  Truthful(vip', cfg'.vip)
  BY <1>4, <1>6, TruthfulOperators
     DEF Probe, ProbeSucceeds, ProbeFails, Failover, SelfDemotion, Probing, BecomesActive,
         BecomesStandby
<1>7. CASE PeerPromotes \/ PeerDemotes
  BY <1>4, <1>7, TruthfulOperators DEF PeerPromotes, PeerDemotes, BecomesActive, BecomesStandby
<1>8. CASE Stop \/ LoopEnds \/ Exit \/ Boot \/ HostReboot
  BY <1>3, <1>4, <1>8 DEF Stop, LoopEnds, Exit, Boot, HostReboot
<1>9. CASE UNCHANGED reconfigVars
  BY <1>4, <1>9 DEF reconfigVars
<1> QED BY <1>5, <1>6, <1>7, <1>8, <1>9 DEF ReconfigNext

(* A manager whose configured address never changes reports, until it is    *)
(* stopped, what the kernel has, whatever roles and modes it goes through:  *)
(* a held address is bound unless an add has failed, a released one gone    *)
(* unless a del has.                                                        *)
THEOREM VipStatusTrue == ReconfigSpec => []VipStatusIsTrue
<1>1. ReconfigInit => VipInductive
  <2> SUFFICES ASSUME ReconfigInit PROVE VipInductive
    OBVIOUS
  <2>1. Truthful(vip, cfg.vip)
    BY DEF ReconfigInit, StartVip, Bind, Truthful
  <2> QED BY <2>1 DEF ReconfigInit, VipInductive, Running, VipStatusIsTrue, Truthful
<1>2. Counted /\ VipInductive /\ [ReconfigNext]_reconfigVars => Counted' /\ VipInductive'
  BY NextFacts, VipInductiveStep
<1>3. VipInductive => VipStatusIsTrue
  BY DEF VipInductive
<1> QED BY <1>1, <1>2, <1>3, InitCounted, PTL DEF ReconfigSpec
=============================================================================
