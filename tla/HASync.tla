------------------------------- MODULE HASync -------------------------------
(***************************************************************************)
(* Snapshot replication between the managers: HASyncEngine.syncOnce        *)
(* (internal/manager/ha_sync.go), the snapshot handler of api.go and       *)
(* Store.ReloadFromSnapshot (internal/store/store.go).                     *)
(*                                                                         *)
(* A database is the set of writes it holds, the manager whose HA settings *)
(* it holds, and its bbolt transaction number.  A download goes through    *)
(* the file analyzer.db.sync_tmp, which all downloads of a manager share:  *)
(* an open handle follows its file when the file is renamed.               *)
(*                                                                         *)
(* The HA settings are in the database, and are replicated with it: a      *)
(* manager that restarts on its peer's settings takes its peer's role and  *)
(* downloads from the peer's peer, itself.  Other changes of the roles     *)
(* happen as HAFailover lets them; here any change may happen.             *)
(***************************************************************************)
EXTENDS Naturals, FiniteSets

CONSTANTS
    NodeA, NodeB,      \* the managers: A starts active, B starts standby
    Slot,              \* syncOnce calls each manager may have under way at once
    StandbyWrites,     \* does anybody write through the API of a standby
    MaxWrites, MaxSaves, MaxRoleChanges, MaxFaults      \* bounds

Manager == {NodeA, NodeB}

ASSUME ManagersDiffer == NodeA # NodeB /\ "flags" \notin Manager
ASSUME WritesType     == StandbyWrites \in BOOLEAN
ASSUME BoundsType     == {MaxWrites, MaxSaves, MaxRoleChanges, MaxFaults} \subseteq Nat

VARIABLES
    role, up,
    db,            \* analyzer.db of each manager
    tmp,           \* analyzer.db.sync_tmp of each manager
    call,          \* the syncOnce calls of each manager
    lastTxID, syncStatus,     \* HASyncEngine
    haConfig,      \* whose HA settings each manager goes by
    writes, saves, roleChanges, faults      \* counters of the bounds

bounds == <<saves, roleChanges, faults>>
vars   == <<role, up, db, tmp, call, lastTxID, syncStatus, haConfig, writes, bounds>>

Peer(m) == IF m = NodeA THEN NodeB ELSE NodeA

NoFile == [kind |-> "none"]
Partial(s) == [kind |-> "partial", by |-> s]       \* being copied by call s
Torn  == [kind |-> "torn"]                         \* written by two calls
Blank == [kind |-> "blank"]                        \* created empty by bolt.Open
Cut   == [kind |-> "cut"]                          \* what an export that failed has sent
Empty == [kind |-> "empty"]                        \* an export that failed at once

Database == [kind : {"whole"}, log : SUBSET (1..MaxWrites),
             settings : Manager \cup {"flags"}, tx : Nat]
Damaged  == {Torn, Blank, Cut, Empty}
            \cup {Partial(s) : s \in UNION {Slot[m] : m \in Manager}}
Body     == Database \cup {Cut, Empty}

\* What NewStore makes of a file without content.
NewDatabase == [kind |-> "whole", log |-> {}, settings |-> "flags", tx |-> 1]

Idle == [stage |-> "idle"]
Call ==
    {Idle}
    \cup [stage : {"asked"}, from : Manager, etag : Nat]
    \cup [stage : {"unmodified", "broken"}]
    \cup [stage : {"answered"}, from : Manager, header : Nat]
    \cup [stage : {"exported"}, from : Manager, header : Nat, snapshot : Body]
    \cup [stage : {"copying"}, from : Manager, header : Nat, snapshot : Body,
          file : {"tmp", "db", "unlinked"}]
    \cup [stage : {"copied", "verified", "swapped"}, header : Nat]

TypeOK ==
    /\ role \in [Manager -> {"active", "standby"}]
    /\ up \in [Manager -> BOOLEAN]
    /\ db \in [Manager -> Database \cup Damaged]
    /\ tmp \in [Manager -> Database \cup Damaged \cup {NoFile}]
    /\ DOMAIN call = Manager /\ \A m \in Manager : call[m] \in [Slot[m] -> Call]
    /\ lastTxID \in [Manager -> Nat]
    /\ syncStatus \in [Manager -> {"none", "syncing", "synced", "error"}]
    /\ haConfig \in [Manager -> Manager \cup {"flags"}]
    /\ writes \in 0..MaxWrites /\ saves \in 0..MaxSaves
    /\ roleChanges \in Nat /\ faults \in 0..MaxFaults

\* NewHAManager, by the mode m was deployed with, or that its settings say.
InitialRole(m) == IF m = NodeA THEN "active" ELSE "standby"

Init ==
    /\ role = [m \in Manager |-> InitialRole(m)]
    /\ up = [m \in Manager |-> TRUE]
    /\ db = [m \in Manager |-> NewDatabase]
    /\ tmp = [m \in Manager |-> NoFile]
    /\ call = [m \in Manager |-> [s \in Slot[m] |-> Idle]]
    /\ lastTxID = [m \in Manager |-> 0]
    /\ syncStatus = [m \in Manager |-> "none"]
    /\ haConfig = [m \in Manager |-> "flags"]
    /\ writes = 0 /\ saves = 0 /\ roleChanges = 0 /\ faults = 0

Usable(m) == up[m] /\ db[m].kind = "whole"

\* The transaction numbers a store may tell and the bodies it may export: one
\* that is damaged, or was left closed, tells none (0) or any.
TxIDs(d) ==
    IF d.kind = "whole" THEN {d.tx} ELSE 0..(1 + MaxWrites + MaxSaves + MaxFaults)
Exports(d) == IF d.kind = "whole" THEN {d} ELSE {Cut, Empty}

-----------------------------------------------------------------------------
(* Writes to the stores. *)

Write(m) ==
    /\ Usable(m) /\ writes < MaxWrites
    /\ role[m] = "active" \/ StandbyWrites
    /\ writes' = writes + 1
    /\ db' = [db EXCEPT ![m].log = @ \cup {writes + 1}, ![m].tx = @ + 1]
    /\ UNCHANGED <<role, up, tmp, call, lastTxID, syncStatus, haConfig, bounds>>

\* handleHAConfig persists the settings the administrator gave this manager, and
\* UpdateConfig applies them; the mode is the one it has, and leaves the role.
SaveHAConfig(m) ==
    /\ Usable(m) /\ saves < MaxSaves
    /\ saves' = saves + 1
    /\ db' = [db EXCEPT ![m].settings = m, ![m].tx = @ + 1]
    /\ haConfig' = [haConfig EXCEPT ![m] = m]
    /\ UNCHANGED <<role, up, tmp, call, lastTxID, syncStatus, writes, roleChanges, faults>>

-----------------------------------------------------------------------------
(* syncOnce, step by step. *)

SetCall(m, s, c) == call' = [call EXCEPT ![m][s] = c]

\* Whose address PeerURL is: in the peer's settings it is the manager's own.
Source(m) == IF haConfig[m] = Peer(m) THEN m ELSE Peer(m)

\* Mutant: a synchronisation asked for by hand starts in either role.
MayStartAlways(m) == TRUE

MayStart(m) == role[m] = "standby"

SyncStarts(m, s) ==
    /\ up[m] /\ call[m][s] = Idle /\ MayStart(m)
    /\ SetCall(m, s, [stage |-> "asked", from |-> Source(m), etag |-> lastTxID[m]])
    /\ syncStatus' = [syncStatus EXCEPT ![m] = "syncing"]
    /\ UNCHANGED <<role, up, db, tmp, lastTxID, haConfig, writes, bounds>>

\* Mutant: whoever sends a number has synchronised.
NotModifiedOnceSynced(m, s) ==
    /\ call[m][s].stage = "asked" /\ up[call[m][s].from]
    /\ call[m][s].etag # 0
    /\ SetCall(m, s, [stage |-> "unmodified"])
    /\ UNCHANGED <<role, up, db, tmp, lastTxID, syncStatus, haConfig, writes, bounds>>

\* handleHASnapshot reads the transaction number before it exports.
NotModified(m, s) ==
    LET c == call[m][s] IN
    /\ c.stage = "asked" /\ up[c.from]
    /\ c.etag # 0 /\ c.etag \in TxIDs(db[c.from])
    /\ SetCall(m, s, [stage |-> "unmodified"])
    /\ UNCHANGED <<role, up, db, tmp, lastTxID, syncStatus, haConfig, writes, bounds>>

TxIDRead(m, s) ==
    LET c == call[m][s] IN
    /\ c.stage = "asked" /\ up[c.from]
    /\ \E tx \in TxIDs(db[c.from]) :
          /\ tx = 0 \/ tx # c.etag
          /\ SetCall(m, s, [stage |-> "answered", from |-> c.from, header |-> tx])
    /\ UNCHANGED <<role, up, db, tmp, lastTxID, syncStatus, haConfig, writes, bounds>>

Sent(m, s, body) ==
    SetCall(m, s, [stage |-> "exported", from |-> call[m][s].from,
                   header |-> call[m][s].header, snapshot |-> body])

ExportSnapshot(m, s) ==
    /\ call[m][s].stage = "answered" /\ up[call[m][s].from]
    /\ \E body \in Exports(db[call[m][s].from]) : Sent(m, s, body)
    /\ UNCHANGED <<role, up, db, tmp, lastTxID, syncStatus, haConfig, writes, bounds>>

\* The database file does not open or cannot be read to its end: the handler
\* only logs it, and the answer ends like any other.
ExportFails(m, s) ==
    /\ call[m][s].stage = "answered" /\ up[call[m][s].from] /\ faults < MaxFaults
    /\ faults' = faults + 1
    /\ \E body \in {Cut, Empty} : Sent(m, s, body)
    /\ UNCHANGED <<role, up, db, tmp, lastTxID, syncStatus, haConfig, writes, saves,
                   roleChanges>>

SkipsReload(m, s) ==
    /\ call[m][s].stage = "unmodified"
    /\ SetCall(m, s, Idle)
    /\ syncStatus' = [syncStatus EXCEPT ![m] = "synced"]
    /\ UNCHANGED <<role, up, db, tmp, lastTxID, haConfig, writes, bounds>>

\* ReloadFromSnapshot opens the shared file with O_TRUNC.
OpenTmp(m, s) ==
    /\ call[m][s].stage = "exported"
    /\ tmp' = [tmp EXCEPT ![m] = Partial(s)]
    /\ SetCall(m, s, [stage |-> "copying", from |-> call[m][s].from, header |-> call[m][s].header,
                      snapshot |-> call[m][s].snapshot, file |-> "tmp"])
    /\ UNCHANGED <<role, up, db, lastTxID, syncStatus, haConfig, writes, bounds>>

\* Mutant: the file is renamed before it is complete.
FilledHalf(m, s, f) == f

\* The last byte lands in the file the handle is open on.
Filled(m, s, f) == IF f = Partial(s) THEN call[m][s].snapshot ELSE Torn

Copied(m, s) ==
    /\ call[m][s].stage = "copying"
    /\ tmp' = [tmp EXCEPT ![m] = IF call[m][s].file = "tmp" THEN Filled(m, s, @) ELSE @]
    /\ db' = [db EXCEPT ![m] = IF call[m][s].file = "db" THEN Filled(m, s, @) ELSE @]
    /\ SetCall(m, s, [stage |-> "copied", header |-> call[m][s].header])
    /\ UNCHANGED <<role, up, lastTxID, syncStatus, haConfig, writes, bounds>>

\* Handles of other calls when the name analyzer.db.sync_tmp is removed, or
\* when it is renamed to analyzer.db.
Unlinked(c) == IF c.stage = "copying" /\ c.file = "tmp" THEN [c EXCEPT !.file = "unlinked"] ELSE c
Renamed(c) ==
    IF c.stage = "copying"
    THEN [c EXCEPT !.file = CASE @ = "tmp" -> "db" [] OTHER -> "unlinked"]
    ELSE c

\* The call gives up and removes the file.
Abandons(m, s) ==
    /\ tmp' = [tmp EXCEPT ![m] = NoFile]
    /\ call' = [call EXCEPT ![m] =
                   [t \in Slot[m] |-> IF t = s THEN Idle ELSE Unlinked(call[m][t])]]
    /\ syncStatus' = [syncStatus EXCEPT ![m] = "error"]
    /\ UNCHANGED <<role, up, db, lastTxID, haConfig, writes, bounds>>

\* bolt.Open on the copied file: it creates the file when there is none, gives
\* an empty one its first pages, and may or may not notice that a file is damaged.
\* (That it faults the process is a Crash.)
Verified(m, s) ==
    /\ call[m][s].stage = "copied"
    /\ tmp' = [tmp EXCEPT ![m] = IF @ = NoFile THEN Blank ELSE @]
    /\ SetCall(m, s, [stage |-> "verified", header |-> call[m][s].header])
    /\ UNCHANGED <<role, up, db, lastTxID, syncStatus, haConfig, writes, bounds>>

Rejected(m, s) ==
    /\ call[m][s].stage = "copied"
    /\ tmp[m].kind \in {"partial", "torn", "cut"}
    /\ Abandons(m, s)

\* Under the store's lock: close, rename, open.
Replaced(m, s, next) ==
    /\ call[m][s].stage = "verified" /\ tmp[m] # NoFile
    /\ db' = [db EXCEPT ![m] = tmp[m]]
    /\ tmp' = [tmp EXCEPT ![m] = NoFile]
    /\ call' = [call EXCEPT ![m] =
                   [t \in Slot[m] |-> IF t = s THEN next ELSE Renamed(call[m][t])]]
    /\ UNCHANGED <<role, up, lastTxID, haConfig, writes, bounds>>

Swapped(m, s) ==
    /\ Replaced(m, s, [stage |-> "swapped", header |-> call[m][s].header])
    /\ UNCHANGED syncStatus

\* The renamed file does not open, and the store stays closed.
ReopenFails(m, s) ==
    /\ tmp[m].kind \in {"partial", "torn", "cut"}
    /\ Replaced(m, s, Idle)
    /\ syncStatus' = [syncStatus EXCEPT ![m] = "error"]

\* Mutant: the error path is reached only for a damaged database.
RenameFailsIfDamaged(m, s) ==
    /\ call[m][s].stage = "verified" /\ tmp[m] = NoFile /\ db[m].kind # "whole"
    /\ SetCall(m, s, Idle)
    /\ syncStatus' = [syncStatus EXCEPT ![m] = "error"]
    /\ UNCHANGED <<role, up, db, tmp, lastTxID, haConfig, writes, bounds>>

RenameFails(m, s) ==
    /\ call[m][s].stage = "verified" /\ tmp[m] = NoFile
    /\ SetCall(m, s, Idle)
    /\ syncStatus' = [syncStatus EXCEPT ![m] = "error"]
    /\ UNCHANGED <<role, up, db, tmp, lastTxID, haConfig, writes, bounds>>

\* Mutant: the standby notes the number the primary has when the reload ends.
SyncFinishesAtLatest(m, s) ==
    /\ call[m][s].stage = "swapped"
    /\ SetCall(m, s, Idle)
    /\ lastTxID' = [lastTxID EXCEPT ![m] = db[NodeA].tx]
    /\ syncStatus' = [syncStatus EXCEPT ![m] = "synced"]
    /\ UNCHANGED <<role, up, db, tmp, haConfig, writes, bounds>>

\* An answer without a number leaves the number the store has now, if it tells one.
SyncFinishes(m, s) ==
    LET c == call[m][s] IN
    /\ c.stage = "swapped"
    /\ SetCall(m, s, Idle)
    /\ \E tx \in IF c.header # 0 THEN {c.header} ELSE TxIDs(db[m]) :
          lastTxID' = [lastTxID EXCEPT ![m] = IF tx = 0 THEN @ ELSE tx]
    /\ syncStatus' = [syncStatus EXCEPT ![m] = "synced"]
    /\ UNCHANGED <<role, up, db, tmp, haConfig, writes, bounds>>

\* The request or the response body fails on the way.
AnswerFails(m, s) ==
    /\ call[m][s].stage \in {"asked", "answered", "exported", "broken"}
    /\ \/ /\ call[m][s].stage # "broken" => ~Usable(call[m][s].from)
          /\ UNCHANGED faults
       \/ /\ faults < MaxFaults
          /\ faults' = faults + 1
    /\ SetCall(m, s, Idle)
    /\ syncStatus' = [syncStatus EXCEPT ![m] = "error"]
    /\ UNCHANGED <<role, up, db, tmp, lastTxID, haConfig, writes, saves, roleChanges>>

CopyFails(m, s) ==
    /\ call[m][s].stage = "copying" /\ ~up[call[m][s].from]
    /\ Abandons(m, s)

-----------------------------------------------------------------------------
(* Roles, crashes and restarts. *)

RoleChanges(m) ==
    /\ up[m] /\ roleChanges < MaxRoleChanges
    /\ roleChanges' = roleChanges + 1
    /\ role' = [role EXCEPT ![m] = IF @ = "active" THEN "standby" ELSE "active"]
    /\ UNCHANGED <<up, db, tmp, call, lastTxID, syncStatus, haConfig, writes, saves, faults>>

\* The connection on which an answer of m began is gone.
Broken(c, m) ==
    IF c.stage = "answered" /\ c.from = m THEN [stage |-> "broken"] ELSE c

Crash(m) ==
    /\ up[m] /\ faults < MaxFaults
    /\ faults' = faults + 1
    /\ up' = [up EXCEPT ![m] = FALSE]
    /\ call' = [call EXCEPT ![m] = [s \in Slot[m] |-> Idle],
                            ![Peer(m)] = [s \in Slot[Peer(m)] |-> Broken(call[Peer(m)][s], m)]]
    /\ UNCHANGED <<role, db, tmp, lastTxID, syncStatus, haConfig, writes, saves, roleChanges>>

\* NewStore commits the buckets, makes a new database of an empty one, and may
\* not notice that one is damaged.
Opened(d) ==
    IF d.kind = "whole" THEN [d EXCEPT !.tx = @ + 1]
    ELSE IF d.kind \in {"empty", "blank"} THEN NewDatabase
    ELSE d

SavedSettings(d) == IF d.kind = "whole" THEN {d.settings} ELSE Manager \cup {"flags"}

\* runManager: the process takes the HA settings saved in the database, and with
\* them the mode and the role, or those of its command line.
Restart(m) ==
    /\ ~up[m]
    /\ up' = [up EXCEPT ![m] = TRUE]
    /\ db' = [db EXCEPT ![m] = Opened(@)]
    /\ \E owner \in SavedSettings(Opened(db[m])) :
          /\ haConfig' = [haConfig EXCEPT ![m] = owner]
          /\ role' = [role EXCEPT ![m] = InitialRole(IF owner = "flags" THEN m ELSE owner)]
    /\ roleChanges' = roleChanges + (IF role' = role THEN 0 ELSE 1)
    /\ lastTxID' = [lastTxID EXCEPT ![m] = 0]
    /\ syncStatus' = [syncStatus EXCEPT ![m] = "none"]
    /\ UNCHANGED <<tmp, call, writes, saves, faults>>

-----------------------------------------------------------------------------

syncOnce(m, s) ==
    \/ SyncStarts(m, s) \/ NotModified(m, s) \/ TxIDRead(m, s) \/ ExportSnapshot(m, s)
    \/ ExportFails(m, s) \/ SkipsReload(m, s) \/ OpenTmp(m, s) \/ Copied(m, s)
    \/ Verified(m, s) \/ Rejected(m, s) \/ Swapped(m, s) \/ ReopenFails(m, s) \/ RenameFails(m, s) \/ SyncFinishes(m, s)
    \/ AnswerFails(m, s) \/ CopyFails(m, s)

Next ==
    \/ \E m \in Manager : \E s \in Slot[m] : syncOnce(m, s)
    \/ \E m \in Manager :
          \/ Write(m) \/ SaveHAConfig(m)
          \/ RoleChanges(m) \/ Crash(m) \/ Restart(m)

Spec == Init /\ [][Next]_vars

\* The ticker of HASyncEngine.Start fires for ever and a call runs to its end.
FairSpec == Spec /\ \A m \in Manager : \A s \in Slot[m] : WF_vars(syncOnce(m, s))

-----------------------------------------------------------------------------
(* Properties *)

\* The number of the primary's writes a database stands for, if it is the
\* content after some first writes.
Version(d) ==
    IF d.kind = "whole" /\ d.log = 1..Cardinality(d.log)
    THEN Cardinality(d.log) ELSE MaxWrites + 1

\* The standby's copy is given up when an export that failed has replaced it,
\* and once a manager has changed its role.
GivenUp == db[NodeB].kind \in {"cut", "empty"} \/ roleChanges > 0

(* As long as no manager changes its role (by a restart on the settings of   *)
(* its peer, for one), the standby holds a whole content the active manager  *)
(* once had, and never goes back to an older one, whatever fails between the *)
(* answer and the rename.  Only an export that failed, and is taken for a    *)
(* whole one, can make it lose that.                                         *)
Copy == INSTANCE Replication WITH
            primary <- Cardinality(db[NodeA].log),
            replica <- IF GivenUp THEN MaxWrites + 2 ELSE Version(db[NodeB]),
            Lost    <- MaxWrites + 2,
            failed  <- faults > 0
StandbyIsAPastActive == Copy!Spec

(* A snapshot request answered with 304 leaves the two stores alike, as long *)
(* as the roles stay put and the standby's store is whole: the number it     *)
(* remembers identifies the content it holds.  (After an export that failed  *)
(* it does not: the number came with the answer, and the peer goes on        *)
(* answering 304 until its next write.)                                      *)
NotModifiedMeansSame ==
    [][\A m \in Manager : \A s \in Slot[m] :
          NotModified(m, s) /\ roleChanges = 0 /\ db[m].kind = "whole"
              => db[m].log = db[call[m][s].from].log]_vars

(* Once nothing fails, both stores are whole and the managers go by their    *)
(* own roles and settings, the standby ends up with everything the active    *)
(* manager holds.                                                            *)
StandbyCatchesUp ==
    <>[](/\ \A m \in Manager : Usable(m) /\ role[m] = InitialRole(m)
         /\ Source(NodeB) = NodeA)
        => <>[](Usable(NodeA) /\ Usable(NodeB) /\ db[NodeB].log = db[NodeA].log)

(* No call to syncOnce stays stuck: whatever the other calls, a role change  *)
(* or a crash of the peer do to its file or its answer, it comes to an end.  *)
SyncCallsEnd ==
    \A m \in Manager : \A s \in Slot[m] : call[m][s] # Idle ~> call[m][s] = Idle

(* A manager that is active with a whole database, and has no download left  *)
(* from before its promotion, begins none and keeps every write it accepts.  *)
(* (One that is promoted during a download has its database replaced by the  *)
(* old peer's when the download ends: the role is asked only before it.)     *)
Settled(m) ==
    role[m] = "active" /\ db[m].kind = "whole" /\ \A s \in Slot[m] : call[m][s] = Idle

ActiveKeepsItsWrites ==
    [][\A m \in Manager : Settled(m) /\ role'[m] = "active" =>
          Settled(m)' /\ db[m].log \subseteq db'[m].log]_vars
=============================================================================
