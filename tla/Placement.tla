------------------------------- MODULE Placement -------------------------------
(***************************************************************************)
(* Where packages are: the record of an archive names a worker, the package *)
(* is a file of that worker.  Uploads, the removal of a node with migration *)
(* or deletion of its archives, the retention cycle, a user's deletion and  *)
(* handlers that save an earlier copy of a record act on both, in           *)
(* goroutines of their own.                                                 *)
(*                                                                          *)
(* Archives are numbered in the order of their upload: a smaller one is     *)
(* older.  Disk use is in MB.                                               *)
(***************************************************************************)
EXTENDS Integers, FiniteSets, Functions

CONSTANTS Workers, Removals,  \* Removals: removals of nodes in progress at a time
          NArchives,
          FileOf,             \* file name of an archive, shared by uploads of one name
          SizeMB,             \* size of a package in whole MB, rounded down
          Weight,             \* MB a file takes on the disk, what it unpacks to included
          Emergency, Target,  \* watermarks of the retention settings
          MaxEvents,          \* bound on requests, cycles and crashes
          None

Archives == 1..NArchives
Files == {FileOf[a] : a \in Archives}

ASSUME ArchivesAssumption == NArchives \in Nat /\ FileOf \in [Archives -> STRING]
ASSUME WeightAssumption == /\ SizeMB \in [Archives -> Nat]
                           /\ Weight \in [Files -> Nat]
                           /\ \A a \in Archives : SizeMB[a] <= Weight[FileOf[a]]
ASSUME WatermarkAssumption == Emergency \in Nat /\ Target \in Nat
ASSUME NoneAssumption == None \notin Workers \cup [node : Workers, pinned : BOOLEAN]

VARIABLES
  record,    \* bucket archives: [node, pinned] of an archive, or None
  disk,      \* files on the disk of each worker
  cut,       \* worker and file: those of them that are not whole
  torn,      \* files a write of which was cut and answered as if it were whole
  node,      \* status of the node's record: "online", "offline", or "gone"
  uploaded,  \* archives uploaded so far, the one in "upload" included
  upload,    \* the upload whose file is stored and whose record is not, or None
  edit,      \* a handler's copy of a record, to be saved, or None
  removal,   \* removals of nodes in progress
  job,       \* the retention cycle and a user's deletion
  asked,     \* archives whose protection was acknowledged
  alone,     \* archives of whose record no two actors held copies at a time
  deleting,  \* archives whose clean-up was ordered
  events

flaws == <<cut, torn>>
vars == <<record, disk, node, uploaded, upload, edit, removal, job,
          asked, alone, deleting, events, flaws>>

Recorded == {a \in Archives : record[a] # None}
On(w) == {a \in Recorded : record[a].node = w}
Used(w) == SumFunctionOnSet(Weight, disk[w])

(* The copies of records that an actor works through, oldest first.         *)
Listing(S) == [a \in S |-> record[a]]
First(list) == CHOOSE a \in DOMAIN list : \A b \in DOMAIN list : a <= b
Rest(list) == Restrict(list, DOMAIN list \ {First(list)})
Empty == Listing({})

Idle == [at |-> "idle", list |-> Empty, cleaned |-> FALSE, nodes |-> Empty,
         used |-> 0, node |-> None, spared |-> {}, old |-> {}, fresh |-> FALSE]
NoRemoval == [at |-> "idle", list |-> Empty, origin |-> None, target |-> None, moved |-> {}]

(* Who holds a copy of the record of a.                                     *)
Held(a) == \/ edit # None /\ edit.archive = a
           \/ \E r \in Removals : a \in DOMAIN removal[r].list
           \/ \E p \in DOMAIN job : a \in DOMAIN job[p].list
Meet(S) == alone' = alone \ {a \in S : Held(a)}

Event == events < MaxEvents /\ events' = events + 1

(***************************************************************************)
(* Workers                                                                 *)
(***************************************************************************)

(* The heartbeat puts the node online.                                      *)
MarkOnline(w) ==
  /\ node[w] = "offline"
  /\ node' = [node EXCEPT ![w] = "online"]
  /\ UNCHANGED <<record, disk, uploaded, upload, edit, removal, job, asked, alone, deleting, events, flaws>>

(* The monitor finds the heartbeats of a worker missing.  A worker that is  *)
(* down shows itself only by this and by the requests it does not answer.   *)
MarkOffline(w) ==
  /\ node[w] = "online" /\ Event
  /\ node' = [node EXCEPT ![w] = "offline"]
  /\ UNCHANGED <<record, disk, uploaded, upload, edit, removal, job, asked, alone, deleting, flaws>>

(* A worker takes a file: the disk is fuller than a running cycle believes. *)
Takes(w, f) ==
  /\ disk' = [disk EXCEPT ![w] = @ \cup {f}]
  /\ job' = [p \in DOMAIN job |-> [job[p] EXCEPT !.fresh = @ /\ job[p].node # w /\ w \notin DOMAIN job[p].nodes]]

(* handleStorageUpload answers an error of the copying and keeps what it has *)
(* written, but ignores the errors of Flush and Close: the file is then cut  *)
(* and the answer 200.                                                       *)
Stores(w, f, whole) ==
  /\ Takes(w, f)
  /\ \/ /\ cut' = IF whole THEN cut \ {<<w, f>>} ELSE cut \cup {<<w, f>>}
        /\ UNCHANGED <<torn, events>>
     \/ /\ cut' = cut \cup {<<w, f>>}
        /\ torn' = torn \cup {f}
        /\ Event

(* The order to clean up reaches the worker or is lost.                     *)
Frees(w, f) == /\ disk' = [disk EXCEPT ![w] = @ \ {f}]
               /\ cut' = cut \ {<<w, f>>}
Cleans(w, f) == Frees(w, f) \/ UNCHANGED <<disk, cut>>

(***************************************************************************)
(* Uploads and copies of records                                           *)
(***************************************************************************)

(* handleUploadArchive forwards the file to a worker that is online ...     *)
UploadStores(w) ==
  /\ upload = None /\ uploaded < NArchives
  /\ node[w] = "online"
  /\ uploaded' = uploaded + 1
  /\ upload' = [archive |-> uploaded + 1, node |-> w]
  /\ Stores(w, FileOf[uploaded + 1], TRUE)
  /\ UNCHANGED <<record, node, edit, removal, asked, alone, deleting>>

(* ... and saves the record when the worker has answered.                   *)
UploadSaves ==
  /\ upload # None
  /\ record' = [record EXCEPT ![upload.archive] = [node |-> upload.node, pinned |-> FALSE]]
  /\ upload' = None
  /\ UNCHANGED <<disk, node, uploaded, edit, removal, job, asked, alone, deleting, events, flaws>>

(* A callback, an edit or a retry reads a record ...                        *)
EditReads(a) ==
  /\ edit = None /\ record[a] # None /\ Event
  /\ edit' = [archive |-> a, copy |-> record[a]]
  /\ Meet({a})
  /\ UNCHANGED <<record, disk, node, uploaded, upload, removal, job, asked, deleting, flaws>>

(* ... and saves the copy over whatever the record is by then.              *)
EditSaves ==
  /\ edit # None
  /\ record' = [record EXCEPT ![edit.archive] = edit.copy]
  /\ edit' = None
  /\ UNCHANGED <<disk, node, uploaded, upload, removal, job, asked, alone, deleting, events, flaws>>

(* SetArchivePinned changes the record in one transaction.                  *)
Pin(a, pinned) ==
  /\ record[a] # None /\ record[a].pinned # pinned /\ Event
  /\ record' = [record EXCEPT ![a].pinned = pinned]
  /\ asked' = IF pinned THEN asked \cup {a} ELSE asked \ {a}
  /\ job' = [p \in DOMAIN job |-> [job[p] EXCEPT !.spared = @ \cap asked']]
  /\ Meet({a})
  /\ UNCHANGED <<disk, node, uploaded, upload, edit, removal, deleting, flaws>>

(***************************************************************************)
(* Removal of a node                                                       *)
(***************************************************************************)

(* handleRemoveNode lists the archives of the node and works on the copies. *)
RemovalStarts(r, w, at, target) ==
  /\ removal[r] = NoRemoval /\ node[w] # "gone" /\ Event
  /\ at = "copy" => target # w /\ node[target] = "online"
  /\ at # "copy" => target = w
  /\ LET S == IF at = "end" THEN {} ELSE On(w) IN
     /\ removal' = [q \in Removals |->
          IF q = r THEN [at |-> at, list |-> Listing(S), origin |-> w, target |-> target, moved |-> S]
                   ELSE [removal[q] EXCEPT !.moved = @ \ S]]
     /\ Meet(S)
  /\ UNCHANGED <<record, disk, node, uploaded, upload, edit, job, asked, deleting, flaws>>

Working(r, at) == removal[r].at = at /\ removal[r].list # Empty
Subject(r) == First(removal[r].list)

(* The package is read from the origin and sent to the target as it is ... *)
MigrateCopies(r) ==
  LET f == FileOf[Subject(r)] m == removal[r] IN
  /\ Working(r, "copy")
  /\ f \in disk[m.origin]
  /\ Stores(m.target, f, <<m.origin, f>> \notin cut)
  /\ removal' = [removal EXCEPT ![r].at = "save"]
  /\ UNCHANGED <<record, node, uploaded, upload, edit, asked, alone, deleting>>

(* Mutant: the origin is cleaned whether or not the target has the package. *)
MigrateSkipsAndCleans(r) ==
  /\ Working(r, "copy")
  /\ Cleans(removal[r].origin, FileOf[Subject(r)])
  /\ removal' = [removal EXCEPT ![r].list = Rest(@)]
  /\ UNCHANGED <<record, node, uploaded, upload, edit, job, asked, alone, deleting, events, torn>>

(* ... or cannot be read or stored, or the answer of the target is lost:    *)
(* the archive stays where it is, and the target may have a file, whole or  *)
(* in part.                                                                 *)
MigrateSkips(r) ==
  LET f == FileOf[Subject(r)] m == removal[r] IN
  /\ Working(r, "copy")
  /\ \/ UNCHANGED <<disk, job, cut>>
     \/ /\ f \in disk[m.origin] /\ Takes(m.target, f)
        /\ \/ cut' = cut \cup {<<m.target, f>>}
           \/ <<m.origin, f>> \notin cut /\ cut' = cut \ {<<m.target, f>>}
  /\ removal' = [removal EXCEPT ![r].list = Rest(@), ![r].moved = @ \ {Subject(r)}]
  /\ UNCHANGED <<record, node, uploaded, upload, edit, asked, alone, deleting, events, torn>>

(* Mutant: the copy is saved as it was read.                                *)
MigrateSavesOld(r) ==
  /\ Working(r, "save")
  /\ record' = [record EXCEPT ![Subject(r)] = removal[r].list[Subject(r)]]
  /\ removal' = [removal EXCEPT ![r].at = "clean"]
  /\ UNCHANGED <<disk, node, uploaded, upload, edit, job, asked, alone, deleting, events, flaws>>

(* The copy of the record is saved with the new node ...                    *)
MigrateSaves(r) ==
  /\ Working(r, "save")
  /\ record' = [record EXCEPT ![Subject(r)] =
                  [removal[r].list[Subject(r)] EXCEPT !.node = removal[r].target]]
  /\ removal' = [removal EXCEPT ![r].at = "clean"]
  /\ UNCHANGED <<disk, node, uploaded, upload, edit, job, asked, alone, deleting, events, flaws>>

(* ... and only then is the origin told to free the space.                  *)
MigrateCleans(r) ==
  /\ Working(r, "clean")
  /\ Cleans(removal[r].origin, FileOf[Subject(r)])
  /\ removal' = [removal EXCEPT ![r].at = "copy", ![r].list = Rest(@)]
  /\ UNCHANGED <<record, node, uploaded, upload, edit, job, asked, alone, deleting, events, torn>>

(* Removal with deletion: clean up, then delete the record.                 *)
RemovalOrders(r) ==
  /\ Working(r, "order")
  /\ Cleans(removal[r].origin, FileOf[Subject(r)])
  /\ deleting' = deleting \cup {Subject(r)}
  /\ removal' = [removal EXCEPT ![r].at = "record"]
  /\ UNCHANGED <<record, node, uploaded, upload, edit, job, asked, alone, events, torn>>

RemovalDeletes(r) ==
  /\ Working(r, "record")
  /\ record' = [record EXCEPT ![Subject(r)] = None]
  /\ removal' = [removal EXCEPT ![r].at = "order", ![r].list = Rest(@)]
  /\ UNCHANGED <<disk, node, uploaded, upload, edit, job, asked, alone, deleting, events, flaws>>

(* DecommissionNode, whatever was skipped.                                  *)
RemovalEnds(r) ==
  /\ removal[r].at \in {"copy", "order", "end"} /\ removal[r].list = Empty
  /\ node' = [node EXCEPT ![removal[r].origin] = "gone"]
  /\ removal' = [removal EXCEPT ![r] = NoRemoval]
  /\ UNCHANGED <<record, disk, uploaded, upload, edit, job, asked, alone, deleting, events, flaws>>

(***************************************************************************)
(* Retention                                                               *)
(***************************************************************************)

(* IsArchiveExemptFromAutoClean, the tags abstracted into the pin.          *)
Exempt(rec) == rec.pinned

(* RunRetentionCycle lists the archives older than the cutoff.              *)
CycleStarts(cutoff) ==
  LET S == {a \in Recorded : ~Exempt(record[a]) /\ a <= cutoff} IN
  /\ job["cycle"] = Idle /\ Event
  /\ job' = [job EXCEPT !["cycle"] = [Idle EXCEPT !.at = "ttl", !.list = Listing(S), !.spared = asked]]
  /\ Meet(S)
  /\ UNCHANGED <<record, disk, node, uploaded, upload, edit, removal, asked, deleting, flaws>>

(* DELETE of an archive that is not protected.                              *)
UserDeletes(a) ==
  /\ job["user"] = Idle /\ record[a] # None /\ ~record[a].pinned /\ Event
  /\ job' = [job EXCEPT !["user"] = [Idle EXCEPT !.at = "ttl", !.list = Listing({a})]]
  /\ Meet({a})
  /\ UNCHANGED <<record, disk, node, uploaded, upload, edit, removal, asked, deleting, flaws>>

(* Mutant: it stops at the emergency watermark, not at the target.          *)
EnoughSoon(j) == j.at = "emergency" /\ j.used <= Emergency

(* The emergency phase stops when the estimate is at the target.            *)
Enough(j) == j.at = "emergency" /\ j.used <= Target

(* DeleteArchiveStorageAndMeta orders the worker to clean up ...            *)
JobOrders(p) ==
  LET j == job[p] a == First(j.list) w == j.list[a].node IN
  /\ j.list # Empty /\ ~j.cleaned /\ ~Enough(j)
  /\ \/ Frees(w, FileOf[a]) /\ job' = [job EXCEPT ![p].cleaned = TRUE]
     \/ job' = [job EXCEPT ![p].cleaned = TRUE, ![p].fresh = FALSE] /\ UNCHANGED <<disk, cut>>
  /\ deleting' = deleting \cup {a}
  /\ UNCHANGED <<record, node, uploaded, upload, edit, removal, asked, alone, events, torn>>

(* ... and deletes the record, which may be gone.  The emergency phase then *)
(* counts the package as freed.                                             *)
JobDeletes(p) ==
  LET j == job[p] a == First(j.list) left == j.used - SizeMB[a] IN
  /\ j.list # Empty /\ j.cleaned
  /\ record' = [record EXCEPT ![a] = None]
  /\ job' = [job EXCEPT ![p].list = Rest(@), ![p].cleaned = FALSE,
               ![p].used = IF record[a] = None THEN @ ELSE IF left < 0 THEN 0 ELSE left]
  /\ UNCHANGED <<disk, node, uploaded, upload, edit, removal, asked, alone, deleting, events, flaws>>

(* What a heartbeat of a worker may have reported of its disk use: a past   *)
(* use, of some of the files.                                               *)
Reports == {SumFunctionOnSet(Weight, S) : S \in SUBSET Files}

(* After the expired archives the nodes are listed.  Those below the        *)
(* emergency watermark and those offline are passed over.                   *)
CycleListsNodes ==
  /\ job["cycle"].at = "ttl" /\ job["cycle"].list = Empty
  /\ \E S \in SUBSET {w \in Workers : node[w] = "online"} :
       \E reported \in [S -> {n \in Reports : n >= Emergency}] :
         job' = [job EXCEPT !["cycle"].at = "nodes", !["cycle"].nodes = reported, !["cycle"].spared = {},
                            !["cycle"].fresh = \A w \in S : reported[w] >= Used(w)]
  /\ UNCHANGED <<record, disk, node, uploaded, upload, edit, removal, asked, alone, deleting, events, flaws>>

(* A node over the emergency watermark: its archives that are not exempt.   *)
CycleTakesNode(w) ==
  LET j == job["cycle"] S == {a \in On(w) : ~Exempt(record[a])} IN
  /\ j.at = "nodes" /\ w \in DOMAIN j.nodes
  /\ job' = [job EXCEPT !["cycle"] =
       [j EXCEPT !.at = "emergency", !.list = Listing(S), !.used = j.nodes[w], !.node = w, !.old = S,
                 !.nodes = Restrict(j.nodes, DOMAIN j.nodes \ {w}), !.spared = asked,
                 !.fresh = @ /\ \A a \in S : FileOf[a] \in disk[w] /\ <<w, FileOf[a]>> \notin cut]]
  /\ Meet(S)
  /\ UNCHANGED <<record, disk, node, uploaded, upload, edit, removal, asked, deleting, events, flaws>>

(* The node is done: the target is reached or nothing is left to clean.     *)
CycleLeavesNode ==
  LET j == job["cycle"] IN
  /\ j.at = "emergency" /\ (j.list = Empty \/ (Enough(j) /\ ~j.cleaned))
  /\ job' = [job EXCEPT !["cycle"] = [j EXCEPT !.at = "nodes", !.list = Empty, !.node = None, !.old = {},
                                     !.used = 0, !.spared = {}]]
  /\ UNCHANGED <<record, disk, node, uploaded, upload, edit, removal, asked, alone, deleting, events, flaws>>

JobEnds(p) ==
  /\ \/ job[p].at = "nodes" /\ job[p].nodes = Empty
     \/ p = "user" /\ job[p].at = "ttl" /\ job[p].list = Empty
  /\ job' = [job EXCEPT ![p] = Idle]
  /\ UNCHANGED <<record, disk, node, uploaded, upload, edit, removal, asked, alone, deleting, events, flaws>>

Init ==
  /\ record = [a \in Archives |-> None]
  /\ disk = [w \in Workers |-> {}]
  /\ cut = {} /\ torn = {}
  /\ node = [w \in Workers |-> "online"]
  /\ uploaded = 0 /\ upload = None /\ edit = None
  /\ removal = [r \in Removals |-> NoRemoval]
  /\ job = [p \in {"cycle", "user"} |-> Idle]
  /\ asked = {} /\ alone = Archives /\ deleting = {} /\ events = 0

WorkerStep(w) ==
  \/ MarkOnline(w) \/ MarkOffline(w) \/ UploadStores(w)

RemovalStep(r) ==
  \/ \E w \in Workers, at \in {"copy", "order", "end"}, target \in Workers : RemovalStarts(r, w, at, target)
  \/ MigrateCopies(r) \/ MigrateSkips(r) \/ MigrateSaves(r) \/ MigrateCleans(r)
  \/ RemovalOrders(r) \/ RemovalDeletes(r) \/ RemovalEnds(r)

JobStep ==
  \/ (\E cutoff \in 0..uploaded : CycleStarts(cutoff)) \/ CycleListsNodes \/ CycleLeavesNode
  \/ \E w \in Workers : CycleTakesNode(w)
  \/ \E a \in Archives : UserDeletes(a)
  \/ \E p \in DOMAIN job : JobOrders(p) \/ JobDeletes(p) \/ JobEnds(p)

Next ==
  \/ \E w \in Workers : WorkerStep(w)
  \/ UploadSaves
  \/ \E a \in Archives : EditReads(a) \/ (\E pinned \in BOOLEAN : Pin(a, pinned))
  \/ EditSaves
  \/ \E r \in Removals : RemovalStep(r)
  \/ JobStep

Spec == Init /\ [][Next]_vars

--------------------------------------------------------------------------------

Record == [node : Workers, pinned : BOOLEAN]

(* Types; a removal or a job holds copies of records only of archives that  *)
(* were uploaded, and marks only those as being deleted.                    *)
TypeOK ==
  /\ record \in [Archives -> Record \cup {None}]
  /\ disk \in [Workers -> SUBSET Files]
  /\ node \in [Workers -> {"online", "offline", "gone"}]
  /\ uploaded \in 0..NArchives
  /\ upload = None \/ upload \in [archive : 1..uploaded, node : Workers]
  /\ edit = None \/ edit \in [archive : 1..uploaded, copy : Record]
  /\ \A r \in Removals : DOMAIN removal[r].list \cup removal[r].moved \subseteq 1..uploaded
  /\ \A p \in DOMAIN job : DOMAIN job[p].list \subseteq 1..uploaded
  /\ asked \cup deleting \subseteq 1..uploaded /\ alone \subseteq Archives

FlawsOK == cut \subseteq Workers \X Files /\ torn \subseteq Files

OwnName(a) == \A b \in 1..uploaded : b # a => FileOf[b] # FileOf[a]

(* The package of a record is on the disk of the worker that the record     *)
(* names, over uploads, migrations with any step failing, cycles, crashes   *)
(* and lost orders: no step destroys the copy that the record stands for.   *)
(* It is whole, however often it was moved and whatever parts failed        *)
(* attempts have left behind, unless a write of it was cut and answered as  *)
(* if it were whole: the record then goes to the cut copy and the origin is *)
(* told to delete the whole one.                                            *)
(* It needs a file name of its own, no two actors with copies of the record *)
(* at a time, and no clean-up of the archive ordered.                       *)
Intact(w, f) == <<w, f>> \in cut => f \in torn

PackageFollowsRecord ==
  \A a \in Recorded :
    (a \in alone /\ a \notin deleting /\ OwnName(a))
        => FileOf[a] \in disk[record[a].node] /\ Intact(record[a].node, FileOf[a])

(* A retention cycle holds for deletion no archive whose protection was     *)
(* acknowledged before the cycle listed its archives and not lifted since,  *)
(* unless another actor held a copy of the record meanwhile.                *)
ProtectedIsSpared ==
  \A a \in DOMAIN job["cycle"].list : a \in job["cycle"].spared => a \notin alone

(* Every copy an actor holds is of an archive that was uploaded, the package *)
(* stays where the record points, and no protected archive is condemned.     *)
PlacementIsSound == TypeOK /\ FlawsOK /\ PackageFollowsRecord /\ ProtectedIsSpared

(* When the emergency phase leaves a node whose report was not too low,     *)
(* whose orders all arrived and whose packages were there, whole, when they *)
(* were listed, the disk is at the target or every archive it listed is cleaned  *)
(* up: rounded sizes, sizes before unpacking and a list that other actors   *)
(* changed meanwhile never make it stop early.  (A package that another     *)
(* actor took off the disk before the report is subtracted all the same.)   *)
CleansEnough ==
  [][\A w \in Workers :
       (/\ job["cycle"].at = "emergency" /\ job["cycle"].node = w /\ job'["cycle"].at = "nodes"
        /\ job["cycle"].fresh /\ \A a \in job["cycle"].old : OwnName(a))
       => Used(w) <= Target \/ job["cycle"].old \subseteq deleting]_vars

(* A removal that ends leaves on the removed node no archive it moved or    *)
(* deleted: an archive it listed, did not skip and no later removal listed, *)
(* unless another actor held a copy of the record meanwhile.                *)
RemovedNodeIsEmptied ==
  [][\A r \in Removals :
       (removal[r] # NoRemoval /\ removal'[r] = NoRemoval)
       => \A a \in removal[r].moved \cap alone \cap Recorded : record[a].node # removal[r].origin]_vars

================================================================================
