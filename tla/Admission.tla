------------------------------- MODULE Admission -------------------------------
(***************************************************************************)
(* Admission of uploads: the quota of a user, the ledger of what the user  *)
(* stores (UsedStorageBytes) and the uniqueness of tags.                    *)
(*                                                                          *)
(* Store.CheckUserQuota, findDuplicateTag, Store.SaveArchive and            *)
(* Store.AdjustUserStorageUsage are separate transactions, and requests of  *)
(* the manager run in goroutines of their own: a request in a slot takes    *)
(* one step per transaction, and keeps in "req" what it read.               *)
(***************************************************************************)
EXTENDS Integers, FiniteSets, Functions

CONSTANTS Users, Archives, Tags,
          Sizes,       \* sizes of an upload
          Quotas,      \* quotas an administrator sets; 0 is no limit
          Slots,       \* requests in progress at a time
          MaxRequests, \* requests in all, a bound of the model
          None

ASSUME SizesAssumption == Sizes \subseteq Nat \ {0}
ASSUME QuotasAssumption == Quotas \subseteq Nat
ASSUME NoneAssumption == None \notin Users \cup Archives
ASSUME BoundType == MaxRequests \in Nat

VARIABLES
  users,      \* bucket users: [quota, used] of a user, None when there is none
  archives,   \* bucket archives: [owner, size, tags] of an archive, or None
  req,        \* the request in a slot, None when the slot is free
  requests,   \* requests so far
  alone,      \* of each user: no two requests on the user's ledger overlapped
              \* so far, and the user was not created over stored archives
  tagsAlone   \* no two requests that check tags overlapped so far

vars == <<users, archives, req, requests, alone, tagsAlone>>

TagSets == SUBSET Tags \ {{}}

(* What is stored for a user: the value the ledger stands for.              *)
Owned(u) == {a \in Archives : archives[a] # None /\ archives[a].owner = u}
Stored(u) == SumFunction([a \in Owned(u) |-> archives[a].size])

Busy == {s \in Slots : req[s] # None}
OnLedger(u) == {s \in Busy : req[s].owner = u}
OnTags == {s \in Busy : req[s].op \in {"upload", "edit"}}

(* A request r starts in the free slot s.  "alone" and "tagsAlone" remember *)
(* whether it met another one.                                              *)
Begin(s, r) ==
  /\ req[s] = None /\ requests < MaxRequests
  /\ requests' = requests + 1
  /\ req' = [req EXCEPT ![s] = r]
  /\ alone' = [alone EXCEPT ![r.owner] = @ /\ OnLedger(r.owner) = {}]
  /\ tagsAlone' = (tagsAlone /\ (r.op \in {"upload", "edit"} => OnTags = {}))

At(s, op, at) == req[s] # None /\ req[s].op = op /\ req[s].at = at
Goto(s, at) == req' = [req EXCEPT ![s].at = at]
Finish(s) == req' = [req EXCEPT ![s] = None]

(***************************************************************************)
(* The ledger                                                              *)
(***************************************************************************)

(* Mutant: the size of the upload is left out of the check.                 *)
CheckUsedOnly(u, size) ==
  users[u] # None /\ (users[u].quota = 0 \/ users[u].used <= users[u].quota)

(* Store.CheckUserQuota reads the cached usage; the first calibration walks *)
(* the manager's own directory of the user, which holds no archive.        *)
CheckUserQuota(u, size) ==
  /\ users[u] # None
  /\ \/ users[u].quota = 0
     \/ users[u].used + size <= users[u].quota

(* Store.AdjustUserStorageUsage: the balance never goes below zero.         *)
Adjusted(user, delta) ==
  [user EXCEPT !.used = IF @ + delta < 0 THEN 0 ELSE @ + delta]

(* The user is read in one transaction ...                                  *)
AdjustReads(s) ==
  /\ req[s] # None /\ req[s].at = "adjust"
  /\ req' = [req EXCEPT ![s].user = users[req[s].owner],
                        ![s].at = IF users[req[s].owner] = None THEN "adjusted" ELSE "save"]
  /\ UNCHANGED <<users, archives, requests, alone, tagsAlone>>

(* ... and saved with the new balance in another.                           *)
AdjustSaves(s) ==
  /\ req[s] # None /\ req[s].at = "save" /\ req[s].op # "quota"
  /\ users' = [users EXCEPT ![req[s].owner] = Adjusted(req[s].user, req[s].delta)]
  /\ Goto(s, "adjusted")
  /\ UNCHANGED <<archives, requests, alone, tagsAlone>>

(***************************************************************************)
(* Upload                                                                  *)
(***************************************************************************)

(* handleUploadArchive checks the quota of the user first.                  *)
UploadChecksQuota(s, u, size, tags) ==
  /\ CheckUserQuota(u, size)
  /\ Begin(s, [op |-> "upload", at |-> "tags", owner |-> u, archive |-> None,
               size |-> size, tags |-> tags, old |-> FALSE, user |-> None, delta |-> 0])
  /\ UNCHANGED <<users, archives>>

(* Mutant: only tags of the same set of tags are duplicates.                *)
SameSet(tags, exclude) ==
  \E a \in Archives \ {exclude} : archives[a] # None /\ archives[a].tags = tags

(* findDuplicateTag over a listing of all archives but one.                 *)
Duplicate(tags, exclude) ==
  \E a \in Archives \ {exclude} : archives[a] # None /\ archives[a].tags \cap tags # {}

UploadRefused(s) ==
  /\ At(s, "upload", "tags") /\ Duplicate(req[s].tags, None)
  /\ Finish(s)
  /\ UNCHANGED <<users, archives, requests, alone, tagsAlone>>

UploadChecksTags(s) ==
  /\ At(s, "upload", "tags") /\ ~Duplicate(req[s].tags, None)
  /\ Goto(s, "forward")
  /\ UNCHANGED <<users, archives, requests, alone, tagsAlone>>

(* Identifiers that a record or a request in progress holds.                *)
Taken == {a \in Archives : archives[a] # None} \cup {req[s].archive : s \in Busy}

(* No worker takes the file: the upload ends with an error.                 *)
UploadFails(s) ==
  /\ At(s, "upload", "forward")
  /\ Finish(s)
  /\ UNCHANGED <<users, archives, requests, alone, tagsAlone>>

(* The worker has the file.  SaveArchive looks the identifier up, which is  *)
(* new, and keeps the result for the ledger.                                *)
UploadForwards(s) ==
  /\ At(s, "upload", "forward")
  /\ \E a \in Archives \ Taken :
       req' = [req EXCEPT ![s].archive = a, ![s].at = "put", ![s].old = FALSE]
  /\ UNCHANGED <<users, archives, requests, alone, tagsAlone>>

(***************************************************************************)
(* Edit of the tags                                                        *)
(***************************************************************************)

(* handleArchiveItem PUT works on the copy of the record it read.           *)
EditReads(s, a, tags) ==
  /\ archives[a] # None
  /\ Begin(s, [op |-> "edit", at |-> "tags", owner |-> archives[a].owner, archive |-> a,
               size |-> archives[a].size, tags |-> tags, old |-> FALSE, user |-> None, delta |-> 0])
  /\ UNCHANGED <<users, archives>>

EditRefused(s) ==
  /\ At(s, "edit", "tags") /\ Duplicate(req[s].tags, req[s].archive)
  /\ Finish(s)
  /\ UNCHANGED <<users, archives, requests, alone, tagsAlone>>

EditChecksTags(s) ==
  /\ At(s, "edit", "tags") /\ ~Duplicate(req[s].tags, req[s].archive)
  /\ Goto(s, "look")
  /\ UNCHANGED <<users, archives, requests, alone, tagsAlone>>

(* SaveArchive looks for the record before it puts it.                      *)
EditLooks(s) ==
  /\ At(s, "edit", "look")
  /\ req' = [req EXCEPT ![s].old = archives[req[s].archive] # None, ![s].at = "put"]
  /\ UNCHANGED <<users, archives, requests, alone, tagsAlone>>

(* Mutant: every save of the record is charged, an edit too.                *)
ChargeAlways(r) == [r EXCEPT !.at = "adjust", !.delta = r.size]

(* SaveArchive charges the owner for a record that was not there.           *)
Charge(r) == IF r.old THEN [r EXCEPT !.at = "adjusted"]
                      ELSE [r EXCEPT !.at = "adjust", !.delta = r.size]

SaveArchive(s) ==
  /\ req[s] # None /\ req[s].at = "put"
  /\ archives' = [archives EXCEPT ![req[s].archive] =
                    [owner |-> req[s].owner, size |-> req[s].size, tags |-> req[s].tags]]
  /\ req' = [req EXCEPT ![s] = Charge(@)]
  /\ UNCHANGED <<users, requests, alone, tagsAlone>>

Saved(s) ==
  /\ (At(s, "upload", "adjusted") \/ At(s, "edit", "adjusted"))
  /\ Finish(s)
  /\ UNCHANGED <<users, archives, requests, alone, tagsAlone>>

(***************************************************************************)
(* Deletion                                                                *)
(***************************************************************************)

(* A handler, a retention cycle or the removal of a node holds a copy of    *)
(* the record and has the worker clean up.                                  *)
DeleteStarts(s, a) ==
  /\ archives[a] # None
  /\ Begin(s, [op |-> "delete", at |-> "look", owner |-> archives[a].owner, archive |-> a,
               size |-> archives[a].size, tags |-> {}, old |-> FALSE, user |-> None, delta |-> 0])
  /\ UNCHANGED <<users, archives>>

(* Store.DeleteArchive reads the record again and stops when it is gone.    *)
DeleteGone(s) ==
  /\ At(s, "delete", "look") /\ archives[req[s].archive] = None
  /\ Finish(s)
  /\ UNCHANGED <<users, archives, requests, alone, tagsAlone>>

DeleteLooks(s) ==
  /\ At(s, "delete", "look") /\ archives[req[s].archive] # None
  /\ req' = [req EXCEPT ![s].delta = - archives[req[s].archive].size, ![s].at = "adjust"]
  /\ UNCHANGED <<users, archives, requests, alone, tagsAlone>>

(* The record goes last, after the ledger.                                  *)
DeleteRecord(s) ==
  /\ At(s, "delete", "adjusted")
  /\ archives' = [archives EXCEPT ![req[s].archive] = None]
  /\ Finish(s)
  /\ UNCHANGED <<users, requests, alone, tagsAlone>>

(***************************************************************************)
(* Users                                                                   *)
(***************************************************************************)

(* POST /api/users puts a new user, over an existing one of that name too.  *)
CreateUser(u, quota) ==
  /\ requests < MaxRequests
  /\ users' = [users EXCEPT ![u] = [quota |-> quota, used |-> 0]]
  /\ alone' = [alone EXCEPT ![u] = @ /\ Stored(u) = 0 /\ OnLedger(u) = {}]
  /\ requests' = requests + 1
  /\ UNCHANGED <<archives, req, tagsAlone>>

(* DELETE removes the user; the records of the user's archives stay.        *)
DeleteUser(u) ==
  /\ requests < MaxRequests /\ users[u] # None
  /\ users' = [users EXCEPT ![u] = None]
  /\ alone' = [alone EXCEPT ![u] = @ /\ Stored(u) = 0 /\ OnLedger(u) = {}]
  /\ requests' = requests + 1
  /\ UNCHANGED <<archives, req, tagsAlone>>

(* PUT reads the user, sets the quota in the copy ...                       *)
QuotaReads(s, u, quota) ==
  /\ users[u] # None
  /\ Begin(s, [op |-> "quota", at |-> "save", owner |-> u, archive |-> None, size |-> 0,
               tags |-> {}, old |-> FALSE, user |-> [users[u] EXCEPT !.quota = quota], delta |-> 0])
  /\ UNCHANGED <<users, archives>>

(* ... and saves the copy, the balance it read included.                    *)
QuotaSaves(s) ==
  /\ At(s, "quota", "save")
  /\ users' = [users EXCEPT ![req[s].owner] = req[s].user]
  /\ Finish(s)
  /\ UNCHANGED <<archives, requests, alone, tagsAlone>>

Init ==
  /\ users \in [Users -> [quota : Quotas, used : {0}]]
  /\ archives = [a \in Archives |-> None]
  /\ req = [s \in Slots |-> None]
  /\ requests = 0
  /\ alone = [u \in Users |-> TRUE]
  /\ tagsAlone = TRUE

Start(s) ==
  \/ \E u \in Users, size \in Sizes, tags \in TagSets : UploadChecksQuota(s, u, size, tags)
  \/ \E a \in Archives, tags \in TagSets : EditReads(s, a, tags)
  \/ \E a \in Archives : DeleteStarts(s, a)
  \/ \E u \in Users, quota \in Quotas : QuotaReads(s, u, quota)

Step(s) ==
  \/ UploadRefused(s) \/ UploadChecksTags(s) \/ UploadFails(s) \/ UploadForwards(s)
  \/ EditRefused(s) \/ EditChecksTags(s) \/ EditLooks(s)
  \/ SaveArchive(s) \/ Saved(s)
  \/ DeleteGone(s) \/ DeleteLooks(s) \/ DeleteRecord(s)
  \/ AdjustReads(s) \/ AdjustSaves(s) \/ QuotaSaves(s)

Next ==
  \/ \E s \in Slots : Start(s) \/ Step(s)
  \/ \E u \in Users, quota \in Quotas : CreateUser(u, quota)
  \/ \E u \in Users : DeleteUser(u)

Spec == Init /\ [][Next]_vars

--------------------------------------------------------------------------------

UserRecord == [quota : Quotas, used : Nat]
ArchiveRecord == [owner : Users, size : Sizes, tags : TagSets]
Request ==
  [op : {"upload", "edit", "delete", "quota"},
   at : {"tags", "forward", "look", "put", "adjust", "save", "adjusted"},
   owner : Users, archive : Archives \cup {None}, size : Sizes \cup {0}, tags : SUBSET Tags,
   old : BOOLEAN, user : UserRecord \cup {None}, delta : Int]

ASSUME NoRecordAssumption == None \notin UserRecord \cup ArchiveRecord \cup Request

(* The buckets and the requests have their types; the balance of a user is *)
(* never negative whatever the interleaving.                                *)
TypeOK ==
  /\ users \in [Users -> UserRecord \cup {None}]
  /\ archives \in [Archives -> ArchiveRecord \cup {None}]
  /\ req \in [Slots -> Request \cup {None}]
  /\ requests \in 0..MaxRequests
  /\ alone \in [Users -> BOOLEAN]
  /\ tagsAlone \in BOOLEAN

(* The ledger of a user is what the records of the user's archives add up   *)
(* to, whenever no request of the user is in progress, as long as the       *)
(* requests of that user never overlapped: the incremental accounting of    *)
(* SaveArchive and DeleteArchive loses nothing over uploads, edits, refused *)
(* and failed uploads, deletions and changes of the quota, those of other   *)
(* users in any interleaving.                                               *)
LedgerIsExact ==
  \A u \in Users :
    (alone[u] /\ OnLedger(u) = {} /\ users[u] # None) => users[u].used = Stored(u)

(* An upload that is recorded leaves the user within the quota the user has *)
(* at that moment, as long as the requests of that user never overlapped:   *)
(* the check at the start of the upload still holds at its end.             *)
UploadKeepsQuota ==
  [][\A u \in Users :
       (/\ alone[u] /\ users[u] # None /\ users[u].quota > 0
        /\ \E a \in Archives : archives[a] = None /\ archives'[a] # None /\ archives'[a].owner = u)
       => Stored(u)' <= users[u].quota]_vars

(* Two archives never share a tag, as long as requests that check tags did  *)
(* not overlap: a tag identifies an archive.                                *)
TagsAreUnique ==
  tagsAlone =>
    \A a, b \in Archives :
      (a # b /\ archives[a] # None /\ archives[b] # None)
      => archives[a].tags \cap archives[b].tags = {}

================================================================================
