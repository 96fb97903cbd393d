-------------------------- MODULE ArchiveLifecycle --------------------------
(***************************************************************************)
(* One log archive from its upload to its deletion: the upload handler,    *)
(* the worker that extracts and diagnoses it and calls back, the callback  *)
(* handler, the retry through the scheduler, the pin, the edit of its      *)
(* tags, the deletion by its owner and by the retention cycle              *)
(* (internal/manager/api.go, scheduler.go, retention.go, the archive and   *)
(* report buckets of internal/store/store.go, internal/worker/agent.go).   *)
(*                                                                         *)
(* Every handler reads a copy of the record and saves the whole copy       *)
(* later; only the pin is set inside one transaction.                      *)
(***************************************************************************)
EXTENDS Naturals, Functions

CONSTANTS
    MaxAttempts,     \* attempts of one callback (8 in the code)
    MaxFaults,       \* bounds: lost callbacks, crashes and restarts,
    MaxOps           \*   operations of the user and of the retention cycle

Fault     == {"loss", "crash", "restart"}
Operation == {"retry", "pin", "edit", "delete", "retain"}

ASSUME AttemptsType == MaxAttempts \in Nat \ {0}
ASSUME BoundsType   == MaxFaults \in Nat /\ MaxOps \in Nat

VARIABLES
    archive,    \* record in the store, or NoArchive
    report,     \* whether the store has a report
    upload,     \* upload handler
    job,        \* the worker's goroutine for the archive
    callback,   \* callback handler: copy of the record it works on
    dispatch,   \* the scheduler's goroutine, with its copy
    edit,       \* handler of the new tags, with its copy
    deletion,   \* DeleteArchiveStorageAndMeta
    disk,       \* what the worker has of it: file, extracted
    workerUp,
    faults, operations      \* so far, by kind

used == <<faults, operations>>
vars == <<archive, report, upload, job, callback, dispatch, edit, deletion, disk, workerUp, used>>

Status    == {"extracting", "analyzing", "ready", "failed"}
Record    == [status : Status, pinned : BOOLEAN]
NoArchive == [status |-> "none", pinned |-> FALSE]
Idle      == [at |-> "idle"]

Job == [at : {"extract", "call", "wait", "diagnose", "done"}, status : {"ready", "failed"},
        report : BOOLEAN, attempt : 0..MaxAttempts]

TypeOK ==
    /\ archive \in Record \cup {NoArchive} /\ report \in BOOLEAN
    /\ upload \in {"none", "forwarded", "done"}
    /\ job \in Job \cup {Idle}
    /\ callback \in [at : {"save", "report"}, copy : Record, report : BOOLEAN] \cup {Idle}
    /\ dispatch \in [at : {"mark", "start", "remote", "remoteReport", "local", "diagnose", "report", "finish"},
                     copy : Record] \cup {Idle}
    /\ edit \in [at : {"save"}, copy : Record] \cup {Idle}
    /\ deletion \in {"none", "clean", "report", "record"}
    /\ disk \subseteq {"file", "extracted"}
    /\ workerUp \in BOOLEAN
    /\ faults \in [Fault -> Nat] /\ operations \in [Operation -> Nat]

Init ==
    /\ archive = NoArchive /\ report = FALSE /\ upload = "none"
    /\ job = Idle /\ callback = Idle /\ dispatch = Idle /\ edit = Idle /\ deletion = "none"
    /\ disk = {} /\ workerUp = TRUE
    /\ faults = [f \in Fault |-> 0] /\ operations = [o \in Operation |-> 0]

Fails(f) ==
    /\ SumFunction(faults) < MaxFaults
    /\ faults' = [faults EXCEPT ![f] = @ + 1]
    /\ UNCHANGED operations

Uses(o) ==
    /\ SumFunction(operations) < MaxOps
    /\ operations' = [operations EXCEPT ![o] = @ + 1]
    /\ UNCHANGED faults

-----------------------------------------------------------------------------
(* handleUploadArchive and the worker's handleStorageUpload. *)

UploadForwards ==
    /\ upload = "none" /\ workerUp
    /\ upload' = "forwarded"
    /\ disk' = disk \cup {"file"}
    /\ job' = [at |-> "extract", status |-> "ready", report |-> FALSE, attempt |-> 0]
    /\ UNCHANGED <<archive, report, callback, dispatch, edit, deletion, workerUp, used>>

UploadSaves ==
    /\ upload = "forwarded"
    /\ upload' = "done"
    /\ archive' = [status |-> "extracting", pinned |-> FALSE]
    /\ UNCHANGED <<report, job, callback, dispatch, edit, deletion, disk, workerUp, used>>

-----------------------------------------------------------------------------
(* asyncProcessArchive and reportArchiveCallback. *)

JobExtracts ==
    /\ job.at = "extract"
    /\ \/ job' = [job EXCEPT !.at = "call"] /\ disk' = disk \cup {"extracted"}
       \/ job' = [job EXCEPT !.at = "call", !.status = "failed"] /\ UNCHANGED disk
    /\ UNCHANGED <<archive, report, upload, callback, dispatch, edit, deletion, workerUp, used>>

\* What a goroutine does when its callback has been delivered or given up.
AfterCall(j) ==
    [j EXCEPT !.at = IF j.status = "ready" /\ ~j.report THEN "diagnose" ELSE "done", !.attempt = 0]

\* Mutant: a callback is tried once.
FailedOnce(j) == AfterCall(j)

Failed(j) == IF j.attempt + 1 < MaxAttempts THEN [j EXCEPT !.attempt = @ + 1] ELSE AfterCall(j)

\* Mutant: a callback for a record that is not there yet makes one.
Upserted == IF archive = NoArchive THEN [status |-> "extracting", pinned |-> FALSE] ELSE archive

Known == archive

\* Mutant: a callback makes the archive ready whatever it says.
ReportedReady == "ready"

Reported == job.status

CallbackReads ==
    /\ job.at = "call" /\ callback = Idle /\ Known # NoArchive
    /\ callback' = [at |-> "save", copy |-> [Known EXCEPT !.status = Reported], report |-> job.report]
    /\ job' = [job EXCEPT !.at = "wait"]
    /\ UNCHANGED <<archive, report, upload, dispatch, edit, deletion, disk, workerUp, used>>

\* 404.  The next attempt is two seconds later: the upload handler has saved.
CallbackUnknown ==
    /\ job.at = "call" /\ callback = Idle /\ Known = NoArchive
    /\ job.attempt > 0 => upload # "forwarded"
    /\ job' = Failed(job)
    /\ UNCHANGED <<archive, report, upload, callback, dispatch, edit, deletion, disk, workerUp, used>>

\* The request or its answer is lost, or the manager is down.
CallbackLost ==
    /\ job.at \in {"call", "wait"} /\ Fails("loss")
    /\ job' = [Failed(job) EXCEPT !.at = IF @ = "wait" THEN "call" ELSE @]
    /\ UNCHANGED <<archive, report, upload, callback, dispatch, edit, deletion, disk, workerUp>>

CallbackSaves ==
    /\ callback.at = "save"
    /\ archive' = callback.copy
    /\ callback' = [callback EXCEPT !.at = "report"]
    /\ UNCHANGED <<report, upload, job, dispatch, edit, deletion, disk, workerUp, used>>

CallbackReports ==
    /\ callback.at = "report"
    /\ report' = (report \/ callback.report)
    /\ callback' = Idle
    /\ job' = IF job.at = "wait" THEN AfterCall(job) ELSE job
    /\ UNCHANGED <<archive, upload, dispatch, edit, deletion, disk, workerUp, used>>

JobDiagnoses ==
    /\ job.at = "diagnose"
    /\ \/ job' = [job EXCEPT !.at = "call", !.report = TRUE]
       \/ job' = [job EXCEPT !.at = "done"]
    /\ UNCHANGED <<archive, report, upload, callback, dispatch, edit, deletion, disk, workerUp, used>>

Callback == CallbackReads \/ CallbackUnknown \/ CallbackSaves \/ CallbackReports

-----------------------------------------------------------------------------
(* POST /api/archives/{id}/retry, DispatchAnalyzeTask, runLocalAnalyze and *)
(* callRemoteWorkerAnalyze, all with the copy the handler read.            *)

Retry ==
    /\ archive # NoArchive /\ dispatch = Idle /\ Uses("retry")
    /\ dispatch' = [at |-> "mark", copy |-> [archive EXCEPT !.status = "extracting"]]
    /\ UNCHANGED <<archive, report, upload, job, callback, edit, deletion, disk, workerUp>>

DispatchSaves(from, to, status) ==
    /\ dispatch.at = from
    /\ archive' = [dispatch.copy EXCEPT !.status = status]
    /\ dispatch' = IF to = "idle" THEN Idle
                   ELSE [at |-> to, copy |-> [dispatch.copy EXCEPT !.status = status]]
    /\ UNCHANGED <<report, upload, job, callback, edit, deletion, disk, workerUp, used>>

DispatchReports(from, to) ==
    /\ dispatch.at = from
    /\ dispatch' = [dispatch EXCEPT !.at = to]
    /\ report' = TRUE
    /\ UNCHANGED <<archive, upload, job, callback, edit, deletion, disk, workerUp, used>>

DispatchFallsBack ==
    /\ dispatch.at = "remote"
    /\ dispatch' = [dispatch EXCEPT !.at = "local"]
    /\ UNCHANGED <<archive, report, upload, job, callback, edit, deletion, disk, workerUp, used>>

DispatchAnalyzeTask ==
    \/ DispatchSaves("mark", "start", "extracting")       \* handler, then goroutine
    \/ DispatchSaves("start", "remote", "extracting")     \* AssignedWorker
    \/ DispatchSaves("start", "local", "extracting")      \* no worker to assign
    \/ DispatchReports("remote", "finish")
    \/ DispatchFallsBack
    \/ DispatchSaves("local", "idle", "failed")
    \/ DispatchSaves("local", "diagnose", "analyzing")
    \/ DispatchSaves("diagnose", "idle", "failed")
    \/ DispatchReports("diagnose", "finish")
    \/ DispatchSaves("finish", "idle", "ready")

-----------------------------------------------------------------------------
(* SetArchivePinned, the edit of the tags and remark, the deletions.       *)

SetArchivePinned(p) ==
    /\ archive # NoArchive /\ Uses("pin")
    /\ archive' = [archive EXCEPT !.pinned = p]
    /\ UNCHANGED <<report, upload, job, callback, dispatch, edit, deletion, disk, workerUp>>

EditReads ==
    /\ archive # NoArchive /\ edit = Idle /\ Uses("edit")
    /\ edit' = [at |-> "save", copy |-> archive]
    /\ UNCHANGED <<archive, report, upload, job, callback, dispatch, deletion, disk, workerUp>>

EditSaves ==
    /\ edit # Idle
    /\ archive' = edit.copy
    /\ edit' = Idle
    /\ UNCHANGED <<report, upload, job, callback, dispatch, deletion, disk, workerUp, used>>

\* The owner's request and the listing of the retention cycle check the pin alike.
DeleteStarts(by) ==
    /\ by \in {"delete", "retain"}
    /\ archive # NoArchive /\ ~archive.pinned
    /\ deletion = "none" /\ Uses(by)
    /\ deletion' = "clean"
    /\ UNCHANGED <<archive, report, upload, job, callback, dispatch, edit, disk, workerUp>>

\* The worker is asked once; a failure is logged.
DeleteCleans ==
    /\ deletion = "clean"
    /\ deletion' = "report"
    /\ disk' = IF workerUp THEN {} ELSE disk
    /\ UNCHANGED <<archive, report, upload, job, callback, dispatch, edit, workerUp, used>>

DeleteReport ==
    /\ deletion = "report"
    /\ IF archive = NoArchive THEN deletion' = "none" /\ UNCHANGED report
                              ELSE deletion' = "record" /\ report' = FALSE
    /\ UNCHANGED <<archive, upload, job, callback, dispatch, edit, disk, workerUp, used>>

DeleteRecord ==
    /\ deletion = "record"
    /\ deletion' = "none"
    /\ archive' = NoArchive
    /\ UNCHANGED <<report, upload, job, callback, dispatch, edit, disk, workerUp, used>>

Delete == DeleteCleans \/ DeleteReport \/ DeleteRecord

-----------------------------------------------------------------------------
(* A crash loses what runs in memory; nothing resumes it. *)

WorkerCrashes ==
    /\ workerUp /\ Fails("crash")
    /\ workerUp' = FALSE
    /\ job' = IF job = Idle THEN Idle ELSE [job EXCEPT !.at = "done"]
    /\ UNCHANGED <<archive, report, upload, callback, dispatch, edit, deletion, disk>>

WorkerRestarts ==
    /\ ~workerUp
    /\ workerUp' = TRUE
    /\ UNCHANGED <<archive, report, upload, job, callback, dispatch, edit, deletion, disk, used>>

ManagerRestarts ==
    /\ Fails("restart")
    /\ upload' = IF upload = "forwarded" THEN "done" ELSE upload
    /\ callback' = Idle /\ dispatch' = Idle /\ edit' = Idle /\ deletion' = "none"
    /\ job' = IF job.at = "wait" THEN [Failed(job) EXCEPT !.at = IF @ = "wait" THEN "call" ELSE @] ELSE job
    /\ UNCHANGED <<archive, report, disk, workerUp>>

-----------------------------------------------------------------------------

Next ==
    \/ UploadForwards \/ UploadSaves
    \/ JobExtracts \/ JobDiagnoses \/ Callback \/ CallbackLost
    \/ Retry \/ DispatchAnalyzeTask
    \/ \E p \in BOOLEAN : SetArchivePinned(p)
    \/ EditReads \/ EditSaves
    \/ \E by \in {"delete", "retain"} : DeleteStarts(by)
    \/ Delete
    \/ WorkerCrashes \/ WorkerRestarts \/ ManagerRestarts

Spec == Init /\ [][Next]_vars

(* Goroutines and handlers that have started go on, while their process lives. *)
Fairness ==
    /\ WF_vars(UploadSaves) /\ WF_vars(JobExtracts) /\ WF_vars(JobDiagnoses)
    /\ WF_vars(Callback) /\ WF_vars(DispatchAnalyzeTask)
    /\ WF_vars(EditSaves) /\ WF_vars(Delete)

FairSpec == Spec /\ Fairness

-----------------------------------------------------------------------------
(* Properties *)

(* An archive does not stay in extraction: it becomes ready or failed, or is *)
(* deleted, unless the worker crashed, the manager restarted after a retry,  *)
(* or an edit wrote back what it had read.                                   *)
ExtractionEnds ==
    archive.status = "extracting"
        ~> (\/ archive.status # "extracting"
            \/ faults["crash"] > 0 \/ operations["edit"] > 0
            \/ faults["restart"] > 0 /\ operations["retry"] > 0)

(* A report the worker has made gets to the store of an archive nobody       *)
(* deletes.                                                                  *)
ReportArrives ==
    (job.at = "call" /\ job.report)
        ~> (\/ report \/ archive = NoArchive
            \/ operations["delete"] + operations["retain"] > 0 \/ faults["crash"] > 0)

(* The store never says more than the worker found, whatever copies of the   *)
(* record are written back and whoever crashes.                              *)
OutcomeIsTheWorkers ==
    operations["retry"] = 0 =>
        /\ archive.status \in {"ready", "failed"} => job # Idle /\ job.status = archive.status
        /\ report => job # Idle /\ job.report

(* Only a retry, or an edit begun before, puts an archive that was ready     *)
(* back into extraction: no callback and no upload does.                     *)
ReadyIsFinal ==
    [][archive.status = "ready" /\ archive'.status = "extracting"
        => dispatch # Idle \/ EditSaves]_vars

(* Once the record is deleted and no handler holds a copy of it, the archive  *)
(* does not come back, whatever the worker, which may still be extracting it,  *)
(* calls back later and however often.  (A callback, a retry or an edit that   *)
(* read the record before saves it again.)                                     *)
DeletedStaysDeleted ==
    []((/\ upload = "done" /\ archive = NoArchive
        /\ callback = Idle /\ dispatch = Idle /\ edit = Idle)
          => [](archive = NoArchive))
=============================================================================
