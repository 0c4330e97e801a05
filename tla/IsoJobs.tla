------------------------------- MODULE IsoJobs -------------------------------
(***************************************************************************)
(* ISO versions and their extraction jobs: the web processes (upload,      *)
(* extract, purge switch, stop, delete, manual boot file, start-up         *)
(* cleanup), the Celery queue, and the Celery pool that runs extract_iso.  *)
(*                                                                         *)
(* The three sides only meet in the database (iso_versions, uploads), in   *)
(* the queue and on the disk that holds the ISO files.  A row of           *)
(* iso_versions is named by its id; SQLite gives a new row the largest id  *)
(* in use plus one, so the id of a deleted row can come back.              *)
(***************************************************************************)
EXTENDS Integers, FiniteSets

CONSTANTS
  MaxVersion,   \* bound: ids of iso_versions rows are 1..MaxVersion
  Jobs,         \* bound: the uploads rows of type "extraction" ever created
  Names,        \* ISO file names
  Concurrency,  \* size of the Celery pool (ipxe-celery runs with 2)
  NoVersion,    \* uploads.iso_version_id IS NULL
  NoIso         \* iso_versions.iso_path = ""

Versions == 1..MaxVersion

ASSUME IsoJobsAssumption ==
  /\ MaxVersion \in Nat
  /\ Concurrency \in Nat \ {0}
  /\ NoVersion \notin Versions
  /\ NoIso \notin Names

VARIABLES
  vstatus,    \* iso_versions.status, "absent" when there is no such row
  isoName,    \* base name of iso_versions.iso_path
  isoFile,    \* versions whose iso_path names a file that is on disk
  purge,      \* iso_versions.delete_iso_after_next_extract
  ustatus,    \* uploads.status of an extraction row, "none" before it exists
  link,       \* uploads.iso_version_id
  jobFile,    \* uploads.filename
  taskId,     \* rows whose uploads.task_id has been recorded
  target,     \* the version id in the job's extract_iso message
  pc,         \* where the job is between its route, the queue and the pool
  sawPurge,   \* the file a task will purge: iso_path if it read the flag as set
  revoking,   \* revoke(terminate=True) sent and not yet delivered
  startDue,   \* a web process died and systemd/uvicorn owes a new one
  lost,       \* history: jobs nobody will settle (killed, or locked out)
  reused      \* history: ids given to a new row while an old job targets them

dbVars   == <<vstatus, isoName, purge, ustatus, link, jobFile, taskId>>
taskVars == <<target, pc, sawPurge, revoking>>
vars     == <<vstatus, isoName, isoFile, purge, ustatus, link, jobFile, taskId,
              target, pc, sawPurge, revoking, startDue, lost, reused>>

VersionStatus == {"absent", "uploaded", "extracting", "ready", "error"}
UploadStatus  == {"none", "pending", "processing", "done", "error"}

\* "posting": the extract route has committed and not yet called delay();
\* "extracted": extract_iso returned; "unlinked": the ISO was purged and the
\* result is not committed; "menus": committed, post-processing runs;
\* "failing": an exception reached the handler of the task.
InPool == {"extracting", "extracted", "unlinked", "menus", "failing"}
Live   == {"posting", "queued"} \cup InPool
Places == {"none", "ended"} \cup Live

Exists(v)  == vstatus[v] # "absent"
Active(j)  == ustatus[j] \in {"pending", "processing"}
Running    == {j \in Jobs : pc[j] \in InPool}
-----------------------------------------------------------------------------
Init ==
  /\ vstatus = [v \in Versions |-> "absent"]
  /\ isoName = [v \in Versions |-> NoIso]
  /\ isoFile = {}
  /\ purge = {}
  /\ ustatus = [j \in Jobs |-> "none"]
  /\ link = [j \in Jobs |-> NoVersion]
  /\ jobFile = [j \in Jobs |-> NoIso]
  /\ taskId = {}
  /\ target = [j \in Jobs |-> NoVersion]
  /\ pc = [j \in Jobs |-> "none"]
  /\ sawPurge = [j \in Jobs |-> NoIso]
  /\ revoking = {}
  /\ startDue = FALSE
  /\ lost = {}
  /\ reused = {}

(***************************************************************************)
(* Web: versions.                                                          *)
(***************************************************************************)
IsNextId(v) ==
  /\ \A u \in Versions : Exists(u) => u < v
  /\ v = 1 \/ (v - 1 \in Versions /\ Exists(v - 1))

\* upload_iso: the row is flushed first (it takes its id), the files are
\* written, then one commit.  A failed upload rolls back and discards what it
\* wrote.  Without an ISO the version comes with manual boot files or none.
UploadIso(v, n, manual) ==
  /\ IsNextId(v)
  /\ vstatus' = [vstatus EXCEPT ![v] = IF manual THEN "ready" ELSE "uploaded"]
  /\ isoName' = [isoName EXCEPT ![v] = n]
  /\ isoFile' = IF n = NoIso THEN isoFile ELSE isoFile \cup {v}
  /\ reused' = IF \E j \in Jobs : target[j] = v /\ pc[j] \in Live
               THEN reused \cup {v} ELSE reused \ {v}
  /\ UNCHANGED <<purge, ustatus, link, jobFile, taskId, taskVars, startDue, lost>>

\* set_purge_iso_preference: switching it on requires the file.
SetPurge(v, enabled) ==
  /\ Exists(v)
  /\ enabled => v \in isoFile
  /\ purge' = IF enabled THEN purge \cup {v} ELSE purge \ {v}
  /\ UNCHANGED <<vstatus, isoName, isoFile, ustatus, link, jobFile, taskId, taskVars,
                 startDue, lost, reused>>

\* The version page drops a purge request that has no ISO left to act on.
ViewDetail(v) ==
  /\ Exists(v) /\ v \in purge /\ v \notin isoFile
  /\ purge' = purge \ {v}
  /\ UNCHANGED <<vstatus, isoName, isoFile, ustatus, link, jobFile, taskId, taskVars,
                 startDue, lost, reused>>

\* upload_boot_file: any status becomes "ready", "extracting" included.
UploadBootFile(v) ==
  /\ Exists(v)
  /\ vstatus' = [vstatus EXCEPT ![v] = "ready"]
  /\ UNCHANGED <<isoName, isoFile, purge, ustatus, link, jobFile, taskId, taskVars,
                 startDue, lost, reused>>

\* delete_iso: files first, then the uploads rows are detached, then the row
\* goes.  Nothing looks at the status: an extraction may be queued or running.
DeleteIso(v) ==
  /\ Exists(v)
  /\ isoFile' = isoFile \ {v}
  /\ link' = [j \in Jobs |-> IF link[j] = v THEN NoVersion ELSE link[j]]
  /\ vstatus' = [vstatus EXCEPT ![v] = "absent"]
  /\ isoName' = [isoName EXCEPT ![v] = NoIso]
  /\ purge' = purge \ {v}
  /\ UNCHANGED <<ustatus, jobFile, taskId, taskVars, startDue, lost, reused>>

(***************************************************************************)
(* Web: the extract route.                                                 *)
(***************************************************************************)
\* The ISO must be there; a running extraction of the same version is no
\* obstacle.  Row and status are committed before the message is sent.
Extract(v, j) ==
  /\ Exists(v) /\ v \in isoFile
  /\ pc[j] = "none"
  /\ ustatus' = [ustatus EXCEPT ![j] = "pending"]
  /\ link' = [link EXCEPT ![j] = v]
  /\ jobFile' = [jobFile EXCEPT ![j] = isoName[v]]
  /\ vstatus' = [vstatus EXCEPT ![v] = "extracting"]
  /\ target' = [target EXCEPT ![j] = v]
  /\ pc' = [pc EXCEPT ![j] = "posting"]
  /\ UNCHANGED <<isoName, isoFile, purge, taskId, sawPurge, revoking, startDue,
                 lost, reused>>

Enqueue(j) ==
  /\ pc[j] = "posting"
  /\ pc' = [pc EXCEPT ![j] = "queued"]
  /\ UNCHANGED <<dbVars, isoFile, target, sawPurge, revoking, startDue, lost, reused>>

\* delay() raised: one commit puts both rows in error.  When the version has
\* been deleted meanwhile its UPDATE matches no row and the commit fails.
EnqueueFails(j) ==
  /\ pc[j] = "posting"
  /\ pc' = [pc EXCEPT ![j] = "ended"]
  /\ IF Exists(target[j])
     THEN /\ vstatus' = [vstatus EXCEPT ![target[j]] = "error"]
          /\ ustatus' = [ustatus EXCEPT ![j] = "error"]
          /\ UNCHANGED lost
     ELSE /\ lost' = lost \cup {j}
          /\ UNCHANGED <<vstatus, ustatus>>
  /\ UNCHANGED <<isoName, isoFile, purge, link, jobFile, taskId, target, sawPurge,
                 revoking, startDue, reused>>

(***************************************************************************)
(* Web: stop a job, stop all jobs, process start.                          *)
(***************************************************************************)
\* _resolve_version_for_upload: the linked row; for a detached extraction row
\* an extracting version with that file name, else the only extracting one.
Resolve(j) ==
  LET extracting == {v \in Versions : vstatus[v] = "extracting"}
      sameName   == {v \in extracting : isoName[v] # NoIso /\ isoName[v] = jobFile[j]}
  IN IF link[j] # NoVersion THEN {link[j]}
     ELSE IF sameName # {}
          THEN {CHOOSE v \in sameName : \A u \in sameName : v <= u}
          ELSE IF Cardinality(extracting) = 1 THEN extracting ELSE {}

\* _mark_error puts a version that is not finished in error.
Unfinished_NotExtracting(v) == vstatus[v] = "uploaded"   \* faulty
Unfinished(v) == vstatus[v] \in {"extracting", "uploaded"}

\* kill_job: revoke by task_id when there is one (a queued job has none), then
\* _mark_error on the row and on the version it resolves to.
KillJob(j) ==
  /\ ustatus[j] # "none"
  /\ revoking' = IF j \in taskId THEN revoking \cup ({j} \cap Running) ELSE revoking
  /\ ustatus' = [ustatus EXCEPT ![j] = "error"]
  /\ vstatus' = [v \in Versions |->
                   IF v \in Resolve(j) /\ Unfinished(v) THEN "error" ELSE vstatus[v]]
  /\ UNCHANGED <<isoName, isoFile, purge, link, jobFile, taskId, target, pc, sawPurge,
                 startDue, lost, reused>>

\* kill_all_jobs: the same for every active row, then every version still
\* extracting.
KillAll ==
  LET active == {j \in Jobs : Active(j)}
  IN /\ revoking' = revoking \cup (active \cap taskId \cap Running)
     /\ ustatus' = [j \in Jobs |-> IF j \in active THEN "error" ELSE ustatus[j]]
     /\ vstatus' = [v \in Versions |->
                      IF \/ vstatus[v] = "extracting"
                         \/ Unfinished(v) /\ \E j \in active : link[j] = v
                      THEN "error" ELSE vstatus[v]]
     /\ UNCHANGED <<isoName, isoFile, purge, link, jobFile, taskId, target, pc, sawPurge,
                    startDue, lost, reused>>

\* A task is over: its session and its pending revocation go with it.
End(j) ==
  /\ pc' = [pc EXCEPT ![j] = "ended"]
  /\ sawPurge' = [sawPurge EXCEPT ![j] = NoIso]
  /\ revoking' = revoking \ {j}

\* The pool process dies with the task and nobody touches the rows.
DieInPool(j) ==
  /\ pc[j] \in InPool
  /\ End(j)
  /\ lost' = IF Active(j) THEN lost \cup {j} ELSE lost
  /\ UNCHANGED <<dbVars, isoFile, target, startDue, reused>>

\* SIGKILL reaches the pool process that runs the task.
DeliverRevoke(j) == j \in revoking /\ DieInPool(j)

\* The web process that was about to call delay() dies.
WebCrash(j) ==
  /\ pc[j] = "posting"
  /\ pc' = [pc EXCEPT ![j] = "ended"]
  /\ startDue' = TRUE
  /\ UNCHANGED <<dbVars, isoFile, target, sawPurge, revoking, lost, reused>>

\* _cleanup_stale_uploads runs whenever a web process starts (there are two,
\* and a deployment restarts them); Celery and the other process go on.
Stale_Processing(j) == ustatus[j] = "processing"   \* faulty
Stale(j) == Active(j)

WebStart ==
  /\ ustatus' = [j \in Jobs |-> IF Stale(j) THEN "error" ELSE ustatus[j]]
  /\ vstatus' = [v \in Versions |->
                   IF vstatus[v] = "extracting" THEN "error" ELSE vstatus[v]]
  /\ startDue' = FALSE
  /\ UNCHANGED <<isoName, isoFile, purge, link, jobFile, taskId, taskVars, lost, reused>>

(***************************************************************************)
(* Celery pool: extract_iso_task.                                          *)
(***************************************************************************)
Move(j, from, to) == pc[j] = from /\ pc' = [pc EXCEPT ![j] = to]

\* First transaction.  The attributes of the version, purge flag included, are
\* reloaded right after it and then stay as they are until the task's next
\* commit.  A missing version or ISO is an exception.
Start(j) ==
  LET v == target[j]
  IN /\ pc[j] = "queued"
     /\ Cardinality(Running) < Concurrency
     /\ IF Exists(v)
        THEN /\ vstatus' = [vstatus EXCEPT ![v] = "extracting"]
             /\ ustatus' = [ustatus EXCEPT ![j] = "processing"]
             /\ taskId' = taskId \cup {j}
             /\ sawPurge' = [sawPurge EXCEPT ![j] = IF v \in purge THEN isoName[v] ELSE NoIso]
             /\ pc' = [pc EXCEPT ![j] = IF v \in isoFile THEN "extracting" ELSE "failing"]
        ELSE /\ pc' = [pc EXCEPT ![j] = "failing"]
             /\ UNCHANGED <<vstatus, ustatus, taskId, sawPurge>>
     /\ UNCHANGED <<isoName, isoFile, purge, link, jobFile, target, revoking, startDue,
                    lost, reused>>

ExtractOk(j) ==
  /\ Move(j, "extracting", "extracted")
  /\ UNCHANGED <<dbVars, isoFile, target, sawPurge, revoking, startDue, lost, reused>>

\* No tool extracts the image, the disk is full, the database stays locked, the
\* soft time limit expires, the menus directory cannot be prepared: whatever is
\* raised while the task runs ends in its handler.
TaskFails(j) ==
  /\ pc[j] \in InPool \ {"failing"}
  /\ pc' = [pc EXCEPT ![j] = "failing"]
  /\ UNCHANGED <<dbVars, isoFile, target, sawPurge, revoking, startDue, lost, reused>>

\* The purge comes before the commit that records the extraction.
PurgeIso(j) ==
  /\ Move(j, "extracted", "unlinked")
  /\ sawPurge[j] # NoIso
  /\ target[j] \in isoFile /\ isoName[target[j]] = sawPurge[j]
  /\ isoFile' = isoFile \ {target[j]}
  /\ UNCHANGED <<dbVars, target, sawPurge, revoking, startDue, lost, reused>>

\* An UPDATE by id that matches no row raises StaleDataError.
RowMatched_Ignored(v) == TRUE   \* faulty
RowMatched(v) == Exists(v)

\* Second transaction: version and upload together, whatever their status has
\* become meanwhile.
CommitResult(j) ==
  LET v == target[j]
  IN /\ pc[j] \in {"extracted", "unlinked"}
     /\ IF RowMatched(v)
        THEN /\ vstatus' = [vstatus EXCEPT ![v] = "ready"]
             /\ ustatus' = [ustatus EXCEPT ![j] = "done"]
             /\ purge' = IF sawPurge[j] # NoIso THEN purge \ {v} ELSE purge
             /\ isoName' = [isoName EXCEPT ![v] = IF pc[j] = "unlinked" THEN NoIso ELSE @]
             /\ isoFile' = IF pc[j] = "unlinked" THEN isoFile \ {v} ELSE isoFile
             /\ pc' = [pc EXCEPT ![j] = "menus"]
        ELSE /\ pc' = [pc EXCEPT ![j] = "failing"]
             /\ UNCHANGED <<vstatus, ustatus, purge, isoName, isoFile>>
     /\ UNCHANGED <<link, jobFile, taskId, target, sawPurge, revoking, startDue,
                    lost, reused>>

TaskReturns(j) ==
  /\ pc[j] = "menus"
  /\ End(j)
  /\ UNCHANGED <<dbVars, isoFile, target, startDue, lost, reused>>

\* What the handlers write in the upload row.
Failed_Typo(j) == ustatus' = [ustatus EXCEPT ![j] = "failed"]   \* faulty
Failed_Skipped(j) == UNCHANGED ustatus   \* faulty
Failed(j) == ustatus' = [ustatus EXCEPT ![j] = "error"]

\* Both exception handlers: roll back, then version (if any) and upload in error.
Settle(j) ==
  /\ pc[j] = "failing"
  /\ End(j)
  /\ vstatus' = IF Exists(target[j])
                THEN [vstatus EXCEPT ![target[j]] = "error"] ELSE vstatus
  /\ Failed(j)
  /\ UNCHANGED <<isoName, isoFile, purge, link, jobFile, taskId, target, startDue,
                 lost, reused>>

\* The handler's own commit fails and the exception is swallowed.
SettleLocked(j) == pc[j] = "failing" /\ DieInPool(j)

\* Hard time limit, out of memory, restart of ipxe-celery.  The message was
\* acknowledged when the task started: it does not come back.
WorkerCrash(j) == DieInPool(j)
-----------------------------------------------------------------------------
Web ==
  \/ \E v \in Versions, n \in Names \cup {NoIso}, manual \in BOOLEAN : UploadIso(v, n, manual)
  \/ \E v \in Versions, enabled \in BOOLEAN : SetPurge(v, enabled)
  \/ \E v \in Versions : ViewDetail(v)
  \/ \E v \in Versions : UploadBootFile(v)
  \/ \E v \in Versions : DeleteIso(v)
  \/ \E v \in Versions, j \in Jobs : Extract(v, j)
  \/ \E j \in Jobs : KillJob(j)
  \/ KillAll
  \/ WebStart

\* What the code does on its own once a job exists.
Progress(j) ==
  \/ Enqueue(j)
  \/ EnqueueFails(j)
  \/ Start(j)
  \/ ExtractOk(j)
  \/ TaskFails(j)
  \/ PurgeIso(j)
  \/ CommitResult(j)
  \/ TaskReturns(j)
  \/ Settle(j)
  \/ SettleLocked(j)

Fault(j) ==
  \/ DeliverRevoke(j)
  \/ WebCrash(j)
  \/ WorkerCrash(j)

Next ==
  \/ Web
  \/ \E j \in Jobs : Progress(j)
  \/ \E j \in Jobs : Fault(j)

Spec == Init /\ [][Next]_vars

\* Tasks are bounded by time limits and the pool always takes the next message;
\* a dead web process is started again (Restart=always).
Fairness ==
  /\ \A j \in Jobs : WF_vars(Progress(j))
  /\ WF_vars(startDue /\ WebStart)

FairSpec == Spec /\ Fairness
-----------------------------------------------------------------------------
TypeOK ==
  /\ vstatus \in [Versions -> VersionStatus]
  /\ isoName \in [Versions -> Names \cup {NoIso}]
  /\ isoFile \subseteq Versions
  /\ purge \subseteq Versions
  /\ ustatus \in [Jobs -> UploadStatus]
  /\ link \in [Jobs -> Versions \cup {NoVersion}]
  /\ jobFile \in [Jobs -> Names \cup {NoIso}]
  /\ taskId \subseteq Jobs
  /\ target \in [Jobs -> Versions \cup {NoVersion}]
  /\ pc \in [Jobs -> Places]
  /\ sawPurge \in [Jobs -> Names \cup {NoIso}]
  /\ revoking \subseteq Jobs
  /\ startDue \in BOOLEAN
  /\ lost \subseteq Jobs
  /\ reused \subseteq Versions

\* A version shown as "extracting" has a job of its own that is still pending or
\* processing, so that the jobs page can stop it.  Only an id handed to a new row
\* while an extraction of the old row was alive escapes.
ExtractingHasActiveJob ==
  \A v \in Versions : vstatus[v] = "extracting" /\ v \notin reused =>
    \E j \in Jobs : link[j] = v /\ Active(j)

\* A row that says pending or processing has its task in the route, the queue or
\* the pool; the exceptions are jobs killed from outside, jobs locked out of the
\* database when they wanted to record their failure, and those a dead web process
\* leaves to the cleanup of the next one.
ActiveJobIsLive ==
  \A j \in Jobs : Active(j) => pc[j] \in Live \/ j \in lost \/ startDue

\* A job only becomes "done" together with its own version becoming "ready": an
\* extraction that outlives the deletion of its version is never reported as a
\* success (unless SQLite gave the id away again).
DoneForOwnVersion ==
  [][\A j \in Jobs : ustatus[j] # "done" /\ ustatus'[j] = "done" =>
       /\ vstatus'[target[j]] = "ready"
       /\ link[j] = target[j] \/ target[j] \in reused]_vars

\* Every job ends up done or in error, or was killed from outside.
EveryJobSettles ==
  \A j \in Jobs : Active(j) ~> (~Active(j) \/ j \in lost)
=============================================================================
