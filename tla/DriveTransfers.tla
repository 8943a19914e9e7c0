----------------------------- MODULE DriveTransfers -----------------------------
(***************************************************************************)
(* DRIVE_UPLOAD, DRIVE_DOWNLOAD and DRIVE_DELETE jobs: the copies in the    *)
(* Drive namespace and in backups/, the records of both places in one       *)
(* table, remote retention before an upload, and what a restart cleans up.  *)
(* A backup stands for its file name; they are numbered by creation.        *)
(* A job holds the id of a record; SQLite gives a new record the highest id *)
(* plus one, so the id of a deleted newest record is given out again.       *)
(***************************************************************************)
EXTENDS Naturals, FiniteSetsExt

CONSTANTS
  MaxBackups,      \* bound: local backups ever made
  MaxJobs,         \* bound: Drive jobs ever requested
  MaxReads,        \* bound: different requests between their read and their insert
  MaxRetention,    \* bound: values of both retention settings, 30 and 100 in the code
  MaxFailures      \* bound: failed calls of rclone, the disk or the database, and deaths

ASSUME DriveAssumption ==
  /\ MaxBackups \in Nat /\ MaxJobs \in Nat /\ MaxFailures \in Nat
  /\ MaxReads \in Nat /\ MaxRetention \in Nat

Backups == 1..MaxBackups
Retentions == 1..MaxRetention
JobIds == 1..MaxJobs
NoJob == 0
MaxRecordId == MaxBackups + MaxJobs

Kinds == {"UPLOAD", "DOWNLOAD", "DELETE"}
Terminal == {"SUCCEEDED", "FAILED", "CANCELLED", "INTERRUPTED"}

VARIABLES
  made,         \* backups made so far
  records,      \* backup_records, VALID
  localFiles,   \* archives in backups/
  remoteFiles,  \* archives in the Drive namespace
  partials,     \* jobs with a .partial upload in the namespace
  staging,      \* jobs with a directory under tmp/drive
  requests,     \* what web threads have read of the record, the insert to come
  job,          \* rows of the Drive jobs
  lastId,       \* highest job id inserted
  step,         \* where the worker is
  current,      \* the job it executes
  limit,        \* drive_backup_retention as the upload read it
  torn,         \* history: copies deleted by a transaction that never committed
  blind,        \* history: copies whose taken name a failed call reported as free
  bereft,       \* history: jobs whose record was removed after their request read it
  stranded,     \* history: jobs whose last write failed
  failures

files     == <<localFiles, remoteFiles>>
leftovers == <<partials, staging>>
queue     == <<requests, job, lastId>>
history   == <<torn, blind, bereft, stranded, failures>>
driveVars == <<made, records, localFiles, remoteFiles, partials, staging, requests, job, lastId,
               step, current, limit, torn, blind, bereft, stranded, failures>>

NoRow == [kind |-> "NONE", record |-> 0, backup |-> 0, status |-> "ABSENT",
          cancellable |-> FALSE, cancel |-> FALSE]

DriveInit ==
  /\ made = 0
  /\ records = {}
  /\ localFiles = {} /\ remoteFiles = {}
  /\ partials = {} /\ staging = {}
  /\ requests = {}
  /\ job = [j \in JobIds |-> NoRow]
  /\ lastId = 0
  /\ step = "idle" /\ current = NoJob
  /\ limit = 0
  /\ torn = {} /\ blind = {} /\ bereft = {} /\ stranded = {} /\ failures = 0

-----------------------------------------------------------------------------
(* Records. *)

On(location) == {r \in records : r.location = location}
CopiesOn(location) == {r.backup : r \in On(location)}

(* Mutant of NextRecordId: ids are counted, so one is given out twice.        *)
NextRecordIdCounted == 1 + Cardinality(records)

NextRecordId == 1 + Max({0} \cup {r.id : r \in records})
Record(location, b) == [id |-> NextRecordId, location |-> location, backup |-> b]

Newest(S, n) == {r \in S : Cardinality({q \in S : q.backup > r.backup}) < n}

(* apply_local_retention once `new` is inserted: it is kept, then the newest. *)
(* Administrators save other settings at any time, so n, like the limit of an *)
(* upload, is any of them.                                                   *)
DroppedBy(new, protected, n) ==
  LET rest == On("LOCAL")
      kept == IF protected THEN {new} \cup Newest(rest, n - 1)
                           ELSE Newest(rest \cup {new}, n)
  IN (rest \cup {new}) \ kept

-----------------------------------------------------------------------------
(* Requests. *)

Active(j) == job[j].status \in {"PENDING", "RUNNING"}

(* The jobs that lose the record they name, and the requests that read it.   *)
Naming(gone) == {j \in JobIds : Active(j) /\ job[j].record \in {r.id : r \in gone}}

Bereave(gone) ==
  /\ bereft' = bereft \cup Naming(gone)
  /\ requests' = {[q EXCEPT !.bereft = @ \/ q.record \in {r.id : r \in gone}] : q \in requests}

(* Uploads are keyed by their local record, the others by the remote one.    *)
SameKey(kind, other) == (kind = "UPLOAD") <=> (other = "UPLOAD")
KeyFree(kind, id) ==
  \A j \in JobIds : Active(j) /\ job[j].record = id => ~SameKey(kind, job[j].kind)

(* A web thread finds the record valid, no copy in the other place and the   *)
(* key free.                                                                 *)
Read(kind, r) ==
  /\ KeyFree(kind, r.id)
  /\ requests' = requests \cup
       {[kind |-> kind, record |-> r.id, backup |-> r.backup, bereft |-> FALSE]}
  /\ Cardinality(requests') <= MaxReads
  /\ UNCHANGED <<made, records, files, leftovers, job, lastId, step, current, limit, history>>

RequestUpload ==
  \E r \in On("LOCAL") : r.backup \notin CopiesOn("DRIVE") /\ Read("UPLOAD", r)

RequestDownload ==
  \E r \in On("DRIVE") : r.backup \notin CopiesOn("LOCAL") /\ Read("DOWNLOAD", r)

RequestDelete == \E r \in On("DRIVE") : Read("DELETE", r)

(* The index admits one active job per key.                                  *)
Insert(kind, id, b) ==
  /\ lastId < MaxJobs
  /\ KeyFree(kind, id)
  /\ lastId' = lastId + 1
  /\ job' = [job EXCEPT ![lastId'] =
               [kind |-> kind, record |-> id, backup |-> b, status |-> "PENDING",
                cancellable |-> kind # "DELETE", cancel |-> FALSE]]

(* The insert is a later statement, which looks at the key alone. Several    *)
(* threads may have read the same, so the request may still be there.        *)
Enqueue(q) ==
  /\ Insert(q.kind, q.record, q.backup)
  /\ requests' \in {requests, requests \ {q}}
  /\ bereft' = IF q.bereft THEN bereft \cup {lastId'} ELSE bereft
  /\ UNCHANGED <<made, records, files, leftovers, step, current, limit,
                 torn, blind, stranded, failures>>

Conflict(q) ==
  /\ ~KeyFree(q.kind, q.record)
  /\ requests' = requests \ {q}
  /\ UNCHANGED <<made, records, files, leftovers, job, lastId, step, current, limit, history>>

RequestCancel(j) ==
  /\ Active(j)
  /\ job[j].cancellable /\ ~job[j].cancel
  /\ job' = [job EXCEPT ![j].cancel = TRUE]
  /\ UNCHANGED <<made, records, files, leftovers, requests, lastId, step, current, limit,
                 history>>

(* A LOCAL_BACKUP job that succeeded (its steps are those of LocalBackup); an *)
(* automatic one requests the upload in the transaction of its success.      *)
MakeBackup ==
  /\ step = "idle"
  /\ made < MaxBackups
  /\ made' = made + 1
  /\ \E n \in Retentions :
       LET new  == Record("LOCAL", made')
           gone == DroppedBy(new, FALSE, n)
       IN
        /\ records' = (records \cup {new}) \ gone
        /\ Bereave(gone)
        /\ localFiles' = (localFiles \cup {made'}) \ {r.backup : r \in gone}
        /\ \/ Insert("UPLOAD", new.id, new.backup)
           \/ UNCHANGED <<job, lastId>>
  /\ UNCHANGED <<remoteFiles, leftovers, step, current, limit, torn, blind, stranded,
                 failures>>

-----------------------------------------------------------------------------
(* The executor. *)

At(s, next) == step = s /\ step' = next

Kind == job[current].kind
Target == CHOOSE r \in records : r.id = job[current].record
TargetOn(location) == \E r \in On(location) : r.id = job[current].record
Cancels == job[current].cancel /\ job[current].cancellable

FirstStep(kind) ==
  CASE kind = "UPLOAD" -> "validating" [] kind = "DOWNLOAD" -> "downloading"
    [] kind = "DELETE" -> "deleting"

Pending == {j \in JobIds : job[j].status = "PENDING"}

(* The oldest request first.                                                 *)
ClaimTransfer ==
  /\ step = "idle"
  /\ Pending # {}
  /\ LET j == Min(Pending) IN
       /\ job' = [job EXCEPT ![j].status = "RUNNING"]
       /\ current' = j
       /\ step' = FirstStep(job[j].kind)
  /\ UNCHANGED <<made, records, files, leftovers, requests, lastId, limit, history>>

(* A checkpoint finds the request.  The last one comes after the copy was    *)
(* published, and what was published stays.                                  *)
CheckpointCancels ==
  /\ step \in {"validating", "uploading", "published", "downloading", "imported"}
  /\ Cancels
  /\ step' = "cancelled"
  /\ UNCHANGED <<made, records, files, leftovers, queue, current, limit, history>>

(* The setting is read once, before the first removal.                        *)
ValidateLocal ==
  /\ step = "validating" /\ ~Cancels
  /\ step' = IF TargetOn("LOCAL") THEN "capacity" ELSE "failed"
  /\ limit' \in Retentions
  /\ UNCHANGED <<made, records, files, leftovers, queue, current, history>>

Oldest == CHOOSE r \in On("DRIVE") : \A q \in On("DRIVE") : r.backup <= q.backup

(* The oldest managed copy goes: first the file, then the record.            *)
Retire ==
  /\ On("DRIVE") # {}
  /\ IF Oldest.backup \in remoteFiles
       THEN step' = "retiring" /\ remoteFiles' = remoteFiles \ {Oldest.backup}
       ELSE step' = "failed" /\ UNCHANGED remoteFiles

RetireForRetention ==
  /\ step = "capacity"
  /\ Cardinality(On("DRIVE")) >= limit
  /\ Retire
  /\ UNCHANGED <<made, records, localFiles, leftovers, queue, current, limit, history>>

CommitRetirement ==
  /\ At("retiring", "capacity")
  /\ records' = records \ {Oldest}
  /\ Bereave({Oldest})
  /\ UNCHANGED <<made, files, leftovers, job, lastId, current, limit, torn, blind, stranded,
                 failures>>

(* Mutant of RetentionMet: one copy more than the upload read.               *)
RetentionMetLate ==
  /\ step = "capacity"
  /\ Cardinality(On("DRIVE")) <= limit
  /\ step' = "quota"
  /\ UNCHANGED <<made, records, files, leftovers, queue, current, limit, history>>

RetentionMet ==
  /\ step = "capacity"
  /\ Cardinality(On("DRIVE")) < limit
  /\ step' = "quota"
  /\ UNCHANGED <<made, records, files, leftovers, queue, current, limit, history>>

(* Sizes and quota are the Drive's: whether the archive fits is its answer.  *)
Fits ==
  /\ At("quota", "uploading")
  /\ UNCHANGED <<made, records, files, leftovers, queue, current, limit, history>>

RetireForQuota ==
  /\ step = "quota"
  /\ IF Cancels THEN step' = "cancelled" /\ UNCHANGED remoteFiles ELSE Retire
  /\ On("DRIVE") # {}
  /\ UNCHANGED <<made, records, localFiles, leftovers, queue, current, limit, history>>

DoesNotFit ==
  /\ At("quota", "failed")
  /\ On("DRIVE") = {}
  /\ UNCHANGED <<made, records, files, leftovers, queue, current, limit, history>>

(* Mutant of StartUpload: an upload that finds its name taken removes the    *)
(* copy as if it had published it.                                           *)
StartUploadUndoing ==
  /\ step = "uploading" /\ ~Cancels
  /\ step' = IF Target.backup \in remoteFiles THEN "failed" ELSE "copying"
  /\ remoteFiles' = remoteFiles \ {Target.backup}
  /\ partials' = IF step' = "copying" THEN partials \cup {current} ELSE partials
  /\ UNCHANGED <<made, records, localFiles, staging, queue, current, limit, history>>

Fault == failures < MaxFailures /\ failures' = failures + 1

StartUpload ==
  /\ step = "uploading" /\ ~Cancels
  /\ IF Target.backup \in remoteFiles
       THEN step' = "failed" /\ UNCHANGED partials
       ELSE step' = "copying" /\ partials' = partials \cup {current}
  /\ UNCHANGED <<made, records, files, staging, queue, current, limit, history>>

(* Every error of the call that looks the name up says that it is free.      *)
StartUploadBlind ==
  /\ step = "uploading" /\ ~Cancels
  /\ Target.backup \in remoteFiles
  /\ Fault
  /\ blind' = blind \cup {Target.backup}
  /\ step' = "copying" /\ partials' = partials \cup {current}
  /\ UNCHANGED <<made, records, files, staging, queue, current, limit, torn, bereft, stranded>>

(* A cancel seen while rclone runs: the partial copy or the staging          *)
(* directory is removed, unless the Drive does not answer.                   *)
CancelTransfer ==
  /\ step \in {"copying", "fetching"}
  /\ Cancels
  /\ step' = "cancelled"
  /\ staging' = staging \ {current}
  /\ partials' \in {partials, partials \ {current}}
  /\ UNCHANGED <<made, records, files, queue, current, limit, history>>

(* Over an equal file of that name the move leaves that one in its place.    *)
Publish ==
  /\ At("copying", "published") /\ ~Cancels
  /\ partials' = partials \ {current}
  /\ remoteFiles' = remoteFiles \cup {Target.backup}
  /\ UNCHANGED <<made, records, localFiles, staging, queue, current, limit, history>>

StartDownload ==
  /\ step = "downloading" /\ ~Cancels
  /\ IF TargetOn("DRIVE") /\ Target.backup \in remoteFiles \ localFiles
       THEN step' = "fetching" /\ staging' = staging \cup {current}
       ELSE step' = "failed" /\ UNCHANGED staging
  /\ UNCHANGED <<made, records, files, partials, queue, current, limit, history>>

Import ==
  /\ At("fetching", "imported") /\ ~Cancels
  /\ staging' = staging \ {current}
  /\ localFiles' = localFiles \cup {Target.backup}
  /\ UNCHANGED <<made, records, remoteFiles, partials, queue, current, limit, history>>

(* The last checkpoint reads the request in one statement and closes         *)
(* is_cancellable in a later one.                                            *)
ReadLastCheckpoint ==
  /\ step \in {"published", "imported"} /\ ~Cancels
  /\ step' = "closing"
  /\ UNCHANGED <<made, records, files, leftovers, queue, current, limit, history>>

WriteLastCheckpoint ==
  /\ At("closing", "registering")
  /\ job' = [job EXCEPT ![current].cancellable = FALSE]
  /\ UNCHANGED <<made, records, files, leftovers, requests, lastId, current, limit, history>>

(* The worker leaves the job and polls again.                                *)
Leave ==
  /\ step' = "idle"
  /\ current' = NoJob
  /\ limit' = 0

FinishTransfer(result) ==
  /\ job' = [job EXCEPT ![current].status = result, ![current].cancellable = FALSE]
  /\ Leave

(* A failed registration takes the published copy away again.                *)
Unpublish ==
  IF Kind = "UPLOAD"
    THEN remoteFiles' = remoteFiles \ {Target.backup} /\ UNCHANGED localFiles
    ELSE localFiles' = localFiles \ {Target.backup} /\ UNCHANGED remoteFiles

RegisterRemote ==
  /\ step = "registering" /\ Kind = "UPLOAD"
  /\ IF Target.backup \in CopiesOn("DRIVE")
       THEN step' = "failed" /\ Unpublish /\ UNCHANGED <<records, job, current, limit>>
       ELSE /\ records' = records \cup {Record("DRIVE", Target.backup)}
            /\ FinishTransfer("SUCCEEDED")
            /\ UNCHANGED files
  /\ UNCHANGED <<made, leftovers, requests, lastId, history>>

(* Retention unlinks before the commit; LocalBackup has the steps in between. *)
RegisterLocal ==
  /\ step = "registering" /\ Kind = "DOWNLOAD"
  /\ IF Target.backup \in CopiesOn("LOCAL")
       THEN /\ step' = "failed" /\ Unpublish
            /\ UNCHANGED <<records, requests, job, current, limit, bereft>>
       ELSE \E n \in Retentions :
            LET new  == Record("LOCAL", Target.backup)
                gone == DroppedBy(new, TRUE, n)
            IN /\ records' = (records \cup {new}) \ gone
               /\ Bereave(gone)
               /\ localFiles' = localFiles \ {r.backup : r \in gone}
               /\ FinishTransfer("SUCCEEDED")
               /\ UNCHANGED remoteFiles
  /\ UNCHANGED <<made, leftovers, lastId, torn, blind, stranded, failures>>

EraseCopy ==
  /\ step = "deleting"
  /\ IF TargetOn("DRIVE") /\ Target.backup \in remoteFiles
       THEN step' = "erasing" /\ remoteFiles' = remoteFiles \ {Target.backup}
       ELSE step' = "failed" /\ UNCHANGED remoteFiles
  /\ UNCHANGED <<made, records, localFiles, leftovers, queue, current, limit, history>>

(* Mutant of EraseRecord: it is left to the transaction of the outcome.      *)
EraseRecordLater ==
  /\ At("erasing", "erased")
  /\ UNCHANGED <<made, records, files, leftovers, queue, current, limit, history>>

EraseRecord ==
  /\ At("erasing", "erased")
  /\ records' = records \ {Target}
  /\ Bereave({Target})
  /\ UNCHANGED <<made, files, leftovers, job, lastId, current, limit, torn, blind, stranded,
                 failures>>

FinishDelete ==
  /\ step = "erased"
  /\ FinishTransfer("SUCCEEDED")
  /\ UNCHANGED <<made, records, files, leftovers, requests, lastId, history>>

FinishCancelled ==
  /\ step = "cancelled"
  /\ FinishTransfer("CANCELLED")
  /\ UNCHANGED <<made, records, files, leftovers, requests, lastId, history>>

FinishFailed ==
  /\ step = "failed"
  /\ FinishTransfer("FAILED")
  /\ UNCHANGED <<made, records, files, leftovers, requests, lastId, history>>

(* The write that ends a job fails, or the first read of it: the worker      *)
(* swallows the exception and polls on, the job stays RUNNING.               *)
Strand ==
  /\ step \in {"failed", "cancelled", "validating", "downloading", "deleting"}
  /\ Fault
  /\ stranded' = stranded \cup {current}
  /\ Leave
  /\ UNCHANGED <<made, records, files, leftovers, queue, torn, blind, bereft>>

-----------------------------------------------------------------------------
(* Failures, death and restart. *)

(* A transaction that deleted a copy ends without its commit.                *)
Tear ==
  torn' = CASE step = "retiring" -> torn \cup {Oldest.backup}
            [] step = "erasing"  -> torn \cup {Target.backup}
            [] OTHER             -> torn

(* A call fails.  Up to the publication the attempt removes what it made, as *)
(* far as the Drive answers; between publication and registration nothing    *)
(* does; a failed registration removes the published copy, or fails at it.   *)
Raise ==
  /\ step \notin {"idle", "failed", "cancelled", "down", "cleaning"}
  /\ Fault
  /\ step' = "failed"
  /\ Tear
  /\ partials' \in {partials, partials \ {current}}
  /\ staging' = staging \ {current}
  /\ \/ step = "registering" /\ Unpublish
     \/ step # "registering" /\ UNCHANGED files
     \/ step = "registering" /\ Kind = "UPLOAD" /\ UNCHANGED files
  /\ UNCHANGED <<made, records, queue, current, limit, blind, bereft, stranded>>

Crash ==
  /\ step # "down"
  /\ Fault
  /\ step' = "down"
  /\ current' = NoJob
  /\ limit' = 0
  /\ Tear
  /\ UNCHANGED <<made, records, files, leftovers, queue, blind, bereft, stranded>>

(* Mutant of Recover: only uploads are looked for.                           *)
RecoverUploads ==
  /\ At("down", "cleaning")
  /\ job' = [j \in JobIds |->
               IF job[j].status = "RUNNING" /\ job[j].kind = "UPLOAD"
                 THEN [job[j] EXCEPT !.status = "INTERRUPTED", !.cancellable = FALSE]
                 ELSE job[j]]
  /\ UNCHANGED <<made, records, files, leftovers, requests, lastId, current, limit, history>>

Recover ==
  /\ At("down", "cleaning")
  /\ job' = [j \in JobIds |->
               IF job[j].status = "RUNNING"
                 THEN [job[j] EXCEPT !.status = "INTERRUPTED", !.cancellable = FALSE]
                 ELSE job[j]]
  /\ UNCHANGED <<made, records, files, leftovers, requests, lastId, current, limit, history>>

(* Partial copies of every terminal upload are removed, not only of those    *)
(* this start interrupted; an unreachable Drive is left for the next start.  *)
CleanUp ==
  /\ At("cleaning", "idle")
  /\ staging' = {}
  /\ partials' \in {partials, {j \in partials : job[j].status \notin Terminal}}
  /\ UNCHANGED <<made, records, files, queue, current, limit, history>>

-----------------------------------------------------------------------------
Web ==
  \/ RequestUpload \/ RequestDownload \/ RequestDelete
  \/ \E q \in requests : Enqueue(q) \/ Conflict(q)
  \/ \E j \in JobIds : RequestCancel(j)

Upload ==
  \/ ValidateLocal \/ RetireForRetention \/ CommitRetirement \/ RetentionMet
  \/ Fits \/ RetireForQuota \/ DoesNotFit \/ StartUpload \/ Publish \/ RegisterRemote

Download == StartDownload \/ Import \/ RegisterLocal

Delete == EraseCopy \/ EraseRecord \/ FinishDelete

Worker ==
  \/ ClaimTransfer \/ Upload \/ Download \/ Delete
  \/ CheckpointCancels \/ CancelTransfer \/ ReadLastCheckpoint \/ WriteLastCheckpoint
  \/ FinishCancelled \/ FinishFailed \/ Recover \/ CleanUp

DriveNext == Web \/ MakeBackup \/ Worker \/ StartUploadBlind \/ Strand \/ Raise \/ Crash

DriveSpec == DriveInit /\ [][DriveNext]_driveVars

(* The worker's loop goes on as long as the process lives, and systemd       *)
(* restarts it; nobody has to request, cancel or fail.                       *)
DriveFairSpec == DriveSpec /\ WF_driveVars(Worker)
-----------------------------------------------------------------------------
(* Every variable has its type. *)
DriveTypeOK ==
  /\ made \in 0..MaxBackups
  /\ records \subseteq [id : 1..MaxRecordId, location : {"LOCAL", "DRIVE"}, backup : Backups]
  /\ localFiles \subseteq Backups /\ remoteFiles \subseteq Backups
  /\ partials \subseteq JobIds /\ staging \subseteq JobIds
  /\ requests \subseteq [kind : Kinds, record : 1..MaxRecordId, backup : Backups,
                          bereft : BOOLEAN]
  /\ job \in [JobIds -> [kind : Kinds, record : 1..MaxRecordId, backup : Backups,
                         status : {"PENDING", "RUNNING"} \cup Terminal,
                         cancellable : BOOLEAN, cancel : BOOLEAN] \cup {NoRow}]
  /\ lastId \in 0..MaxJobs
  /\ step \in {"idle", "validating", "capacity", "retiring", "quota", "uploading", "copying",
               "published", "downloading", "fetching", "imported", "closing", "registering",
               "deleting", "erasing", "erased", "cancelled", "failed", "down", "cleaning"}
  /\ current \in JobIds \cup {NoJob}
  /\ limit \in 0..MaxRetention
  /\ torn \subseteq Backups /\ blind \subseteq Backups
  /\ bereft \subseteq JobIds /\ stranded \subseteq JobIds
  /\ failures \in 0..MaxFailures

(* A copy is added only within the number its upload read, whatever failed   *)
(* between the removals and the registration, and whatever was saved since   *)
(* (google-drive-rclone.md:134).                                             *)
RemoteRetention ==
  [][CopiesOn("DRIVE")' \ CopiesOn("DRIVE") # {} => Cardinality(On("DRIVE")') <= limit]_driveVars

(* Between jobs every DRIVE record has its copy. The exceptions are a deletion *)
(* whose transaction died between the file and the record, and a copy whose   *)
(* name a failed call reported as free: the second upload publishes over it,  *)
(* finds the record and takes the copy away.                                 *)
RecordsHaveCopies == step = "idle" => CopiesOn("DRIVE") \subseteq remoteFiles \cup torn \cup blind

(* A file leaves either place only by its record, or as the publication of   *)
(* the very attempt that fails; a copy without record is never removed       *)
(* (google-drive-rclone.md:175).                                             *)
UnrecordedCopiesAreKept ==
  [][/\ \A b \in remoteFiles \ remoteFiles' :
          b \in CopiesOn("DRIVE") \/ (step = "registering" /\ b = Target.backup)
     /\ \A b \in localFiles \ localFiles' :
          b \in CopiesOn("LOCAL") \/ (step = "registering" /\ b = Target.backup)]_driveVars

(* A job moves or erases the copy it was asked for, unless the record it      *)
(* names was removed after its request had read it: only then may its id be   *)
(* that of another one, although SQLite hands ids out again                   *)
(* (drive_jobs.py:280, :394).                                                *)
WrongCopiesFollowRemovals ==
  step \in {"uploading", "copying", "fetching", "erasing"} =>
    current \in bereft \/ Target.backup = job[current].backup

(* Every Drive job ends: removing old copies for retention or quota comes to *)
(* an end even when records and copies disagree. Only one whose last write    *)
(* failed stays RUNNING, until the next restart.                             *)
EveryTransferEnds ==
  \A j \in JobIds : Active(j) ~> job[j].status \in Terminal \/ j \in stranded

=============================================================================
