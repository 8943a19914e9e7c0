------------------------------ MODULE LocalBackup ------------------------------
(***************************************************************************)
(* LOCAL_BACKUP jobs: the checkpoints a cancel can be honoured at, the       *)
(* publication of the archive in backups/, its registration with retention   *)
(* in one transaction, and what a restarted worker cleans up.  The archive,  *)
(* its file and its record all carry the id of the job that made them.       *)
(***************************************************************************)
EXTENDS Naturals, FiniteSetsExt

CONSTANTS
  MaxJobs,         \* bound: backups ever requested
  MaxRetention,    \* largest local_backup_retention in this instance
  MaxFaults,       \* bound: exceptions inside a job
  MaxCrashes       \* bound: deaths of the worker, at any instruction

ASSUME BackupAssumption ==
  /\ MaxJobs \in Nat /\ MaxFaults \in Nat /\ MaxCrashes \in Nat
  /\ MaxRetention \in Nat \ {0}

JobIds == 1..MaxJobs
NoJob == 0

Terminal == {"SUCCEEDED", "FAILED", "CANCELLED", "INTERRUPTED"}
Status == {"ABSENT", "PENDING", "RUNNING"} \cup Terminal

VARIABLES
  status,        \* jobs.status
  cancellable,   \* jobs.is_cancellable
  cancel,        \* jobs.cancel_requested
  lastId,        \* highest job id inserted
  retention,     \* app_settings: local backups to keep
  records,       \* committed backup_records, LOCAL and VALID
  files,         \* archives present in backups/
  staging,       \* working directories under the temporary area
  step,          \* where the worker is
  current,       \* the job it executes
  doomed,        \* records the open transaction has selected for removal
  pending,       \* those of them whose file is still to be unlinked
  interrupted,   \* jobs this start of the worker found RUNNING
  left,          \* history: archives whose removal failed with their job
  faults,
  crashes

rowVars   == <<status, cancellable, cancel, lastId>>
txnVars   == <<doomed, pending>>
faultVars == <<left, faults, crashes>>
vars == <<status, cancellable, cancel, lastId, retention, records, files, staging,
          step, current, doomed, pending, interrupted, left, faults, crashes>>

Active(j) == status[j] \in {"PENDING", "RUNNING"}

Init ==
  /\ status = [j \in JobIds |-> "ABSENT"]
  /\ cancellable = [j \in JobIds |-> FALSE]
  /\ cancel = [j \in JobIds |-> FALSE]
  /\ lastId = 0
  /\ retention \in 1..MaxRetention
  /\ records = {}
  /\ files = {}
  /\ staging = {}
  /\ step = "idle"
  /\ current = NoJob
  /\ doomed = {}
  /\ pending = {}
  /\ interrupted = {}
  /\ left = {}
  /\ faults = 0
  /\ crashes = 0

-----------------------------------------------------------------------------
(* The web process and the scheduler. *)

Enqueue ==
  /\ lastId < MaxJobs
  /\ ~\E j \in JobIds : Active(j)
  /\ lastId' = lastId + 1
  /\ status' = [status EXCEPT ![lastId'] = "PENDING"]
  /\ cancellable' = [cancellable EXCEPT ![lastId'] = TRUE]
  /\ UNCHANGED <<cancel, retention, records, files, staging, step, current, txnVars,
                 interrupted, faultVars>>

RequestCancel(j) ==
  /\ Active(j)
  /\ cancellable[j] /\ ~cancel[j]
  /\ cancel' = [cancel EXCEPT ![j] = TRUE]
  /\ UNCHANGED <<status, cancellable, lastId, retention, records, files, staging, step,
                 current, txnVars, interrupted, faultVars>>

(* The setting may change at any time; a transaction in the worker has read  *)
(* it already.                                                               *)
ChangeRetention ==
  /\ retention' \in 1..MaxRetention \ {retention}
  /\ UNCHANGED <<rowVars, records, files, staging, step, current, txnVars,
                 interrupted, faultVars>>

-----------------------------------------------------------------------------
(* The executor. *)

At(s, next) == step = s /\ step' = next

Claim ==
  /\ At("idle", "staging")
  /\ \E j \in JobIds :
       /\ status[j] = "PENDING"
       /\ status' = [status EXCEPT ![j] = "RUNNING"]
       /\ current' = j
       /\ staging' = staging \cup {j}
  /\ UNCHANGED <<cancellable, cancel, lastId, retention, records, files, txnVars,
                 interrupted, faultVars>>

(* A checkpoint reads the row in one statement and commits its own columns   *)
(* in a later one.  All but the last leave the job cancellable; between the  *)
(* two halves of the last one the web may still raise cancel_requested.      *)
CheckpointCancels ==
  /\ step = "staging"
  /\ cancel[current] /\ cancellable[current]
  /\ step' = "cancelled"
  /\ staging' = staging \ {current}
  /\ UNCHANGED <<rowVars, retention, records, files, current, txnVars, interrupted, faultVars>>

ReadLastCheckpoint ==
  /\ At("staging", "closing")
  /\ ~(cancel[current] /\ cancellable[current])
  /\ UNCHANGED <<rowVars, retention, records, files, staging, current, txnVars,
                 interrupted, faultVars>>

WriteLastCheckpoint ==
  /\ At("closing", "publishing")
  /\ cancellable' = [cancellable EXCEPT ![current] = FALSE]
  /\ UNCHANGED <<status, cancel, lastId, retention, records, files, staging, current,
                 txnVars, interrupted, faultVars>>

(* os.replace.  The archive is not yet the attempt's to take away: only after *)
(* os.chmod is it marked published, and then it is validated again.          *)
Publish ==
  /\ At("publishing", "placed")
  /\ files' = files \cup {current}
  /\ UNCHANGED <<rowVars, retention, records, staging, current, txnVars, interrupted, faultVars>>

MarkPublished ==
  /\ At("placed", "validating")
  /\ UNCHANGED <<rowVars, retention, records, files, staging, current, txnVars,
                 interrupted, faultVars>>

Validated ==
  /\ At("validating", "registering")
  /\ staging' = staging \ {current}
  /\ UNCHANGED <<rowVars, retention, records, files, current, txnVars, interrupted, faultVars>>

(* Mutant of Newest: ordered the other way round.                            *)
OldestOf(S, n) == {r \in S : Cardinality({q \in S : q < r}) < n}

(* The records beyond the newest n, and the ones to keep.                    *)
Newest(S, n) == {r \in S : Cardinality({q \in S : q > r}) < n}

(* Retention is applied to the records with the new one among them.          *)
Register ==
  /\ At("registering", "retaining")
  /\ LET all == records \cup {current}
     IN doomed' = all \ Newest(all, retention)
  /\ pending' = doomed'
  /\ UNCHANGED <<rowVars, retention, records, files, staging, current, interrupted, faultVars>>

(* The files go one at a time, newest first, before the commit.              *)
Unlink ==
  /\ step = "retaining"
  /\ pending # {}
  /\ files' = files \ {Max(pending)}
  /\ pending' = pending \ {Max(pending)}
  /\ UNCHANGED <<rowVars, retention, records, staging, step, current, doomed,
                 interrupted, faultVars>>

Finish(result) ==
  /\ status' = [status EXCEPT ![current] = result]
  /\ cancellable' = [cancellable EXCEPT ![current] = FALSE]
  /\ current' = NoJob

Commit ==
  /\ At("retaining", "idle")
  /\ pending = {}
  /\ records' = (records \cup {current}) \ doomed
  /\ doomed' = {}
  /\ Finish("SUCCEEDED")
  /\ UNCHANGED <<cancel, lastId, retention, files, staging, pending, interrupted, faultVars>>

FinishCancelled ==
  /\ At("cancelled", "idle")
  /\ Finish("CANCELLED")
  /\ UNCHANGED <<cancel, lastId, retention, records, files, staging, txnVars,
                 interrupted, faultVars>>

Fault == faults < MaxFaults /\ faults' = faults + 1

(* An exception leaves the job: its transaction rolls back and its working    *)
(* directory goes.  Nothing brings back an unlinked file.                    *)
Abandon ==
  /\ Fault
  /\ staging' = staging \ {current}
  /\ doomed' = {}
  /\ pending' = {}
  /\ UNCHANGED <<rowVars, retention, records, interrupted, crashes>>

(* Mutant of Raise: the published archive of the attempt is kept.            *)
RaiseKeepingArchive ==
  /\ step \in {"staging", "closing", "publishing", "validating", "registering", "retaining"}
  /\ Abandon
  /\ step' = "failed"
  /\ UNCHANGED <<files, current, left>>

(* The archive of the attempt is removed, if it is marked published.         *)
Raise ==
  /\ step \in {"staging", "closing", "publishing", "validating", "registering", "retaining"}
  /\ Abandon
  /\ step' = "failed"
  /\ files' = files \ {current}
  /\ UNCHANGED <<current, left>>

(* os.chmod raises before the archive is marked, or the removal itself fails. *)
LeaveArchive ==
  /\ step \in {"placed", "validating", "registering", "retaining"}
  /\ Abandon
  /\ step' = "failed"
  /\ left' = left \cup {current}
  /\ UNCHANGED <<files, current>>

(* Outside create() an exception of the removal skips the write of the       *)
(* outcome as well: the job stays RUNNING with nobody in it.                 *)
StrandInRemoval ==
  /\ step \in {"registering", "retaining"}
  /\ Abandon
  /\ step' = "idle"
  /\ current' = NoJob
  /\ left' = left \cup {current}
  /\ UNCHANGED files

FinishFailed ==
  /\ At("failed", "idle")
  /\ Finish("FAILED")
  /\ UNCHANGED <<cancel, lastId, retention, records, files, staging, txnVars,
                 interrupted, faultVars>>

(* Even the write of the outcome can fail: the exception is swallowed and    *)
(* the job stays RUNNING with nobody in it.                                  *)
Strand ==
  /\ step \in {"failed", "cancelled"}
  /\ Fault
  /\ step' = "idle"
  /\ current' = NoJob
  /\ UNCHANGED <<rowVars, retention, records, files, staging, txnVars, interrupted, left,
                 crashes>>

-----------------------------------------------------------------------------
(* Death and restart of the worker. *)

Crash ==
  /\ step # "down"
  /\ crashes < MaxCrashes
  /\ crashes' = crashes + 1
  /\ step' = "down"
  /\ current' = NoJob
  /\ doomed' = {}
  /\ pending' = {}
  /\ interrupted' = {}
  /\ UNCHANGED <<rowVars, retention, records, files, staging, left, faults>>

(* Committed before the clean-up that uses its answer.                       *)
Recover ==
  /\ At("down", "cleaning")
  /\ interrupted' = {j \in JobIds : status[j] = "RUNNING"}
  /\ status' = [j \in JobIds |-> IF j \in interrupted' THEN "INTERRUPTED" ELSE status[j]]
  /\ cancellable' = [j \in JobIds |-> cancellable[j] /\ j \notin interrupted']
  /\ UNCHANGED <<cancel, lastId, retention, records, files, staging, current, txnVars,
                 faultVars>>

(* Mutant of CleanUp: the archive pattern forgets the job id.                *)
CleanUpEverything ==
  /\ At("cleaning", "idle")
  /\ staging' = {}
  /\ files' = {}
  /\ interrupted' = {}
  /\ UNCHANGED <<rowVars, retention, records, current, txnVars, faultVars>>

CleanUp ==
  /\ At("cleaning", "idle")
  /\ staging' = {}
  /\ files' = files \ interrupted
  /\ interrupted' = {}
  /\ UNCHANGED <<rowVars, retention, records, current, txnVars, faultVars>>

-----------------------------------------------------------------------------
Web == Enqueue \/ ChangeRetention \/ \E j \in JobIds : RequestCancel(j)

Worker ==
  \/ Claim \/ CheckpointCancels \/ ReadLastCheckpoint \/ WriteLastCheckpoint
  \/ Publish \/ MarkPublished \/ Validated \/ Register \/ Unlink \/ Commit
  \/ FinishCancelled \/ FinishFailed \/ Recover \/ CleanUp

Failure == Raise \/ LeaveArchive \/ StrandInRemoval \/ Strand

Next == Web \/ Worker \/ Failure \/ Crash

Spec == Init /\ [][Next]_vars
-----------------------------------------------------------------------------
(* Every variable has its type. *)
TypeOK ==
  /\ status \in [JobIds -> Status]
  /\ cancellable \in [JobIds -> BOOLEAN]
  /\ cancel \in [JobIds -> BOOLEAN]
  /\ lastId \in 0..MaxJobs
  /\ retention \in 1..MaxRetention
  /\ records \subseteq JobIds
  /\ files \subseteq JobIds
  /\ staging \subseteq JobIds
  /\ step \in {"idle", "staging", "closing", "publishing", "placed", "validating",
               "registering", "retaining", "cancelled", "failed", "down", "cleaning"}
  /\ current \in JobIds \cup {NoJob}
  /\ doomed \subseteq JobIds
  /\ pending \subseteq doomed
  /\ interrupted \subseteq JobIds
  /\ left \subseteq JobIds
  /\ faults \in 0..MaxFaults
  /\ crashes \in 0..MaxCrashes

(* Retention only ever drops the oldest: a success newer than a kept one is   *)
(* kept as well, through rollbacks and changes of the setting.               *)
NewestAreKept ==
  \A r \in records : \A j \in JobIds : j > r /\ status[j] = "SUCCEEDED" => j \in records

(* Between jobs a file without a record is that of an INTERRUPTED job, or of  *)
(* one that failed and could not take it away: every other failure, and every *)
(* cancel, removes its own archive.                                          *)
UnrecordedFilesAreExplained ==
  step = "idle" =>
    \A f \in files \ records :
      \/ status[f] = "INTERRUPTED"
      \/ f \in left /\ status[f] \in {"FAILED", "RUNNING"}

(* The archive of a committed record goes only to retention: a failed attempt *)
(* and the clean-up of a restart remove none but their own                   *)
(* (backup-restore.md:65).                                                   *)
RecordedFilesGoToRetention ==
  [][\A r \in records : r \in files /\ r \notin files' => r \in doomed]_vars

(* A failure never touches another backup (backup-restore.md:63): each VALID *)
(* record still has its archive once the worker is between jobs.             *)
RecordsHaveFiles == step = "idle" => records \subseteq files

=============================================================================
