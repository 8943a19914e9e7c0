---------------------------- MODULE PreventiveBackup ----------------------------
(***************************************************************************)
(* The preventive backup a Restore or an Update makes inside its own job:    *)
(* health check, staging, publication, registration and retention in one     *)
(* transaction.  Archive, file and record carry the id of the job, 0 being   *)
(* a backup that was there before; LocalBackup has the archive's own story.   *)
(***************************************************************************)
EXTENDS ServerLifecycle, FiniteSets

CONSTANT Retention    \* app_settings: local backups to keep

ASSUME RetentionAssumption == Retention \in Nat \ {0}

VARIABLES
  records,    \* committed backup_records, LOCAL and VALID
  files,      \* archives present in backups/
  doomed,     \* records the open transaction has selected for removal
  safety,     \* preventive_record_id of the executor, 0 while unset
  stray       \* history: archives the clean-up of a failing attempt did not take away

backupVars == <<records, files, doomed, safety, stray>>

BackupTypeOK ==
  /\ records \subseteq 0..MaxJobs
  /\ files \subseteq 0..MaxJobs
  /\ doomed \subseteq 0..MaxJobs
  /\ safety \in 0..MaxJobs
  /\ stray \subseteq 0..MaxJobs

BackupInit ==
  /\ records = {0}
  /\ files = {0}
  /\ doomed = {}
  /\ safety = 0
  /\ stray = {}

-----------------------------------------------------------------------------
(* Only an Update can be cancelled here.  A checkpoint reads the row and      *)
(* writes is_cancellable in two statements; at PUBLISHING it is closed.      *)

CancelSeen == jobs[current].cancel /\ jobs[current].cancellable

BeginBackup == Await("backup_check", "checking")

CheckServer ==
  /\ step = "backup_check"
  /\ call \in {"online", "offline"}
  /\ Enter("staging")
  /\ UNCHANGED <<hostVars, jobs, current, critical, seen, observed, overtaken, faultVars,
                 backupVars>>

(* A server that is neither ONLINE nor OFFLINE, or no world to copy.         *)
NoConsistentBackup ==
  /\ \/ step = "backup_check" /\ call = "ambiguous"
     \/ step = "staging" /\ saves = "none"
  /\ Enter("failing")
  /\ UNCHANGED <<hostVars, jobs, current, critical, seen, observed, overtaken, faultVars,
                 backupVars>>

Stage ==
  /\ step = "staging"
  /\ saves # "none"
  /\ ~CancelSeen
  /\ Enter("closing")
  /\ UNCHANGED <<hostVars, jobs, current, critical, seen, observed, overtaken, faultVars,
                 backupVars>>

Publish ==
  /\ step = "closing"
  /\ jobs' = [jobs EXCEPT ![current].cancellable = FALSE]
  /\ files' = files \cup {current}
  /\ Enter("registering")
  /\ UNCHANGED <<hostVars, current, critical, seen, observed, overtaken, faultVars,
                 records, doomed, safety, stray>>

(* Mutant of Protected: the backup the Restore was asked for is forgotten.   *)
ProtectedOwn(all) == all \cap {current}

(* The records apply_local_retention is told to preserve.                    *)
Protected(all) ==
  all \cap {current, IF Kind = "LOCAL_RESTORE" THEN jobs[current].source ELSE current}

(* The protected ones first, then the newest until there are enough.         *)
Kept(all) ==
  LET first == Protected(all)
  IN first \cup {r \in all \ first :
                   Cardinality(first) + Cardinality({q \in all \ first : q > r}) < Retention}

Register ==
  /\ step = "registering"
  /\ safety' = current
  /\ LET all == records \cup {current} IN doomed' = all \ Kept(all)
  /\ Enter("retaining")
  /\ UNCHANGED <<hostVars, jobs, current, critical, seen, observed, overtaken, faultVars,
                 records, files, stray>>

(* The files go before the commit.                                           *)
Unlink ==
  /\ step = "retaining"
  /\ \E f \in doomed \cap files : files' = files \ {f}
  /\ UNCHANGED <<hostVars, lifecycleVars, records, doomed, safety, stray>>

CommitTo(next) ==
  /\ step = "retaining"
  /\ doomed \cap files = {}
  /\ records' = (records \cup {current}) \ doomed
  /\ doomed' = {}
  /\ next
  /\ UNCHANGED <<hostVars, current, critical, seen, overtaken, faultVars, files, safety, stray>>

BackupSteps == {"backup_check", "staging", "closing", "registering", "retaining"}

(* Mutant of RaiseInBackup: the archive of the attempt is never taken away.  *)
RaiseKeepingArchive ==
  /\ step \in BackupSteps
  /\ Fault
  /\ doomed' = {}
  /\ Enter("failing")
  /\ UNCHANGED <<hostVars, jobs, current, critical, seen, observed, overtaken,
                 records, files, safety, stray>>

(* create() takes its archive away and so does the executor until it has an   *)
(* id for the record; a commit that fails later leaves the file.             *)
RaiseInBackup ==
  /\ step \in BackupSteps
  /\ Fault
  /\ files' = IF step = "retaining" THEN files ELSE files \ {current}
  /\ doomed' = {}
  /\ Enter("failing")
  /\ seen' = NotSeen
  /\ UNCHANGED <<hostVars, jobs, current, critical, observed, overtaken, records, safety,
                 stray>>

(* The archive is in place and then chmod raises, before create() knows it as  *)
(* published, or the removal of a published one raises in its turn.            *)
LeaveArchive ==
  /\ step \in {"closing", "registering"}
  /\ Fault
  /\ files' = files \cup {current}
  /\ stray' = stray \cup {current}
  /\ jobs' = [jobs EXCEPT ![current].cancellable = FALSE]
  /\ Enter("failing")
  /\ UNCHANGED <<hostVars, current, critical, seen, observed, overtaken, records, doomed,
                 safety>>

Backup ==
  \/ CheckServer \/ NoConsistentBackup \/ Stage \/ Publish \/ Register \/ Unlink
  \/ RaiseInBackup \/ LeaveArchive
=============================================================================
