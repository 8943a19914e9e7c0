--------------------------------- MODULE Restore ---------------------------------
(***************************************************************************)
(* LOCAL_RESTORE and REMOTE_RESTORE jobs: validation of the source, the       *)
(* preventive backup, the Stop, the replacement of SaveGames through a new    *)
(* and a previous directory beside it, the merged settings files, the Start   *)
(* and the look at the logs.  Job ids are not reused, so the two directories  *)
(* of a job never exist before it runs.                                      *)
(***************************************************************************)
EXTENDS PreventiveBackup

VARIABLES
  newDir,     \* .SaveGames...-new of each job
  prevDir,    \* .SaveGames...-previous of each job
  merged      \* settings files the running Restore has replaced

restoreVars == <<newDir, prevDir, merged>>

RestoreTypeOK ==
  /\ newDir \in [1..MaxJobs -> {"none", "partial", "restored"}]
  /\ prevDir \in [1..MaxJobs -> Worlds \cup {"none", "partial"}]
  /\ merged \in 0..2

RestoreInit ==
  /\ newDir = [j \in 1..MaxJobs |-> "none"]
  /\ prevDir = [j \in 1..MaxJobs |-> "none"]
  /\ merged = 0

RequestRestore ==
  /\ \/ \E r \in records : Enqueue("LOCAL_RESTORE", r)
     \/ Enqueue("REMOTE_RESTORE", 0)
  /\ UNCHANGED <<backupVars, restoreVars>>

-----------------------------------------------------------------------------
ClaimRestore ==
  /\ \E k \in RestoreKinds : Claim(k, "preparing") /\ Enter("preparing")
  /\ merged' = 0
  /\ safety' = 0
  /\ UNCHANGED <<observed, records, files, doomed, stray, newDir, prevDir>>

(* The record is read again, the archive copied, checked and unpacked, the    *)
(* current settings merged; a missing SaveGames is noticed here.             *)
SourceUsable ==
  /\ Kind = "LOCAL_RESTORE" => jobs[current].source \in records \cap files
  /\ saves # "none"

Prepare ==
  /\ step = "preparing"
  /\ IF SourceUsable THEN BeginBackup ELSE Enter("failing") /\ UNCHANGED observed
  /\ UNCHANGED <<hostVars, jobs, current, critical, seen, overtaken, faultVars, backupVars,
                 restoreVars>>

CommitBeforeStop ==
  /\ Kind \in RestoreKinds
  /\ CommitTo(Await("stop", "asking") /\ UNCHANGED jobs)
  /\ UNCHANGED restoreVars

(* A Stop that is not confirmed ends the job without a review.               *)
StopMissed ==
  /\ Kind \in RestoreKinds
  /\ step = "stop"
  /\ call = "missed"
  /\ Enter("failing")
  /\ UNCHANGED <<hostVars, jobs, current, critical, seen, observed, overtaken, faultVars,
                 backupVars, restoreVars>>

(* destructive_started is set and stored before the first file is touched.   *)
BeginReplacing ==
  /\ Kind \in RestoreKinds
  /\ step = "stop"
  /\ call = "reached"
  /\ critical' = TRUE
  /\ jobs' = [jobs EXCEPT ![current].review = TRUE]
  /\ IF saves = "none" THEN Enter("failing") /\ UNCHANGED newDir
     ELSE Enter("copying") /\ newDir' = [newDir EXCEPT ![current] = "partial"]
  /\ UNCHANGED <<hostVars, current, seen, observed, overtaken, faultVars, backupVars,
                 prevDir, merged>>

Copied ==
  /\ step = "copying"
  /\ newDir' = [newDir EXCEPT ![current] = "restored"]
  /\ Enter("displacing")
  /\ UNCHANGED <<hostVars, jobs, current, critical, seen, observed, overtaken, faultVars,
                 backupVars, prevDir, merged>>

Displace ==
  /\ step = "displacing"
  /\ prevDir' = [prevDir EXCEPT ![current] = saves]
  /\ saves' = "none"
  /\ Enter("placing")
  /\ UNCHANGED <<server, again, requests, powered, troubles, jobs, current, critical, seen,
                 observed, overtaken, faultVars, backupVars, newDir, merged>>

(* os.replace does not go over a directory that a server has just filled.    *)
Place ==
  /\ step = "placing"
  /\ IF saves = "none"
     THEN /\ saves' = "restored"
          /\ newDir' = [newDir EXCEPT ![current] = "none"]
          /\ Enter("merging")
     ELSE Enter("failing") /\ UNCHANGED <<saves, newDir>>
  /\ UNCHANGED <<server, again, requests, powered, troubles, jobs, current, critical, seen,
                 observed, overtaken, faultVars, backupVars, prevDir, merged>>

(* Mutant of MergeSettings: the previous world goes as soon as the new one   *)
(* is in place.                                                              *)
MergeSettingsLater ==
  /\ step = "merging"
  /\ merged' = merged
  /\ Enter("discarding")
  /\ UNCHANGED <<hostVars, jobs, current, critical, seen, observed, overtaken, faultVars,
                 backupVars, newDir, prevDir>>

(* PalWorldSettings.ini, then GameUserSettings.ini, each by a replace.       *)
MergeSettings ==
  /\ step = "merging"
  /\ merged' = merged + 1
  /\ Enter(IF merged' = 2 THEN "discarding" ELSE "merging")
  /\ UNCHANGED <<hostVars, jobs, current, critical, seen, observed, overtaken, faultVars,
                 backupVars, newDir, prevDir>>

(* rmtree is not atomic.                                                     *)
Discard ==
  /\ step = "discarding"
  /\ IF prevDir[current] # "partial"
     THEN /\ prevDir' = [prevDir EXCEPT ![current] = "partial"]
          /\ Enter("discarding") /\ UNCHANGED observed
     ELSE /\ prevDir' = [prevDir EXCEPT ![current] = "none"]
          /\ Await("start", "asking")
  /\ UNCHANGED <<hostVars, jobs, current, critical, seen, overtaken, faultVars,
                 backupVars, newDir, merged>>

Started ==
  /\ Kind \in RestoreKinds
  /\ step = "start"
  /\ call \in {"reached", "missed"}
  /\ Enter(IF call = "reached" THEN "logs" ELSE "failing")
  /\ UNCHANGED <<hostVars, jobs, current, critical, seen, observed, overtaken, faultVars,
                 backupVars, restoreVars>>

FinishRestore ==
  /\ Kind \in RestoreKinds
  /\ \/ step = "logs" /\ Finish("SUCCEEDED", FALSE, safety)
     \/ step = "failing" /\ Finish("FAILED", critical, safety)
  /\ UNCHANGED <<faultVars, records, files, doomed, stray, restoreVars>>
  /\ safety' = 0

(* Any other step may raise: the disk is full, a write is refused, the        *)
(* settings changed since they were merged, the log shows a critical line.   *)
RaiseInRestore ==
  /\ step \in {"preparing", "stop", "copying", "displacing", "placing", "merging",
               "discarding", "start", "logs"}
  /\ Kind \in RestoreKinds
  /\ Fault
  /\ critical' = (critical \/ (step = "stop" /\ call = "reached"))
  /\ Enter("failing")
  /\ seen' = NotSeen
  /\ UNCHANGED <<hostVars, jobs, current, observed, overtaken, backupVars, restoreVars>>

(* The failure itself cannot be written: the job stays RUNNING.              *)
StrandRestore ==
  /\ step = "failing"
  /\ Kind \in RestoreKinds
  /\ Fault
  /\ Enter("idle")
  /\ current' = NoJob
  /\ critical' = FALSE
  /\ safety' = 0
  /\ UNCHANGED <<hostVars, jobs, seen, observed, overtaken, records, files, doomed,
                 stray, restoreVars>>

Replace == BeginReplacing \/ Copied \/ Displace \/ Place \/ MergeSettings \/ Discard

RestoreStep ==
  \/ ClaimRestore \/ Prepare \/ CommitBeforeStop \/ StopMissed \/ Replace
  \/ Started \/ FinishRestore \/ RaiseInRestore \/ StrandRestore
=============================================================================
