---------------------------- MODULE MaintenanceProofs ----------------------------
(***************************************************************************)
(* Theorems of Maintenance for every number of jobs, faults, crashes and     *)
(* troubles of the unit, and every retention: what Restores, Updates and      *)
(* host commands may have done to the world, the server and the backups.      *)
(***************************************************************************)
EXTENDS Maintenance, TLAPS

Row ==
  [kind : OfferedKinds, status : Status, cancel : BOOLEAN, cancellable : BOOLEAN,
   review : BOOLEAN, source : 0..MaxJobs, safety : 0..MaxJobs]

(* The columns, the place of the worker and the directories.                 *)
Typed ==
  /\ jobs \in Seq(Row) /\ Len(jobs) <= MaxJobs
  /\ current \in 0..Len(jobs)
  /\ critical \in BOOLEAN
  /\ records \subseteq 0..MaxJobs
  /\ safety \in 0..MaxJobs
  /\ saves \in Worlds \cup {"none"}
  /\ newDir \in [1..MaxJobs -> {"none", "partial", "restored"}]
  /\ prevDir \in [1..MaxJobs -> Worlds \cup {"none", "partial"}]

-----------------------------------------------------------------------------
(* Who does what. *)

Protecting == RestoreKinds \cup {"PALWORLD_UPDATE"}

Lifecycling == {"server"}
Restoring   == {"preparing", "copying", "displacing", "placing", "merging", "discarding", "logs"}
Updating    == {"verifying", "countdown", "cancelled", "installing", "comparing", "noting"}
Powering    == {"host_check", "requesting", "requested"}
Shared      == {"stop", "failing"}

(* Past its point of no return an executor is in one of these steps.         *)
PastReturn ==
  {"copying", "displacing", "placing", "merging", "discarding", "start", "logs", "failing",
   "warning", "stop", "installing", "comparing", "noting"}

(* Every step belongs to the executor of its kind.                           *)
KindInv ==
  /\ current = NoJob <=> step \in {"idle", "down"}
  /\ step = "asking_steam" => Kind = "PALWORLD_UPDATE_CHECK"
  /\ step \in Lifecycling => Kind \in LifecycleKinds
  /\ step \in Restoring => Kind \in RestoreKinds
  /\ step \in Updating => Kind = "PALWORLD_UPDATE"
  /\ step \in Powering => Kind \in HostPowerKinds
  /\ step \in BackupSteps \cup {"start"} => Kind \in Protecting
  /\ step \in {"players", "warning"} => Kind \in HostPowerKinds \cup {"PALWORLD_UPDATE"}
  /\ step \in Shared => Kind \in HostPowerKinds \cup Protecting
  /\ step \in {"idle", "down", "asking_steam", "players"} \cup Lifecycling \cup Restoring
               \cup Updating \cup Powering \cup BackupSteps \cup {"start", "warning"} \cup Shared

(* A job in the worker's hands is RUNNING, but for an Update that has noted   *)
(* its success and not yet left.                                             *)
StatusInv ==
  current # NoJob =>
    \/ jobs[current].status = "RUNNING"
    \/ step \in {"noting", "failing"} /\ UpdateJob /\ jobs[current].status = "SUCCEEDED"

CriticalInv ==
  /\ critical => step \in PastReturn /\ Kind \in Protecting
  /\ step \in {"copying", "displacing", "placing", "merging", "discarding"} => critical
  /\ step \in {"warning", "stop", "installing"} /\ UpdateJob => critical
  /\ UpdateJob /\ critical => ~jobs[current].cancel /\ ~jobs[current].cancellable

PlaceInv == KindInv /\ StatusInv /\ CriticalInv

-----------------------------------------------------------------------------
(* The server. *)

(* No process, and nothing under way that would start one.                   *)
Quiet == ~Process /\ ~StartUnderway

Stopped ==
  \/ step \in {"copying", "displacing", "placing", "merging", "discarding", "installing",
               "requesting"}
  \/ step = "stop" /\ call \in {"reached", "knocking"}
  \/ step = "host_check" /\ call = "offline"

(* A health check or a lifecycle call goes on in these steps only.           *)
CallInv == call # "none" => step \in {"server", "backup_check", "host_check", "stop", "start"}

(* What an unfinished check has read holds until it concludes: no start was    *)
(* under way when it read the unit, so none can come before the worker asks.  *)
SightInv ==
  /\ seen \in [unit : UnitState \cup {"none"}, process : {"none", "running", "gone"}]
  /\ seen.unit = "none" => seen.process = "none"
  /\ seen.unit \in {"inactive", "deactivating"} /\ ~overtaken =>
       /\ ~StartUnderway
       /\ \/ server \in {"down", "exited", "failed"}
          \/ server = "stopping" /\ seen.process # "gone"

DownInv ==
  /\ ~powered => step = "down" /\ seen.unit = "none"
  /\ Stopped /\ ~overtaken => Quiet
  /\ CallInv
  /\ SightInv
  /\ server \in ServerPhase

-----------------------------------------------------------------------------
(* The world. *)

Displaced(j) == newDir[j] # "none" \/ prevDir[j] # "none"

WorldInv ==
  /\ \A j \in 1..MaxJobs : Displaced(j) =>
       /\ j \in DOMAIN jobs
       /\ jobs[j].kind \in RestoreKinds
       /\ jobs[j].status # "PENDING"
       /\ j = current =>
            critical /\ step \in {"copying", "displacing", "placing", "merging", "discarding",
                                  "failing"}
       /\ j # current => jobs[j].status = "RUNNING" \/ jobs[j].review
  /\ step \in {"copying", "displacing"} => prevDir[current] = "none"
  /\ step \in {"merging", "discarding"} => newDir[current] = "none" /\ saves = "restored"
  /\ step = "discarding" => merged = 2

BuildInv ==
  build = "broken" =>
    \E j \in DOMAIN jobs :
      /\ jobs[j].kind = "PALWORLD_UPDATE"
      /\ jobs[j].status = "RUNNING" \/ jobs[j].review
      /\ jobs[j].status # "PENDING"
      /\ j = current => critical /\ jobs[j].status = "RUNNING" /\ step \in {"installing", "failing"}

-----------------------------------------------------------------------------
(* The backups. *)

AfterBackup ==
  {"players", "countdown", "warning", "stop", "copying", "displacing", "placing", "merging",
   "discarding", "installing", "start", "logs", "comparing", "noting"}

KeptInv ==
  /\ step \in {"registering", "retaining"} => current \in files
  /\ step = "retaining" => safety = current /\ current \notin doomed
  /\ Kind = "LOCAL_RESTORE" /\ step \in BackupSteps \cup AfterBackup =>
       /\ jobs[current].source \in records \cap files
       /\ step = "retaining" => jobs[current].source \notin doomed
  /\ step \in AfterBackup /\ Kind \in Protecting => safety = current /\ current \in records \cap files

(* The archives without a record that no failed clean-up accounts for.       *)
Loose == (files \ stray) \ records

OrphanInv ==
  /\ 0 \in files => 0 \in records
  /\ \A f \in files \ {0} :
       f \in DOMAIN jobs /\ jobs[f].status # "PENDING" /\ jobs[f].kind \in Protecting
  /\ \A f \in Loose :
       IF f = current
       THEN /\ step \in {"registering", "retaining"} \/ (step = "failing" /\ safety = f)
            /\ jobs[f].status = "RUNNING"
       ELSE \/ jobs[f].status \in {"RUNNING", "INTERRUPTED"}
            \/ jobs[f].safety = f
            \/ jobs[f].kind = "PALWORLD_UPDATE" /\ jobs[f].status = "FAILED"

-----------------------------------------------------------------------------
(* Rows. *)

(* A sequence of rows after one of them changed.                             *)
LEMMA RowChanged ==
  ASSUME NEW s \in Seq(Row), NEW j \in DOMAIN s, NEW row \in Row
  PROVE  LET t == [s EXCEPT ![j] = row]
         IN  /\ t \in Seq(Row) /\ Len(t) = Len(s) /\ DOMAIN t = DOMAIN s
             /\ t[j] = row
             /\ \A i \in DOMAIN s \ {j} : t[i] = s[i]
OBVIOUS

(* What an INSERT does to the table.                                         *)
LEMMA EnqueueRows ==
  ASSUME Typed, NEW k, NEW src \in 0..MaxJobs, Enqueue(k, src)
  PROVE  /\ jobs' \in Seq(Row) /\ Len(jobs') = Len(jobs) + 1 /\ Len(jobs') <= MaxJobs
         /\ \A j \in DOMAIN jobs : j \in DOMAIN jobs' /\ jobs'[j] = jobs[j]
         /\ DOMAIN jobs' = DOMAIN jobs \cup {Len(jobs')}
         /\ Len(jobs') \notin DOMAIN jobs
         /\ jobs'[Len(jobs')].status = "PENDING"
         /\ powered
<1> DEFINE row == [kind |-> k, status |-> "PENDING", cancel |-> FALSE,
                   cancellable |-> k = "PALWORLD_UPDATE", review |-> FALSE,
                   source |-> src, safety |-> 0]
<1>1. row \in Row
  BY LifecycleAssumption DEF Enqueue, Row, Status
<1>2. jobs' = Append(jobs, row) /\ Len(jobs) < MaxJobs /\ powered
  BY DEF Enqueue
<1>3. row.status = "PENDING"
  OBVIOUS
<1> HIDE DEF row
<1> QED
  BY <1>1, <1>2, <1>3, LifecycleAssumption DEF Typed

(* A claim takes a PENDING job.                                              *)
LEMMA ClaimRows ==
  ASSUME Typed, NEW k, NEW s, Claim(k, s)
  PROVE  /\ jobs' \in Seq(Row) /\ Len(jobs') = Len(jobs) /\ DOMAIN jobs' = DOMAIN jobs
         /\ current' \in DOMAIN jobs
         /\ jobs[current'].status = "PENDING" /\ jobs[current'].kind = k
         /\ jobs'[current'].status = "RUNNING"
         /\ jobs'[current'].kind = k /\ jobs'[current'].source = jobs[current'].source
         /\ jobs'[current'].review = jobs[current'].review
         /\ jobs'[current'].safety = jobs[current'].safety
         /\ \A j \in DOMAIN jobs \ {current'} : jobs'[j] = jobs[j]
         /\ step = "idle" /\ ~critical'
<1> PICK j \in DOMAIN jobs :
        /\ jobs[j].status = "PENDING" /\ jobs[j].kind = k
        /\ current' = j
        /\ jobs' = [jobs EXCEPT ![j].status = "RUNNING"]
  BY DEF Claim
<1> DEFINE row == [jobs[j] EXCEPT !.status = "RUNNING"]
<1>1. jobs[j] \in Row
  BY DEF Typed
<1>2. /\ row \in Row /\ row.status = "RUNNING"
      /\ row.kind = jobs[j].kind /\ row.source = jobs[j].source
      /\ row.review = jobs[j].review /\ row.safety = jobs[j].safety
  BY <1>1 DEF Row, Status
<1>3. jobs' = [jobs EXCEPT ![j] = row]
  OBVIOUS
<1> HIDE DEF row
<1>4. jobs \in Seq(Row) /\ step = "idle" /\ ~critical'
  BY DEF Typed, Claim
<1>5. /\ jobs' \in Seq(Row) /\ Len(jobs') = Len(jobs) /\ DOMAIN jobs' = DOMAIN jobs
      /\ jobs'[j] = row /\ \A i \in DOMAIN jobs \ {j} : jobs'[i] = jobs[i]
  BY <1>2, <1>3, <1>4, RowChanged
<1> QED
  BY <1>2, <1>4, <1>5

(* An outcome changes only the row of the worker's job.                      *)
LEMMA RecordRows ==
  ASSUME Typed, current # NoJob, NEW result \in Status, NEW review \in BOOLEAN,
         NEW safe \in 0..MaxJobs, Record(result, review, safe)
  PROVE  /\ jobs' \in Seq(Row) /\ Len(jobs') = Len(jobs) /\ DOMAIN jobs' = DOMAIN jobs
         /\ jobs'[current].status = result /\ ~jobs'[current].cancellable
         /\ jobs'[current].review = review /\ jobs'[current].safety = safe
         /\ jobs'[current].kind = jobs[current].kind /\ jobs'[current].source = jobs[current].source
         /\ jobs'[current].cancel = jobs[current].cancel
         /\ \A j \in DOMAIN jobs \ {current} : jobs'[j] = jobs[j]
<1> DEFINE row == [jobs[current] EXCEPT !.status = result, !.cancellable = FALSE,
                                        !.review = review, !.safety = safe]
<1>1. current \in DOMAIN jobs /\ jobs[current] \in Row
  BY DEF Typed, NoJob
<1>2. /\ row \in Row
      /\ row.status = result /\ ~row.cancellable /\ row.review = review /\ row.safety = safe
      /\ row.kind = jobs[current].kind /\ row.source = jobs[current].source
      /\ row.cancel = jobs[current].cancel
  BY <1>1 DEF Row
<1>3. jobs' = [jobs EXCEPT ![current] = row]
  BY DEF Record
<1> HIDE DEF row
<1> QED
  BY <1>1, <1>2, <1>3, RowChanged DEF Typed

(* Recovery closes every RUNNING row with a review.                          *)
LEMMA RecoverRows ==
  ASSUME Typed, Recover
  PROVE  /\ jobs' \in Seq(Row) /\ Len(jobs') = Len(jobs) /\ DOMAIN jobs' = DOMAIN jobs
         /\ \A j \in DOMAIN jobs :
              /\ jobs[j].status # "RUNNING" => jobs'[j] = jobs[j]
              /\ jobs[j].status = "RUNNING" => jobs'[j].status = "INTERRUPTED" /\ jobs'[j].review
              /\ jobs'[j].kind = jobs[j].kind /\ jobs'[j].source = jobs[j].source
              /\ jobs'[j].safety = jobs[j].safety
<1> DEFINE row(j) == IF jobs[j].status = "RUNNING"
                     THEN [jobs[j] EXCEPT !.status = "INTERRUPTED", !.cancellable = FALSE,
                                          !.review = TRUE]
                     ELSE jobs[j]
<1>1. \A j \in DOMAIN jobs :
        /\ row(j) \in Row
        /\ jobs[j].status # "RUNNING" => row(j) = jobs[j]
        /\ jobs[j].status = "RUNNING" => row(j).status = "INTERRUPTED" /\ row(j).review
        /\ row(j).kind = jobs[j].kind /\ row(j).source = jobs[j].source
        /\ row(j).safety = jobs[j].safety
  <2> TAKE j \in DOMAIN jobs
  <2>1. jobs[j] \in Row
    BY DEF Typed
  <2> QED
    BY <2>1 DEF Row, Status, Terminal
<1>2. jobs' = [j \in DOMAIN jobs |-> row(j)]
  BY DEF Recover
<1> HIDE DEF row
<1>3. DOMAIN jobs = 1..Len(jobs) /\ Len(jobs) \in Nat
  BY DEF Typed
<1>4. jobs' \in Seq(Row) /\ Len(jobs') = Len(jobs)
  BY <1>1, <1>2, <1>3
<1>5. \A j \in DOMAIN jobs : jobs'[j] = row(j)
  BY <1>2
<1> QED
  BY <1>1, <1>2, <1>4, <1>5

(* A cancel raises the flag of a cancellable job; PENDING, it ends with it.   *)
LEMMA CancelRows ==
  ASSUME Typed, RequestCancel
  PROVE  \E j \in DOMAIN jobs :
           /\ jobs' \in Seq(Row) /\ Len(jobs') = Len(jobs) /\ DOMAIN jobs' = DOMAIN jobs
           /\ jobs[j].cancellable /\ jobs[j].status \in {"PENDING", "RUNNING"}
           /\ jobs'[j].status = IF jobs[j].status = "PENDING" THEN "CANCELLED" ELSE "RUNNING"
           /\ jobs'[j].kind = jobs[j].kind /\ jobs'[j].source = jobs[j].source
           /\ jobs'[j].review = jobs[j].review /\ jobs'[j].safety = jobs[j].safety
           /\ \A i \in DOMAIN jobs \ {j} : jobs'[i] = jobs[i]
<1> DEFINE row(j) == IF jobs[j].status = "PENDING"
                     THEN [jobs[j] EXCEPT !.cancel = TRUE, !.status = "CANCELLED",
                                          !.cancellable = FALSE]
                     ELSE [jobs[j] EXCEPT !.cancel = TRUE]
<1> PICK j \in Active : jobs[j].cancellable /\ jobs' = [jobs EXCEPT ![j] = row(j)]
  BY DEF RequestCancel
<1> USE DEF Active
<1>1. jobs[j] \in Row
  BY DEF Typed
<1>2. /\ row(j) \in Row
      /\ row(j).status = IF jobs[j].status = "PENDING" THEN "CANCELLED" ELSE "RUNNING"
      /\ row(j).kind = jobs[j].kind /\ row(j).source = jobs[j].source
      /\ row(j).review = jobs[j].review /\ row(j).safety = jobs[j].safety
  BY <1>1 DEF Row, Status, Terminal
<1> HIDE DEF row
<1> QED
  BY <1>2, RowChanged DEF Typed

(* The other changes of a row are to the flags of the worker's job.          *)
LEMMA FlagRows ==
  ASSUME Typed, current # NoJob
  PROVE  /\ current \in DOMAIN jobs /\ jobs[current] \in Row
         /\ \A row \in Row : jobs' = [jobs EXCEPT ![current] = row] =>
              /\ jobs' \in Seq(Row) /\ Len(jobs') = Len(jobs) /\ DOMAIN jobs' = DOMAIN jobs
              /\ jobs'[current] = row
              /\ \A i \in DOMAIN jobs \ {current} : jobs'[i] = jobs[i]
<1>1. current \in DOMAIN jobs
  BY DEF Typed, NoJob
<1> QED
  BY <1>1, RowChanged DEF Typed

-----------------------------------------------------------------------------
(* The steps by what they do to the rows.                                    *)

(* Neither a row nor the job in hand, a backup or a directory is touched.    *)
Calm == <<jobs, current, critical, records, files, doomed, safety, stray, newDir, prevDir>>

Working ==
  \/ Probe /\ UNCHANGED <<OtherVars, updateVars>>
  \/ (CheckServer \/ NoConsistentBackup \/ Stage) /\ UNCHANGED <<restoreVars, updateVars>>
  \/ (Prepare \/ StopMissed \/ MergeSettings \/ Started) /\ UNCHANGED updateVars
  \/ Verify \/ CancelHonoured \/ AskPlayers \/ Warn \/ BeginInstalling \/ Installed
  \/ UpdateStarted \/ RaiseInUpdate \/ CheckPalworld \/ HostStopped \/ RequestPower

Passing ==
  (Progress \/ Trouble \/ Serve \/ Boot) /\ UNCHANGED <<lifecycleVars, OtherVars, updateVars>>

Asking ==
  /\ \E k \in JobKind, src \in records \cup {0} : Enqueue(k, src)
  /\ UNCHANGED <<OtherVars, build>>

(* Which step a claim of a job of kind k leads to.                           *)
Opens(k, s) ==
  \/ k \in LifecycleKinds /\ s = "server"
  \/ k \in RestoreKinds /\ s = "preparing"
  \/ k = "PALWORLD_UPDATE_CHECK" /\ s = "asking_steam"
  \/ k = "PALWORLD_UPDATE" /\ s = "verifying"
  \/ k \in HostPowerKinds /\ s = "host_check"

Claiming ==
  /\ \E k \in JobKind : Opens(k, step') /\ Claim(k, step')
  /\ call' \notin {"reached", "offline", "knocking"}
  /\ call' = "none" \/ step' \in {"server", "host_check"}
  /\ safety' \in {0, safety}
  /\ UNCHANGED <<records, files, doomed, stray, newDir, prevDir, updateVars>>

(* What an outcome says of a job that failed half way.                       *)
Ending ==
  /\ \E result \in Terminal, review \in BOOLEAN, safe \in {0, safety, jobs[current].safety} :
       /\ Finish(result, review, safe)
       /\ step = "failing" /\ Kind \in RestoreKinds => review = critical /\ safe = safety
       /\ step = "failing" /\ UpdateJob /\ jobs[current].status = "RUNNING" =>
            /\ review \in {critical, ~jobs[current].cancellable}
            /\ result = "FAILED"
  /\ step \notin {"idle", "down", "copying", "displacing", "placing", "merging", "discarding",
                 "installing"} \cup BackupSteps
  /\ safety' \in {0, safety}
  /\ UNCHANGED <<records, files, doomed, stray, newDir, prevDir, merged, build>>

Dying ==
  /\ step' = "down" /\ call' = "none" /\ current' = NoJob /\ critical' = FALSE
  /\ seen' = NotSeen /\ overtaken' = FALSE /\ server' \in {server, "down"}
  /\ safety' \in {0, safety}
  /\ UNCHANGED <<jobs, saves, records, files, stray, newDir, prevDir, merged, build>>

Recovering == Recover /\ UNCHANGED <<OtherVars, updateVars>>

BackingUp ==
  /\ Publish \/ Register \/ Unlink \/ RaiseInBackup \/ LeaveArchive
  /\ UNCHANGED <<restoreVars, updateVars>>

Replacing ==
  (BeginReplacing \/ Copied \/ Displace \/ Place \/ Discard) /\ UNCHANGED updateVars

Failing == (RaiseInRestore \/ StrandRestore) /\ UNCHANGED updateVars

LEMMA NextCases ==
  ASSUME Typed, PlaceInv, Next
  PROVE  \/ Passing \/ Working \/ Asking \/ RequestCancel \/ Claiming \/ Ending \/ Dying
         \/ Recovering \/ BackingUp
         \/ CommitBeforeStop /\ UNCHANGED updateVars
         \/ CommitBeforeCountdown
         \/ Replacing \/ Failing
         \/ MarkIrreversible \/ Compare
<1> USE DEF PlaceInv
<1>1. CASE Host /\ (IF powered' = powered \/ powered' THEN UNCHANGED <<OtherVars, updateVars>>
                                                   ELSE Lost)
  <2>1. CASE (Progress \/ Trouble \/ Serve \/ Boot) /\ UNCHANGED lifecycleVars
    <3>1. powered' = powered \/ powered'
      BY <2>1 DEF Progress, Trouble, Serve, Boot
    <3> QED
      BY <1>1, <2>1, <3>1 DEF Passing
  <2>2. CASE ServePower /\ Die
    <3>1. Dying
      BY <1>1, <2>2 DEF ServePower, Die, Enter, Lost, Dying, OtherVars, backupVars, restoreVars,
                        updateVars
    <3> QED
      BY <3>1
  <2> QED
    BY <1>1, <2>1, <2>2 DEF Host
<1>2. CASE Crash /\ Lost
  <2>1. Dying
    BY <1>2 DEF Crash, Die, Enter, Lost, Dying, hostVars, restoreVars, updateVars
  <2> QED
    BY <2>1
<1>3. CASE Web
  <2>1. CASE RequestCancel
    BY <2>1
  <2>2. CASE Web /\ ~RequestCancel
    <3>1. Asking
      BY <2>2 DEF Web, RequestLifecycle, RequestRestore, RequestCheck, RequestUpdate,
                  RequestHostPower, Asking, OtherVars, updateVars, LifecycleKinds,
                  HostPowerKinds, RestoreKinds, JobKind, PalworldKinds, UpdateKinds
    <3> QED
      BY <3>1
  <2> QED
    BY <1>3, <2>1, <2>2
<1>4. CASE ClaimLifecycle /\ UNCHANGED <<OtherVars, updateVars>>
  <2>1. Claiming
    BY <1>4 DEF ClaimLifecycle, Claiming, Opens, Await, JobKind, PalworldKinds, OtherVars,
                backupVars, restoreVars
  <2> QED
    BY <2>1
<1>5. CASE ClaimRestore /\ UNCHANGED updateVars
  <2>1. Claiming
    BY <1>5 DEF ClaimRestore, Claiming, Opens, Enter, JobKind
  <2> QED
    BY <2>1
<1>6. CASE ClaimUpdate
  <2>1. Claiming
    BY <1>6 DEF ClaimUpdate, Claiming, Opens, Enter, JobKind, PalworldKinds, UpdateKinds,
                restoreVars
  <2> QED
    BY <2>1
<1>7. CASE ClaimHostPower
  <2>1. Claiming
    BY <1>7 DEF ClaimHostPower, Claiming, Opens, Await, JobKind, OtherVars, backupVars,
                restoreVars
  <2> QED
    BY <2>1
<1>8. CASE \/ FinishLifecycle /\ UNCHANGED <<OtherVars, updateVars>>
           \/ FinishCheck \/ FinishHostPower
  <2>1. Ending
    BY <1>8 DEF FinishLifecycle, FinishCheck, FinishHostPower, Ending, Terminal, BackupSteps,
         OtherVars,
                backupVars, restoreVars, updateVars, KindInv, HostPowerJob, HostPowerKinds,
                RestoreKinds, UpdateJob
  <2> QED
    BY <2>1
<1>9. CASE RaiseInHostPower
  <2>1. Kind \in HostPowerKinds
        /\ step \notin {"idle", "down", "copying", "displacing", "placing", "merging", "discarding",
                       "installing"} \cup BackupSteps
    BY <1>9 DEF RaiseInHostPower, HostPowerJob, KindInv, Kind, HostPowerKinds, Restoring,
                RestoreKinds, Updating, BackupSteps, Protecting
  <2>2. Ending
    BY <1>9, <2>1 DEF RaiseInHostPower, Ending, Terminal, OtherVars,
                backupVars, restoreVars, updateVars, HostPowerKinds, RestoreKinds, UpdateJob
  <2> QED
    BY <2>2
<1>10. CASE FinishRestore /\ UNCHANGED updateVars
  <2>1. Ending
    BY <1>10 DEF FinishRestore, Ending, Terminal, BackupSteps, restoreVars, updateVars, Typed,
         RestoreKinds,
                 UpdateJob
  <2> QED
    BY <2>1
<1>11. CASE FinishUpdate
  <2>1. Ending
    BY <1>11 DEF FinishUpdate, Ending, Terminal, BackupSteps, restoreVars, updateVars, Typed,
         RestoreKinds,
                 UpdateJob
  <2> QED
    BY <2>1
<1>12. CASE FailUnexpected
  <2>1. current \in DOMAIN jobs /\ current # NoJob
    BY <1>12 DEF FailUnexpected, UpdateJob, Kind, Typed, NoJob
  <2>2. /\ jobs[current].review \in BOOLEAN /\ jobs[current].cancellable \in BOOLEAN
        /\ jobs[current].status \in {"RUNNING"} \cup Terminal
    <3>1. jobs[current] \in Row
      BY <2>1 DEF Typed
    <3> QED
      BY <2>1, <3>1 DEF Row, StatusInv, Terminal
  <2>3. Ending
    BY <1>12, <2>2 DEF FailUnexpected, Ending, Terminal, BackupSteps, restoreVars, updateVars,
         RestoreKinds,
                       UpdateJob
  <2> QED
    BY <2>3
<1>13. CASE UpdateStep /\ ~ClaimUpdate /\ ~FinishCheck /\ ~FinishUpdate /\ ~FailUnexpected
  BY <1>13 DEF UpdateStep, Working
<1>14. CASE HostPowerStep /\ ~ClaimHostPower /\ ~FinishHostPower /\ ~RaiseInHostPower
  BY <1>14 DEF HostPowerStep, Working
<1>15. CASE RestoreStep /\ UNCHANGED updateVars /\ ~ClaimRestore /\ ~FinishRestore
  BY <1>15 DEF RestoreStep, Replace, Replacing, Failing, Working
<1>16. CASE Backup /\ UNCHANGED <<restoreVars, updateVars>>
  BY <1>16 DEF Backup, BackingUp, Working
<1>17. CASE (Probe \/ Recover) /\ UNCHANGED <<OtherVars, updateVars>>
  BY <1>17 DEF Recovering, Working
<1>18. CASE RestoreStep /\ UNCHANGED updateVars
  BY <1>5, <1>10, <1>15, <1>18
<1>19. CASE UpdateStep
  BY <1>6, <1>8, <1>11, <1>12, <1>13, <1>19
<1>20. CASE HostPowerStep
  BY <1>7, <1>8, <1>9, <1>14, <1>20
<1>21. CASE (Probe \/ ClaimLifecycle \/ FinishLifecycle \/ Recover)
              /\ UNCHANGED <<OtherVars, updateVars>>
  BY <1>4, <1>8, <1>17, <1>21
<1>22. CASE Worker
  BY <1>16, <1>18, <1>19, <1>20, <1>21, <1>22 DEF Worker
<1> QED
  BY <1>1, <1>2, <1>3, <1>22 DEF Next

LEMMA WorkingKeeps ==
  ASSUME Working
  PROVE  /\ UNCHANGED <<Calm, saves, powered>>
         /\ step = "merging" \/ UNCHANGED merged
<1> USE DEF Calm, OtherVars, backupVars, restoreVars, hostVars
<1>1. CASE Probe /\ UNCHANGED <<OtherVars, updateVars>>
  BY <1>1 DEF Probe, ReadUnit, ReadProcess, QueryFails, Judge, Conclude, Knock, Ask
<1>2. CASE (CheckServer \/ NoConsistentBackup \/ Stage) /\ UNCHANGED <<restoreVars, updateVars>>
  BY <1>2 DEF CheckServer, NoConsistentBackup, Stage
<1>3. CASE Prepare \/ StopMissed \/ MergeSettings \/ Started
  BY <1>3 DEF Prepare, StopMissed, MergeSettings, Started
<1>4. CASE \/ Verify \/ CancelHonoured \/ AskPlayers \/ Warn \/ BeginInstalling \/ Installed
           \/ UpdateStarted \/ RaiseInUpdate \/ CheckPalworld \/ HostStopped \/ RequestPower
  BY <1>4 DEF Verify, CancelHonoured, AskPlayers, Warn, BeginInstalling, Installed, GoTo,
              UpdateStarted, RaiseInUpdate, CheckPalworld, HostStopped, RequestPower
<1> QED
  BY <1>1, <1>2, <1>3, <1>4 DEF Working

LEMMA PassingKeeps ==
  ASSUME Passing
  PROVE  /\ UNCHANGED <<Calm, step, call, seen, overtaken, merged, build>>
         /\ saves' = saves \/ (saves = "none" /\ saves' = "fresh")
<1>1. UNCHANGED <<Calm, step, call, seen, overtaken, merged, build>>
  BY DEF Passing, Calm, lifecycleVars, callVars, OtherVars, updateVars, backupVars, restoreVars
<1>2. saves' = saves \/ (saves = "none" /\ saves' = "fresh")
  BY DEF Passing, Progress, Trouble, Serve, Boot
<1> QED
  BY <1>1, <1>2

(* A row is never removed and keeps its kind and its source; only the job in  *)
(* hand and a requested cancel change what else it says.                     *)
LEMMA StepRows ==
  ASSUME Typed, PlaceInv, [Next]_vars
  PROVE  /\ jobs' \in Seq(Row) /\ Len(jobs') <= MaxJobs /\ Len(jobs) <= Len(jobs')
         /\ \A j \in DOMAIN jobs : /\ j \in DOMAIN jobs'
                                   /\ jobs'[j].kind = jobs[j].kind
                                   /\ jobs'[j].source = jobs[j].source
         /\ current' \in {current, NoJob} \/ Claiming
<1> USE DEF PlaceInv
<1>0. /\ jobs \in Seq(Row) /\ Len(jobs) <= MaxJobs
      /\ \A j \in DOMAIN jobs : jobs[j] \in Row
  BY DEF Typed
<1>1. CASE UNCHANGED vars
  BY <1>0, <1>1 DEF vars, lifecycleVars
<1>2. CASE Passing
  BY <1>0, <1>2, PassingKeeps DEF Calm
<1>3. CASE Working
  BY <1>0, <1>3, WorkingKeeps DEF Calm
<1>4. CASE Asking
  <2> PICK k \in JobKind, src \in 0..MaxJobs : Enqueue(k, src)
    BY <1>4, LifecycleAssumption DEF Asking, Typed
  <2>1. current' = current
    BY DEF Enqueue
  <2> QED
    BY <1>0, <2>1, EnqueueRows
<1>5. CASE RequestCancel
  <2>1. current' = current
    BY <1>5 DEF RequestCancel
  <2> QED
    BY <1>0, <1>5, <2>1, CancelRows
<1>6. CASE Claiming
  <2> PICK k \in JobKind : Claim(k, step')
    BY <1>6 DEF Claiming
  <2> QED
    BY <1>0, <1>6, ClaimRows
<1>7. CASE Ending
  <2>1. current # NoJob /\ current \in DOMAIN jobs
    BY <1>7 DEF Ending, KindInv, Typed, NoJob
  <2> PICK result \in Terminal, review \in BOOLEAN, safe \in {0, safety, jobs[current].safety} :
          Finish(result, review, safe)
    BY <1>7 DEF Ending
  <2>2. result \in Status /\ safe \in 0..MaxJobs
    BY <1>0, <2>1, LifecycleAssumption DEF Status, Row, Typed
  <2>3. Record(result, review, safe) /\ current' = NoJob
    BY DEF Finish
  <2> QED
    BY <1>0, <2>1, <2>2, <2>3, RecordRows
<1>8. CASE Dying
  BY <1>0, <1>8 DEF Dying
<1>9. CASE Recovering
  <2>1. Recover /\ current' = current
    BY <1>9 DEF Recovering, Recover
  <2>2. \A j \in DOMAIN jobs : jobs'[j].kind = jobs[j].kind /\ jobs'[j].source = jobs[j].source
    BY <2>1, RecoverRows
  <2>3. jobs' \in Seq(Row) /\ Len(jobs') = Len(jobs) /\ DOMAIN jobs' = DOMAIN jobs
    BY <2>1, RecoverRows
  <2> QED
    BY <1>0, <2>1, <2>2, <2>3
<1>10. CASE BackingUp
  <2>1. CASE Publish \/ LeaveArchive
    <3>1. current # NoJob
      BY <2>1 DEF Publish, LeaveArchive, KindInv
    <3>2. [jobs[current] EXCEPT !.cancellable = FALSE] \in Row
      BY <3>1, FlagRows DEF Row
    <3>3. jobs' = [jobs EXCEPT ![current] = [jobs[current] EXCEPT !.cancellable = FALSE]]
          /\ current' = current
      BY <2>1 DEF Publish, LeaveArchive
    <3> QED
      BY <1>0, <3>1, <3>2, <3>3, FlagRows DEF Row
  <2>2. CASE Register \/ Unlink \/ RaiseInBackup
    BY <1>0, <2>2 DEF Register, Unlink, RaiseInBackup, lifecycleVars
  <2> QED
    BY <1>10, <2>1, <2>2 DEF BackingUp
<1>11. CASE CommitBeforeStop
  BY <1>0, <1>11 DEF CommitBeforeStop, CommitTo
<1>12. CASE CommitBeforeCountdown
  <2>1. current # NoJob
    BY <1>12 DEF CommitBeforeCountdown, CommitTo, KindInv
  <2>2. [jobs[current] EXCEPT !.cancellable = TRUE, !.safety = safety] \in Row
    BY <2>1, FlagRows DEF Row, Typed
  <2>3. jobs' = [jobs EXCEPT ![current] =
                   [jobs[current] EXCEPT !.cancellable = TRUE, !.safety = safety]]
        /\ current' = current
    <3>1. jobs' = [jobs EXCEPT ![current].cancellable = TRUE, ![current].safety = safety]
          /\ current' = current
      BY <1>12 DEF CommitBeforeCountdown, CommitTo
    <3> QED
      BY <2>1, <3>1, FlagRows DEF Row
  <2> QED
    BY <1>0, <2>1, <2>2, <2>3, FlagRows DEF Row
<1>13. CASE Replacing \/ Failing
  <2>1. CASE BeginReplacing
    <3>1. current # NoJob
      BY <2>1 DEF BeginReplacing, KindInv
    <3>2. [jobs[current] EXCEPT !.review = TRUE] \in Row
      BY <3>1, FlagRows DEF Row
    <3>3. jobs' = [jobs EXCEPT ![current] = [jobs[current] EXCEPT !.review = TRUE]]
          /\ current' = current
      BY <2>1 DEF BeginReplacing
    <3> QED
      BY <1>0, <3>1, <3>2, <3>3, FlagRows DEF Row
  <2>2. CASE Copied \/ Displace \/ Place \/ Discard \/ RaiseInRestore \/ StrandRestore
    BY <1>0, <2>2 DEF Copied, Displace, Place, Discard, RaiseInRestore, StrandRestore
  <2> QED
    BY <1>13, <2>1, <2>2 DEF Replacing, Failing
<1>14. CASE MarkIrreversible
  <2>1. current # NoJob
    BY <1>14 DEF MarkIrreversible, KindInv
  <2>2. [jobs[current] EXCEPT !.cancellable = FALSE] \in Row
    BY <2>1, FlagRows DEF Row
  <2>3. jobs' = [jobs EXCEPT ![current] = [jobs[current] EXCEPT !.cancellable = FALSE]]
        /\ current' = current
    BY <1>14 DEF MarkIrreversible
  <2> QED
    BY <1>0, <2>1, <2>2, <2>3, FlagRows DEF Row
<1>15. CASE Compare
  <2>1. current # NoJob /\ current' = current
    BY <1>15 DEF Compare, KindInv
  <2>2. CASE Record("SUCCEEDED", FALSE, safety)
    <3>1. "SUCCEEDED" \in Status /\ safety \in 0..MaxJobs
      BY DEF Status, Terminal, Typed
    <3>2. FALSE \in BOOLEAN
      OBVIOUS
    <3>3. /\ jobs' \in Seq(Row) /\ Len(jobs') = Len(jobs) /\ DOMAIN jobs' = DOMAIN jobs
          /\ jobs'[current].kind = jobs[current].kind
          /\ jobs'[current].source = jobs[current].source
          /\ \A j \in DOMAIN jobs \ {current} : jobs'[j] = jobs[j]
      BY <2>1, <2>2, <3>1, <3>2, RecordRows
    <3> QED
      BY <1>0, <2>1, <3>3
  <2>3. CASE UNCHANGED jobs
    BY <1>0, <2>1, <2>3
  <2> QED
    BY <1>15, <2>2, <2>3 DEF Compare
<1> QED
  BY <1>1, <1>2, <1>3, <1>4, <1>5, <1>6, <1>7, <1>8, <1>9, <1>10, <1>11, <1>12, <1>13, <1>14,
     <1>15, NextCases

-----------------------------------------------------------------------------
LEMMA InitTyped == Init => Typed /\ PlaceInv
<1> SUFFICES ASSUME Init PROVE Typed /\ PlaceInv
  OBVIOUS
<1> USE DEF Init, HostInit, LifecycleInit, BackupInit, RestoreInit
<1>1. jobs \in Seq(Row) /\ Len(jobs) = 0
  OBVIOUS
<1>2. Typed
  <2>0. MaxJobs \in Nat
    BY LifecycleAssumption
  <2>1. current = 0 /\ records \subseteq 0..MaxJobs /\ safety \in 0..MaxJobs
    BY <2>0 DEF NoJob
  <2>5. critical \in BOOLEAN
    OBVIOUS
  <2>2. newDir \in [1..MaxJobs -> {"none", "partial", "restored"}]
    OBVIOUS
  <2>3. prevDir \in [1..MaxJobs -> Worlds \cup {"none", "partial"}]
    OBVIOUS
  <2>4. saves \in Worlds \cup {"none"}
    BY DEF Worlds
  <2> QED
    BY <1>1, <2>0, <2>1, <2>2, <2>3, <2>4, <2>5 DEF Typed
<1>3. PlaceInv
  BY DEF PlaceInv, KindInv, StatusInv, CriticalInv, NoJob, Kind, UpdateJob, Lifecycling, Restoring,
         Updating, Powering, Shared, BackupSteps
<1> QED
  BY <1>2, <1>3

LEMMA StepTyped == Typed /\ PlaceInv /\ [Next]_vars => Typed'
<1> SUFFICES ASSUME Typed, PlaceInv, [Next]_vars PROVE Typed'
  OBVIOUS
<1>1. /\ jobs' \in Seq(Row) /\ Len(jobs') <= MaxJobs /\ current' \in 0..Len(jobs')
  <2>1. CASE current' \in {current, NoJob}
    BY <2>1, StepRows DEF Typed, NoJob
  <2>2. CASE Claiming
    <3> PICK k \in JobKind : Claim(k, step')
      BY <2>2 DEF Claiming
    <3>1. current' \in DOMAIN jobs'
      BY ClaimRows
    <3> QED
      BY <3>1, StepRows
  <2> QED
    BY <2>1, <2>2, StepRows
<1>2. current \in 0..MaxJobs
  BY LifecycleAssumption DEF Typed
<1> DEFINE Rest == /\ critical \in BOOLEAN
                   /\ records \subseteq 0..MaxJobs
                   /\ safety \in 0..MaxJobs
                   /\ saves \in Worlds \cup {"none"}
                   /\ newDir \in [1..MaxJobs -> {"none", "partial", "restored"}]
                   /\ prevDir \in [1..MaxJobs -> Worlds \cup {"none", "partial"}]
<1>3. Rest /\ 0 \in 0..MaxJobs
  BY LifecycleAssumption DEF Typed
<1> SUFFICES Rest'
  BY <1>1 DEF Typed
<1> USE DEF OtherVars, backupVars, restoreVars, hostVars
<1>4. CASE UNCHANGED vars
  BY <1>3, <1>4 DEF vars, lifecycleVars
<1>5. CASE Passing \/ Working
  BY <1>3, <1>5, PassingKeeps, WorkingKeeps DEF Calm, Worlds
<1>6. CASE Asking
  BY <1>3, <1>6 DEF Asking, Enqueue
<1>7. CASE RequestCancel
  BY <1>3, <1>7 DEF RequestCancel
<1>8. CASE Claiming
  BY <1>3, <1>8 DEF Claiming, Claim
<1>9. CASE Ending
  BY <1>3, <1>9 DEF Ending, Finish
<1>10. CASE Dying
  BY <1>3, <1>10 DEF Dying
<1>11. CASE Recovering
  BY <1>3, <1>11 DEF Recovering, Recover
<1>12. CASE BackingUp
  BY <1>2, <1>3, <1>12 DEF BackingUp, Publish, Register, Unlink, RaiseInBackup, LeaveArchive,
                           lifecycleVars
<1>13. CASE CommitBeforeStop \/ CommitBeforeCountdown
  BY <1>2, <1>3, <1>13 DEF CommitBeforeStop, CommitBeforeCountdown, CommitTo
<1>14. CASE Replacing
  BY <1>3, <1>14 DEF Replacing, BeginReplacing, Copied, Displace, Place, Discard, Worlds
<1>15. CASE Failing
  BY <1>3, <1>15 DEF Failing, RaiseInRestore, StrandRestore
<1>16. CASE MarkIrreversible \/ Compare
  BY <1>3, <1>16 DEF MarkIrreversible, Compare
<1> QED
  BY <1>4, <1>5, <1>6, <1>7, <1>8, <1>9, <1>10, <1>11, <1>12, <1>13, <1>14, <1>15, <1>16,
     NextCases

(* The kind of the worker's job is fixed as long as it is in hand.           *)
LEMMA KindKept ==
  ASSUME Typed, PlaceInv, [Next]_vars, current' = current
  PROVE  Kind' = Kind
<1>1. CASE current = NoJob
  BY <1>1 DEF Kind
<1>2. CASE current # NoJob
  <2>1. current \in DOMAIN jobs
    BY <1>2 DEF Typed, NoJob
  <2> QED
    BY <1>2, <2>1, StepRows DEF Kind
<1> QED
  BY <1>1, <1>2

LEMMA StepKind == Typed /\ PlaceInv /\ [Next]_vars => KindInv'
<1> SUFFICES ASSUME Typed, PlaceInv, [Next]_vars PROVE KindInv'
  OBVIOUS
<1>0. KindInv
  BY DEF PlaceInv
<1> USE DEF Lifecycling, Restoring, Updating, Powering, Shared, BackupSteps, Protecting,
            LifecycleKinds, RestoreKinds, HostPowerKinds
(* Steps of a job go on inside what its kind may do.                         *)
<1>1. ASSUME UNCHANGED current,
             \/ step' = step
             \/ step' \in BackupSteps \cup {"start"} /\ Kind \in Protecting
             \/ step' \in Restoring /\ Kind \in RestoreKinds
             \/ step' \in Updating /\ Kind = "PALWORLD_UPDATE"
             \/ step' \in Powering /\ Kind \in HostPowerKinds
             \/ step' \in {"players", "warning"}
                  /\ Kind \in HostPowerKinds \cup {"PALWORLD_UPDATE"}
             \/ step' \in Shared /\ Kind \in HostPowerKinds \cup Protecting
      PROVE  KindInv'
  <2>1. Kind' = Kind
    BY <1>1, KindKept
  <2>2. CASE step' = step
    BY <1>0, <1>1, <2>1, <2>2 DEF KindInv
  <2>3. CASE step' # step
    <3>1. current # NoJob
      BY <1>0, <1>1, <2>3 DEF KindInv, Kind
    <3> QED
      BY <1>1, <2>1, <2>3, <3>1 DEF KindInv
  <2> QED
    BY <2>2, <2>3
<1>2. ASSUME current' = NoJob, step' \in {"idle", "down"} PROVE KindInv'
  <2>1. Kind' = "NONE"
    BY <1>2 DEF Kind
  <2> QED
    BY <1>2, <2>1 DEF KindInv
<1>3. CASE UNCHANGED vars
  BY <1>1, <1>3 DEF vars, lifecycleVars
<1>4. CASE Passing
  BY <1>1, <1>4, PassingKeeps DEF Calm
<1>5. CASE Working
  <2> USE DEF Enter, Await, GoTo
  <2>0. current' = current
    BY <1>5, WorkingKeeps DEF Calm
  <2>1. CASE Probe
    BY <1>1, <2>1 DEF Probe, ReadUnit, ReadProcess, QueryFails, Judge, Conclude, Knock, Ask
  <2>2. CASE CheckServer \/ NoConsistentBackup \/ Stage
    BY <1>0, <1>1, <2>0, <2>2 DEF KindInv, CheckServer, NoConsistentBackup, Stage
  <2>3. CASE Prepare \/ StopMissed
    BY <1>0, <1>1, <2>0, <2>3 DEF KindInv, Prepare, StopMissed, BeginBackup
  <2>4. CASE MergeSettings \/ Started
    BY <1>0, <1>1, <2>0, <2>4 DEF KindInv, MergeSettings, Started
  <2>5. CASE Verify \/ CancelHonoured \/ AskPlayers \/ Warn
    BY <1>0, <1>1, <2>0, <2>5
       DEF KindInv, Verify, BeginBackup, CancelHonoured, AskPlayers, Warn, UpdateJob
  <2>6. CASE BeginInstalling \/ Installed \/ UpdateStarted \/ RaiseInUpdate
    BY <1>0, <1>1, <2>0, <2>6
       DEF KindInv, BeginInstalling, Installed, UpdateStarted, RaiseInUpdate, UpdateJob
  <2>7. CASE CheckPalworld \/ HostStopped \/ RequestPower
    BY <1>0, <1>1, <2>0, <2>7 DEF KindInv, CheckPalworld, HostStopped, RequestPower, HostPowerJob
  <2> QED
    BY <1>5, <2>1, <2>2, <2>3, <2>4, <2>5, <2>6, <2>7 DEF Working
<1>6. CASE Asking \/ RequestCancel
  <2>1. UNCHANGED <<step, current>>
    BY <1>6 DEF Asking, Enqueue, RequestCancel
  <2> QED
    BY <1>1, <2>1
<1>7. CASE Claiming
  <2> PICK k \in JobKind : Opens(k, step') /\ Claim(k, step')
    BY <1>7 DEF Claiming
  <2>1. current' # NoJob /\ Kind' = k
    BY ClaimRows DEF Kind, Typed, NoJob
  <2> QED
    BY <2>1 DEF Opens, KindInv
<1>8. CASE Ending
  BY <1>2, <1>8 DEF Ending, Finish, Enter
<1>9. CASE Dying
  BY <1>2, <1>9 DEF Dying
<1>10. CASE Recovering
  BY <1>0, <1>2, <1>10 DEF Recovering, Recover, Enter, KindInv
<1>11. CASE BackingUp
  BY <1>0, <1>1, <1>11 DEF BackingUp, KindInv, Publish, Register, Unlink, RaiseInBackup,
                           LeaveArchive, Enter,
                           lifecycleVars
<1>12. CASE CommitBeforeStop \/ CommitBeforeCountdown
  BY <1>0, <1>1, <1>12 DEF KindInv, CommitBeforeStop, CommitBeforeCountdown, CommitTo, Enter,
                           Await, UpdateJob
<1>13. CASE Replacing
  BY <1>0, <1>1, <1>13 DEF KindInv, Replacing, BeginReplacing, Copied, Displace, Place, Discard,
                           Enter, Await
<1>14. CASE Failing
  BY <1>0, <1>1, <1>2, <1>14 DEF KindInv, Failing, RaiseInRestore, StrandRestore, Enter
<1>15. CASE MarkIrreversible \/ Compare
  BY <1>0, <1>1, <1>15 DEF KindInv, MarkIrreversible, Compare, Enter
<1> QED
  BY <1>3, <1>4, <1>5, <1>6, <1>7, <1>8, <1>9, <1>10, <1>11, <1>12, <1>13, <1>14, <1>15, NextCases

(* The steps that change a flag of the worker's job change no other column.  *)
LEMMA FlagSteps ==
  ASSUME Typed, PlaceInv,
         Publish \/ LeaveArchive \/ MarkIrreversible \/ BeginReplacing \/ CommitBeforeCountdown
  PROVE  /\ current \in DOMAIN jobs /\ current # NoJob /\ current' = current
         /\ jobs'[current].status = jobs[current].status
         /\ jobs'[current].cancel = jobs[current].cancel
         /\ Publish \/ LeaveArchive \/ MarkIrreversible => ~jobs'[current].cancellable
         /\ BeginReplacing => jobs'[current].review
         /\ Publish \/ LeaveArchive \/ MarkIrreversible \/ CommitBeforeCountdown =>
              jobs'[current].review = jobs[current].review
         /\ \A i \in DOMAIN jobs \ {current} : jobs'[i] = jobs[i]
         /\ DOMAIN jobs' = DOMAIN jobs
<1>1. current # NoJob /\ current' = current
  BY DEF Publish, LeaveArchive, MarkIrreversible, BeginReplacing, CommitBeforeCountdown, CommitTo,
         PlaceInv, KindInv
<1>2. current \in DOMAIN jobs /\ jobs[current] \in Row
  BY <1>1, FlagRows
<1>3. CASE Publish \/ LeaveArchive \/ MarkIrreversible
  <2> DEFINE row == [jobs[current] EXCEPT !.cancellable = FALSE]
  <2>1. /\ row \in Row /\ ~row.cancellable /\ row.review = jobs[current].review
        /\ row.status = jobs[current].status /\ row.cancel = jobs[current].cancel
    BY <1>2 DEF Row
  <2>2. jobs' = [jobs EXCEPT ![current] = row]
    BY <1>3 DEF Publish, LeaveArchive, MarkIrreversible
  <2>3. ~BeginReplacing
    BY <1>3 DEF Publish, LeaveArchive, MarkIrreversible, BeginReplacing
  <2> HIDE DEF row
  <2>4. jobs'[current] = row /\ DOMAIN jobs' = DOMAIN jobs
        /\ \A i \in DOMAIN jobs \ {current} : jobs'[i] = jobs[i]
    BY <1>1, <2>1, <2>2, FlagRows
  <2> QED
    BY <1>1, <1>2, <2>1, <2>3, <2>4
<1>4. CASE BeginReplacing
  <2> DEFINE row == [jobs[current] EXCEPT !.review = TRUE]
  <2>1. /\ row \in Row /\ row.review
        /\ row.status = jobs[current].status /\ row.cancel = jobs[current].cancel
    BY <1>2 DEF Row
  <2>2. jobs' = [jobs EXCEPT ![current] = row]
    BY <1>4 DEF BeginReplacing
  <2>3. ~Publish /\ ~LeaveArchive /\ ~MarkIrreversible /\ ~CommitBeforeCountdown
    BY <1>4 DEF Publish, LeaveArchive, MarkIrreversible, BeginReplacing, CommitBeforeCountdown,
                CommitTo
  <2> HIDE DEF row
  <2>4. jobs'[current] = row /\ DOMAIN jobs' = DOMAIN jobs
        /\ \A i \in DOMAIN jobs \ {current} : jobs'[i] = jobs[i]
    BY <1>1, <2>1, <2>2, FlagRows
  <2> QED
    BY <1>1, <1>2, <2>1, <2>3, <2>4
<1>5. CASE CommitBeforeCountdown
  <2> DEFINE row == [jobs[current] EXCEPT !.cancellable = TRUE, !.safety = safety]
  <2>0. safety \in 0..MaxJobs
    BY DEF Typed
  <2>1. /\ row \in Row /\ row.review = jobs[current].review
        /\ row.status = jobs[current].status /\ row.cancel = jobs[current].cancel
    BY <1>2, <2>0 DEF Row
  <2>2. jobs' = [jobs EXCEPT ![current] = row]
    <3>1. jobs' = [jobs EXCEPT ![current].cancellable = TRUE, ![current].safety = safety]
      BY <1>5 DEF CommitBeforeCountdown, CommitTo
    <3> QED
      BY <1>2, <3>1, FlagRows DEF Row
  <2>3. ~Publish /\ ~LeaveArchive /\ ~MarkIrreversible /\ ~BeginReplacing
    BY <1>5 DEF Publish, LeaveArchive, MarkIrreversible, BeginReplacing, CommitBeforeCountdown,
                CommitTo
  <2> HIDE DEF row
  <2>4. jobs'[current] = row /\ DOMAIN jobs' = DOMAIN jobs
        /\ \A i \in DOMAIN jobs \ {current} : jobs'[i] = jobs[i]
    BY <1>1, <2>1, <2>2, FlagRows
  <2> QED
    BY <1>1, <1>2, <2>1, <2>3, <2>4
<1> QED
  BY <1>3, <1>4, <1>5

LEMMA StepStatus == Typed /\ PlaceInv /\ [Next]_vars => StatusInv'
<1> SUFFICES ASSUME Typed, PlaceInv, [Next]_vars, current' # NoJob
             PROVE  \/ jobs'[current'].status = "RUNNING"
                    \/ step' \in {"noting", "failing"} /\ UpdateJob'
                         /\ jobs'[current'].status = "SUCCEEDED"
  BY DEF StatusInv
<1>0. KindInv /\ StatusInv
  BY DEF PlaceInv
(* The status stays as it is, unless a job that has noted its success stays.  *)
<1>1. ASSUME current' = current,
             jobs'[current].status = jobs[current].status,
             step \in {"noting", "failing"} => step' \in {"noting", "failing"}
      PROVE  \/ jobs'[current].status = "RUNNING"
             \/ step' \in {"noting", "failing"} /\ UpdateJob'
                  /\ jobs'[current].status = "SUCCEEDED"
  BY <1>0, <1>1, KindKept DEF StatusInv, UpdateJob
<1>2. CASE UNCHANGED vars
  BY <1>1, <1>2 DEF vars, lifecycleVars
<1>3. CASE Passing
  BY <1>1, <1>3, PassingKeeps DEF Calm
<1>4. CASE Working
  <2>1. step \in {"noting", "failing"} => step' \in {"noting", "failing"}
    BY <1>0, <1>4 DEF Working, KindInv, GoTo, Enter, Await, Probe, ReadUnit, ReadProcess,
                      QueryFails, Judge, Conclude, Knock, Ask,
         CheckServer, NoConsistentBackup, Stage,
       Prepare, BeginBackup, StopMissed, MergeSettings, Started, Verify, CancelHonoured, AskPlayers,
       Warn, BeginInstalling, Installed, UpdateStarted, RaiseInUpdate, CheckPalworld, HostStopped,
       RequestPower
  <2> QED
    BY <1>1, <1>4, <2>1, WorkingKeeps DEF Calm
<1>5. CASE Asking
  <2> PICK k \in JobKind, src \in 0..MaxJobs : Enqueue(k, src)
    BY <1>5, LifecycleAssumption DEF Asking, Typed
  <2>1. current' = current /\ step' = step /\ current \in DOMAIN jobs
    BY DEF Enqueue, Typed, NoJob
  <2> QED
    BY <1>1, <2>1, EnqueueRows
<1>6. CASE RequestCancel
  <2>1. current' = current /\ step' = step /\ current \in DOMAIN jobs
    BY <1>6 DEF RequestCancel, Typed, NoJob
  <2>2. jobs[current].status # "PENDING"
    BY <1>0, <2>1 DEF StatusInv
  <2>3. jobs'[current].status = jobs[current].status
    BY <1>6, <2>1, <2>2, CancelRows
  <2> QED
    BY <1>1, <2>1, <2>3
<1>7. CASE Claiming
  <2> PICK k \in JobKind : Claim(k, step')
    BY <1>7 DEF Claiming
  <2> QED
    BY ClaimRows
<1>8. CASE Ending \/ Dying \/ Recovering
  BY <1>0, <1>8 DEF Ending, Finish, Dying, Recovering, Recover, KindInv
<1>9. CASE BackingUp
  <2>1. step \notin {"noting", "failing"} /\ current' = current
    BY <1>9 DEF BackingUp, Publish, Register, Unlink, RaiseInBackup, LeaveArchive, BackupSteps,
                lifecycleVars
  <2>2. CASE Publish \/ LeaveArchive
    BY <1>1, <2>1, <2>2, FlagSteps
  <2>3. CASE Register \/ Unlink \/ RaiseInBackup
    BY <1>1, <2>1, <2>3 DEF Register, Unlink, RaiseInBackup, lifecycleVars
  <2> QED
    BY <1>9, <2>2, <2>3 DEF BackingUp
<1>10. CASE CommitBeforeStop \/ CommitBeforeCountdown
  <2>1. step \notin {"noting", "failing"} /\ current' = current
    BY <1>10 DEF CommitBeforeStop, CommitBeforeCountdown, CommitTo
  <2>2. CASE CommitBeforeStop
    BY <1>1, <2>1, <2>2 DEF CommitBeforeStop, CommitTo
  <2>3. CASE CommitBeforeCountdown
    BY <1>1, <2>1, <2>3, FlagSteps
  <2> QED
    BY <1>10, <2>2, <2>3
<1>11. CASE Replacing
  <2>1. step \notin {"noting", "failing"} /\ current' = current
    BY <1>11 DEF Replacing, BeginReplacing, Copied, Displace, Place, Discard
  <2>2. CASE BeginReplacing
    BY <1>1, <2>1, <2>2, FlagSteps
  <2>3. CASE Copied \/ Displace \/ Place \/ Discard
    BY <1>1, <2>1, <2>3 DEF Copied, Displace, Place, Discard
  <2> QED
    BY <1>11, <2>2, <2>3 DEF Replacing
<1>12. CASE Failing
  BY <1>1, <1>12 DEF Failing, RaiseInRestore, StrandRestore, Enter
<1>13. CASE MarkIrreversible
  <2>1. step \notin {"noting", "failing"}
    BY <1>13 DEF MarkIrreversible
  <2> QED
    BY <1>1, <1>13, <2>1, FlagSteps
<1>14. CASE Compare
  <2>1. step = "comparing" /\ current' = current /\ current # NoJob
    BY <1>0, <1>14 DEF Compare, KindInv
  <2>2. UpdateJob'
    BY <1>0, <2>1, KindKept DEF KindInv, UpdateJob, Updating
  <2>3. CASE UNCHANGED jobs
    BY <1>1, <2>1, <2>3
  <2>4. CASE Record("SUCCEEDED", FALSE, safety) /\ Enter("noting")
    <3>1. "SUCCEEDED" \in Status /\ safety \in 0..MaxJobs /\ FALSE \in BOOLEAN
      BY DEF Status, Terminal, Typed
    <3>2. jobs'[current].status = "SUCCEEDED"
      BY <2>1, <2>4, <3>1, RecordRows
    <3> QED
      BY <2>1, <2>2, <2>4, <3>2 DEF Enter
  <2> QED
    BY <1>14, <2>3, <2>4 DEF Compare
<1> QED
  BY <1>2, <1>3, <1>4, <1>5, <1>6, <1>7, <1>8, <1>9, <1>10, <1>11, <1>12, <1>13, <1>14, NextCases

LEMMA StepCritical == Typed /\ PlaceInv /\ [Next]_vars => CriticalInv'
<1> SUFFICES ASSUME Typed, PlaceInv, [Next]_vars PROVE CriticalInv'
  OBVIOUS
<1>0. KindInv /\ CriticalInv /\ critical \in BOOLEAN
  BY DEF PlaceInv, Typed
<1> USE DEF PastReturn, Protecting
(* Neither the row nor the point of no return changes.                       *)
<1>1. ASSUME UNCHANGED <<current, critical>>,
             UpdateJob /\ critical =>
               ~jobs'[current].cancel /\ ~jobs'[current].cancellable,
             critical /\ step' # step => step' \in PastReturn,
             step' # step /\ step' \in {"copying", "displacing", "placing", "merging",
                                        "discarding"} => critical,
             step' # step /\ step' \in {"warning", "stop", "installing"} /\ UpdateJob => critical
      PROVE  CriticalInv'
  BY <1>0, <1>1, KindKept DEF CriticalInv, UpdateJob
<1>2. ASSUME ~critical', step' \notin {"copying", "displacing", "placing", "merging", "discarding",
                                       "warning", "stop", "installing"}
      PROVE  CriticalInv'
  BY <1>2 DEF CriticalInv
<1>3. CASE UNCHANGED vars
  BY <1>0, <1>1, <1>3 DEF vars, lifecycleVars, CriticalInv
<1>4. CASE Passing
  BY <1>0, <1>1, <1>4, PassingKeeps DEF Calm, CriticalInv
<1>5. CASE Working
  <2> USE DEF Enter, Await, GoTo
  <2>0. /\ UNCHANGED <<jobs, current, critical>>
        /\ UpdateJob /\ critical => ~jobs'[current].cancel /\ ~jobs'[current].cancellable
    BY <1>0, <1>5, WorkingKeeps DEF Calm, CriticalInv
  <2>1. CASE Probe
    BY <1>1, <2>0, <2>1 DEF Probe, ReadUnit, ReadProcess, QueryFails, Judge, Conclude, Knock, Ask
  <2>2. CASE CheckServer \/ NoConsistentBackup \/ Stage \/ Prepare \/ StopMissed
    BY <1>0, <1>1, <2>0, <2>2
       DEF CriticalInv, CheckServer, NoConsistentBackup, Stage, Prepare, BeginBackup, StopMissed
  <2>3. CASE MergeSettings \/ Started \/ Verify \/ CancelHonoured
    BY <1>0, <1>1, <2>0, <2>3
       DEF CriticalInv, MergeSettings, Started, Verify, BeginBackup, CancelHonoured
  <2>4. CASE AskPlayers \/ Warn \/ BeginInstalling
    BY <1>0, <1>1, <2>0, <2>4 DEF CriticalInv, AskPlayers, Warn, BeginInstalling
  <2>5. CASE Installed \/ UpdateStarted \/ RaiseInUpdate
    BY <1>0, <1>1, <2>0, <2>5 DEF CriticalInv, Installed, UpdateStarted, RaiseInUpdate
  <2>6. CASE CheckPalworld \/ HostStopped \/ RequestPower
    BY <1>0, <1>1, <2>0, <2>6
       DEF CriticalInv, CheckPalworld, HostStopped, RequestPower, HostPowerJob, HostPowerKinds,
           RestoreKinds
  <2> QED
    BY <1>5, <2>1, <2>2, <2>3, <2>4, <2>5, <2>6 DEF Working
<1>6. CASE Asking
  <2> PICK k \in JobKind, src \in 0..MaxJobs : Enqueue(k, src)
    BY <1>6, LifecycleAssumption DEF Asking, Typed
  <2>1. UNCHANGED <<step, current, critical>>
    BY DEF Enqueue
  <2>2. UpdateJob => current \in DOMAIN jobs
    BY DEF UpdateJob, Kind, Typed, NoJob
  <2>3. UpdateJob => jobs'[current] = jobs[current]
    BY <2>2, EnqueueRows
  <2> QED
    BY <1>0, <1>1, <2>1, <2>3 DEF CriticalInv
<1>7. CASE RequestCancel
  <2>1. UNCHANGED <<step, current, critical>>
    BY <1>7 DEF RequestCancel
  <2>2. UpdateJob => current \in DOMAIN jobs
    BY DEF UpdateJob, Kind, Typed, NoJob
  <2>3. UpdateJob /\ critical => jobs'[current] = jobs[current]
    BY <1>0, <1>7, <2>2, CancelRows DEF CriticalInv
  <2> QED
    BY <1>0, <1>1, <2>1, <2>3 DEF CriticalInv
<1>8. CASE Claiming
  BY <1>2, <1>8 DEF Claiming, Claim, Opens
<1>9. CASE Ending \/ Dying
  BY <1>2, <1>9 DEF Ending, Finish, Enter, Dying
<1>10. CASE Recovering
  BY <1>0, <1>2, <1>10 DEF Recovering, Recover, Enter, CriticalInv
<1>11. CASE BackingUp \/ CommitBeforeStop \/ CommitBeforeCountdown
  <2>1. ~critical /\ critical' = critical
    BY <1>0, <1>11 DEF BackingUp, Publish, Register, Unlink, RaiseInBackup, LeaveArchive,
                       CommitBeforeStop,
                       CommitBeforeCountdown, CommitTo, lifecycleVars, CriticalInv, BackupSteps
  <2>2. CASE CommitBeforeStop
    <3>1. step' = "stop" /\ current' = current
      BY <2>2 DEF CommitBeforeStop, CommitTo, Await
    <3>2. ~UpdateJob
      BY <2>2 DEF CommitBeforeStop, UpdateJob, RestoreKinds
    <3> QED
      BY <1>1, <2>1, <3>1, <3>2
  <2>3. CASE BackingUp \/ CommitBeforeCountdown
    <3>1. step' \in {"registering", "retaining", "failing", "players"}
      BY <2>3 DEF BackingUp, Publish, Register, Unlink, RaiseInBackup, LeaveArchive,
                  CommitBeforeCountdown,
                  CommitTo, lifecycleVars, Enter
    <3> QED
      BY <1>2, <2>1, <3>1
  <2> QED
    BY <1>11, <2>2, <2>3
<1>12. CASE Replacing
  <2>1. Kind \in RestoreKinds
    BY <1>0, <1>12 DEF Replacing, BeginReplacing, Copied, Displace, Place, Discard, KindInv,
                       Restoring
  <2>2. ~UpdateJob' /\ Kind' \in RestoreKinds /\ critical' /\ step' \in PastReturn
    BY <1>0, <1>12, <2>1, KindKept
       DEF Replacing, BeginReplacing, Copied, Displace, Place, Discard, Enter, Await, UpdateJob,
           RestoreKinds, CriticalInv
  <2> QED
    BY <2>2 DEF CriticalInv
<1>13. CASE Failing
  <2>1. CASE RaiseInRestore
    <3>1. ~UpdateJob' /\ Kind' \in RestoreKinds
      BY <2>1, KindKept DEF RaiseInRestore, UpdateJob, RestoreKinds
    <3>2. step' = "failing"
      BY <2>1 DEF RaiseInRestore, Enter
    <3> QED
      BY <3>1, <3>2 DEF CriticalInv
  <2>2. CASE StrandRestore
    BY <1>2, <2>2 DEF StrandRestore, Enter
  <2> QED
    BY <1>13, <2>1, <2>2 DEF Failing
<1>14. CASE MarkIrreversible
  <2>1. step' = "warning" /\ critical' /\ ~jobs[current].cancel /\ current' = current
    BY <1>14 DEF MarkIrreversible, Enter
  <2>2. ~jobs'[current].cancel /\ ~jobs'[current].cancellable
    BY <1>14, <2>1, FlagSteps
  <2>3. Kind' = "PALWORLD_UPDATE"
    BY <1>0, <1>14, <2>1, KindKept DEF MarkIrreversible, KindInv, Updating
  <2> QED
    BY <2>1, <2>2, <2>3 DEF CriticalInv
<1>15. CASE Compare
  <2>1. UNCHANGED <<current, critical>> /\ step' \in {"noting", "failing"} /\ current # NoJob
    BY <1>0, <1>15 DEF Compare, Enter, KindInv
  <2>2. CASE UNCHANGED jobs
    BY <1>0, <1>1, <2>1, <2>2 DEF CriticalInv
  <2>3. CASE Record("SUCCEEDED", FALSE, safety)
    <3>1. "SUCCEEDED" \in Status /\ safety \in 0..MaxJobs /\ FALSE \in BOOLEAN
      BY DEF Status, Terminal, Typed
    <3>2. ~jobs'[current].cancellable /\ jobs'[current].cancel = jobs[current].cancel
      BY <2>1, <2>3, <3>1, RecordRows
    <3> QED
      BY <1>0, <1>1, <2>1, <3>2 DEF CriticalInv
  <2> QED
    BY <1>15, <2>2, <2>3 DEF Compare
<1> QED
  BY <1>3, <1>4, <1>5, <1>6, <1>7, <1>8, <1>9, <1>10, <1>11, <1>12, <1>13, <1>14, <1>15, NextCases

(* The place of the worker. *)
LEMMA PlaceInductive == Spec => [](Typed /\ PlaceInv)
<1>1. Typed /\ PlaceInv /\ [Next]_vars => (Typed /\ PlaceInv)'
  BY StepTyped, StepKind, StepStatus, StepCritical DEF PlaceInv
<1> QED
  BY InitTyped, <1>1, PTL DEF Spec

(* An accepted cancel of an Update excludes its Stop: whichever checkpoint of *)
(* the preventive backup or tick of the countdown the cancel meets, the job   *)
(* does not pass its point of no return (updates/jobs.py:245,                 *)
(* DatabaseUpdateCountdownControl.mark_irreversible).                         *)
THEOREM CancelIsKept == Spec => []CancelExcludesStop
<1>1. PlaceInv => CancelExcludesStop
  BY DEF PlaceInv, CriticalInv, CancelExcludesStop
<1> QED
  BY <1>1, PlaceInductive, PTL

-----------------------------------------------------------------------------
(* The server. *)

(* A unit at rest stays at rest until somebody asks for a start.             *)
LEMMA QuietStays ==
  ASSUME Quiet, powered, Passing
  PROVE  Quiet'
<1> USE DEF Quiet, Process, StartUnderway
<1>1. CASE Progress
  BY <1>1 DEF Progress
<1>2. CASE Trouble
  BY <1>2 DEF Trouble
<1>3. CASE Serve
  BY <1>3 DEF Serve, Systemctl, ServerActions
<1>4. CASE Boot
  BY <1>4 DEF Boot
<1> QED
  BY <1>1, <1>2, <1>3, <1>4 DEF Passing

(* OFFLINE is concluded from a unit at rest and a process gone since.         *)
LEMMA JudgedOffline ==
  ASSUME SightInv, Judge, Stopped', ~Stopped, ~overtaken
  PROVE  Quiet
<1> PICK rest \in {RestOpen, FALSE} :
           Conclude(Evaluate(seen.unit, seen.process = "running", rest))
  BY DEF Judge
<1> DEFINE h == Evaluate(seen.unit, seen.process = "running", rest)
<1>1. UNCHANGED step /\ (Poll(h) \/ Look(h))
  BY DEF Conclude
<1>2. \/ step = "stop" /\ call' \in {"reached", "knocking"} /\ Poll(h)
      \/ step = "host_check" /\ call' = "offline" /\ Look(h)
  BY <1>1 DEF Stopped, Poll, Look
<1>3. h = "OFFLINE"
  <2>1. CASE step = "stop" /\ call' \in {"reached", "knocking"} /\ Poll(h)
    BY <2>1 DEF Poll, Reached, Target
  <2>2. CASE step = "host_check" /\ call' = "offline" /\ Look(h)
    BY <2>2 DEF Look
  <2> QED
    BY <1>2, <2>1, <2>2
<1>4. seen.unit \in {"inactive", "deactivating"} /\ seen.process # "running"
  BY <1>3 DEF Evaluate
<1>5. seen.process = "gone"
  BY <1>4 DEF Judge, SightInv
<1>6. ~StartUnderway /\ server \in {"down", "exited", "failed"}
  BY <1>4, <1>5 DEF SightInv
<1> QED
  BY <1>6 DEF Quiet, Process

(* A check that is not OFFLINE stops nothing.                                *)
LEMMA FailedQuery ==
  ASSUME QueryFails, Stopped'
  PROVE  Stopped
<1>1. UNCHANGED step /\ (Poll("FAILURE") \/ Look("FAILURE"))
  BY DEF QueryFails, Conclude
<1>2. CASE Poll("FAILURE")
  BY <1>1, <1>2 DEF Stopped, Poll, Reached, Target
<1>3. CASE Look("FAILURE")
  BY <1>1, <1>3 DEF Stopped, Look
<1> QED
  BY <1>1, <1>2, <1>3

(* What was read is still so after a step of the host.                       *)
LEMMA SightStays ==
  ASSUME SightInv, powered, Passing
  PROVE  SightInv'
<1>0. UNCHANGED <<seen, overtaken>>
  BY PassingKeeps
<1> SUFFICES ASSUME seen.unit \in {"inactive", "deactivating"}, ~overtaken
             PROVE  /\ ~StartUnderway'
                    /\ \/ server' \in {"down", "exited", "failed"}
                       \/ server' = "stopping" /\ seen.process # "gone"
  BY <1>0 DEF SightInv
<1>1. /\ ~StartUnderway
      /\ \/ server \in {"down", "exited", "failed"}
         \/ server = "stopping" /\ seen.process # "gone"
  BY DEF SightInv
<1> USE DEF StartUnderway
<1>2. CASE Progress
  BY <1>1, <1>2 DEF Progress
<1>3. CASE Trouble
  BY <1>1, <1>3 DEF Trouble
<1>4. CASE Serve
  BY <1>1, <1>4 DEF Serve, Systemctl, ServerActions
<1>5. CASE Boot
  BY <1>5 DEF Boot
<1> QED
  BY <1>2, <1>3, <1>4, <1>5 DEF Passing

LEMMA StepCall == Typed /\ PlaceInv /\ CallInv /\ [Next]_vars => CallInv'
<1> SUFFICES ASSUME Typed, PlaceInv, CallInv, [Next]_vars PROVE CallInv'
  OBVIOUS
<1> USE DEF CallInv, Enter, Await, GoTo
<1>2. CASE UNCHANGED vars
  BY <1>2 DEF vars, lifecycleVars, callVars
<1>3. CASE Passing
  BY <1>3, PassingKeeps
<1>4. CASE Working
  <2>1. CASE Probe
    BY <2>1
       DEF Probe, ReadUnit, ReadProcess, QueryFails, Judge, Conclude, Poll, Look, Knock, Ask
  <2>2. CASE CheckServer \/ NoConsistentBackup \/ Stage \/ Prepare \/ StopMissed
    BY <2>2 DEF CheckServer, NoConsistentBackup, Stage, Prepare, BeginBackup, StopMissed
  <2>3. CASE MergeSettings \/ Started \/ Verify \/ CancelHonoured \/ AskPlayers \/ Warn
    BY <2>3 DEF MergeSettings, Started, Verify, BeginBackup, CancelHonoured, AskPlayers, Warn
  <2>4. CASE BeginInstalling \/ Installed \/ UpdateStarted \/ RaiseInUpdate
    BY <2>4 DEF BeginInstalling, Installed, UpdateStarted, RaiseInUpdate
  <2>5. CASE CheckPalworld \/ HostStopped \/ RequestPower
    BY <2>5 DEF CheckPalworld, HostStopped, RequestPower
  <2> QED
    BY <1>4, <2>1, <2>2, <2>3, <2>4, <2>5 DEF Working
<1>5. CASE Asking \/ RequestCancel
  BY <1>5 DEF Asking, Enqueue, RequestCancel, callVars
<1>6. CASE Claiming \/ Ending \/ Dying \/ Recovering
  BY <1>6 DEF Claiming, Ending, Finish, Dying, Recovering, Recover
<1>7. CASE BackingUp
  BY <1>7 DEF BackingUp, Publish, Register, Unlink, RaiseInBackup, LeaveArchive, lifecycleVars,
              callVars
<1>8. CASE CommitBeforeStop \/ CommitBeforeCountdown
  BY <1>8 DEF CommitBeforeStop, CommitBeforeCountdown, CommitTo
<1>9. CASE Replacing \/ Failing
  BY <1>9 DEF Replacing, BeginReplacing, Copied, Displace, Place, Discard, Failing,
              RaiseInRestore, StrandRestore
<1>10. CASE MarkIrreversible \/ Compare
  BY <1>10 DEF MarkIrreversible, Compare
<1> QED
  BY <1>2, <1>3, <1>4, <1>5, <1>6, <1>7, <1>8, <1>9, <1>10, NextCases

(* A check that has read nothing yet.                                        *)
LEMMA NothingSeen == NotSeen.unit = "none" /\ NotSeen.process = "none"
BY DEF NotSeen

LEMMA StepDown == Typed /\ PlaceInv /\ DownInv /\ [Next]_vars => DownInv'
<1> SUFFICES ASSUME Typed, PlaceInv, DownInv, [Next]_vars PROVE DownInv'
  OBVIOUS
<1>0. KindInv
  BY DEF PlaceInv
<1>a. CallInv /\ CallInv' /\ SightInv
  BY StepCall DEF DownInv
<1> USE DEF Enter, Await, GoTo
(* No check is left with a reading.                                          *)
<1>b. ASSUME seen' = NotSeen PROVE SightInv' /\ seen'.unit = "none"
  BY <1>b, NothingSeen DEF SightInv, NotSeen
(* The host is as it was, and the worker was there before or is not there.   *)
<1>1. ASSUME UNCHANGED <<server, again, requests, powered>>,
             UNCHANGED <<seen, overtaken>> \/ seen' = NotSeen,
             step = "down" => step' = "down" \/ powered,
             Stopped' /\ ~overtaken' => Stopped /\ ~overtaken
      PROVE  DownInv'
  <2>1. SightInv' /\ (~powered => seen'.unit = "none")
    <3>1. CASE UNCHANGED <<seen, overtaken>>
      BY <1>1, <1>a, <3>1 DEF DownInv, SightInv, StartUnderway
    <3>2. CASE seen' = NotSeen
      BY <1>b, <3>2
    <3> QED
      BY <1>1, <3>1, <3>2
  <2>2. Stopped' /\ ~overtaken' => Quiet'
    BY <1>1 DEF DownInv, Quiet, Process, StartUnderway
  <2> QED
    BY <1>1, <1>a, <2>1, <2>2 DEF DownInv
<1>2. CASE UNCHANGED vars
  BY <1>1, <1>2 DEF vars, hostVars, lifecycleVars, callVars, Stopped
<1>3. CASE Passing
  <2>1. UNCHANGED <<step, call, seen, overtaken>>
    BY <1>3, PassingKeeps
  <2>2. ~powered' => ~powered
    BY <1>3 DEF Passing, Progress, Trouble, Serve, Boot
  <2>3. Stopped => powered
    BY DEF DownInv, Stopped
  <2>4. SightInv'
    <3>1. CASE powered
      BY <1>3, <1>a, <3>1, SightStays
    <3>2. CASE ~powered
      BY <1>a, <2>1, <3>2 DEF DownInv, SightInv
    <3> QED
      BY <3>1, <3>2
  <2>5. server' \in ServerPhase
    BY <1>3 DEF DownInv, Passing, Progress, Trouble, Serve, Systemctl, ServerActions, Boot,
                ServerPhase
  <2> QED
    BY <1>3, <1>a, <2>1, <2>2, <2>3, <2>4, <2>5, QuietStays DEF DownInv, Stopped
<1>4. CASE Working
  <2>0. powered' = powered /\ (step = "down" => step' = "down")
    <3>1. CASE Probe
      BY <3>1 DEF Probe, ReadUnit, ReadProcess, QueryFails, Judge, Conclude, Knock, Ask, hostVars
    <3>2. CASE ~Probe
      BY <1>4, <3>2, WorkingKeeps
         DEF Working, CheckServer, NoConsistentBackup, Stage, Prepare, StopMissed, MergeSettings,
             Started, Verify, CancelHonoured, AskPlayers, Warn, BeginInstalling, Installed,
             UpdateStarted, RaiseInUpdate, CheckPalworld, HostStopped, RequestPower
    <3> QED
      BY <3>1, <3>2
  <2>1. CASE ReadUnit
    <3>1. /\ UNCHANGED <<server, again, requests, step, call>>
          /\ call \in {"before", "reading", "checking"}
          /\ overtaken' = StartUnderway /\ seen' = [seen EXCEPT !.unit = Unit]
      BY <2>1 DEF ReadUnit, hostVars
    <3>2. ~Stopped' /\ powered
      BY <1>a, <3>1 DEF CallInv, Stopped, DownInv
    <3>3. /\ seen' \in [unit : UnitState \cup {"none"}, process : {"none", "running", "gone"}]
          /\ seen'.unit = Unit /\ seen'.process = "none"
      <4>1. Unit \in UnitState \cup {"none"}
        BY DEF DownInv, ServerPhase, Unit, UnitState
      <4> QED
        BY <1>a, <2>1, <3>1, <4>1 DEF SightInv, ReadUnit
    <3>4. SightInv'
      <4>1. Unit # "none"
        BY DEF DownInv, ServerPhase, Unit
      <4>2. Unit \in {"inactive", "deactivating"} => server \in {"down", "stopping", "exited"}
        BY DEF DownInv, ServerPhase, Unit
      <4>3. StartUnderway' = StartUnderway
        BY <3>1 DEF StartUnderway
      <4> QED
        BY <3>1, <3>3, <4>1, <4>2, <4>3 DEF SightInv
    <3> QED
      BY <1>a, <2>0, <3>1, <3>2, <3>4 DEF DownInv
  <2>2. CASE ReadProcess
    <3>1. /\ UNCHANGED <<server, again, requests, step, call, overtaken>>
          /\ seen.unit # "none"
          /\ seen' = [seen EXCEPT !.process = IF Process THEN "running" ELSE "gone"]
      BY <2>2 DEF ReadProcess, hostVars
    <3>2. /\ seen' \in [unit : UnitState \cup {"none"}, process : {"none", "running", "gone"}]
          /\ seen'.unit = seen.unit /\ seen'.process = IF Process THEN "running" ELSE "gone"
      BY <1>a, <3>1 DEF SightInv
    <3>3. SightInv'
      BY <1>a, <3>1, <3>2 DEF SightInv, Process, StartUnderway
    <3> QED
      BY <1>a, <2>0, <3>1, <3>2, <3>3 DEF DownInv, Stopped, Quiet, Process, StartUnderway
  <2>3. CASE QueryFails \/ Judge
    <3>1. UNCHANGED <<server, again, requests, step, overtaken>> /\ seen' = NotSeen
      BY <2>3 DEF QueryFails, Judge, Conclude, hostVars
    <3>2. Stopped' /\ ~overtaken' => Quiet
      BY <1>a, <2>3, <3>1, JudgedOffline, FailedQuery DEF DownInv
    <3>3. Quiet' = Quiet
      BY <3>1 DEF Quiet, Process, StartUnderway
    <3> QED
      BY <1>a, <1>b, <2>0, <3>1, <3>2, <3>3 DEF DownInv
  <2>9. CASE Knock
    BY <1>1, <2>0, <2>9 DEF Knock, hostVars, Stopped
  <2>10. CASE Ask
    <3>1. ~Stopped
      BY <1>a, <2>10 DEF Ask, CallInv, Stopped
    <3>2. ~Stopped' /\ seen' = NotSeen
      BY <2>10, <3>1 DEF Ask, Stopped
    <3> QED
      BY <1>a, <1>b, <2>0, <2>10, <3>2 DEF Ask, DownInv
  <2>4. CASE MergeSettings \/ BeginInstalling \/ CheckPalworld \/ HostStopped
    BY <1>1, <2>0, <2>4
       DEF MergeSettings, BeginInstalling, CheckPalworld, HostStopped, hostVars, Stopped
  <2>5. CASE CheckServer \/ NoConsistentBackup \/ Stage \/ Prepare \/ StopMissed
    BY <1>1, <2>0, <2>5
       DEF CheckServer, NoConsistentBackup, Stage, Prepare, BeginBackup, StopMissed, hostVars,
           Stopped
  <2>6. CASE Started \/ Verify \/ CancelHonoured \/ AskPlayers \/ Warn
    BY <1>1, <2>0, <2>6
       DEF Started, Verify, BeginBackup, CancelHonoured, AskPlayers, Warn, hostVars, Stopped
  <2>7. CASE Installed \/ UpdateStarted \/ RaiseInUpdate
    BY <1>1, <2>0, <2>7 DEF Installed, UpdateStarted, RaiseInUpdate, hostVars, Stopped
  <2>8. CASE RequestPower
    <3>1. UNCHANGED <<server, again, seen, overtaken>> /\ ~Stopped' /\ step # "down"
      BY <2>8 DEF RequestPower, Stopped
    <3>2. Kind \in HostPowerKinds /\ requests' = requests \cup {Kind}
      BY <1>0, <2>8 DEF RequestPower, KindInv, Powering
    <3>3. StartUnderway' = StartUnderway
      BY <3>1, <3>2 DEF StartUnderway, HostPowerKinds
    <3>4. SightInv'
      BY <1>a, <3>1, <3>3 DEF SightInv
    <3> QED
      BY <1>a, <2>0, <3>1, <3>4 DEF DownInv
  <2> QED
    BY <1>4, <2>1, <2>2, <2>3, <2>4, <2>5, <2>6, <2>7, <2>8, <2>9, <2>10 DEF Working, Probe
<1>5. CASE Asking \/ RequestCancel
  BY <1>1, <1>5 DEF Asking, Enqueue, RequestCancel, hostVars, callVars, Stopped
<1>6. CASE Claiming
  <2>1. step = "idle" /\ UNCHANGED hostVars /\ ~Stopped' /\ seen' = NotSeen
    BY <1>6 DEF Claiming, Claim, Opens, Stopped
  <2> QED
    BY <1>1, <2>1 DEF hostVars
<1>7. CASE Ending
  BY <1>1, <1>7 DEF Ending, Finish, hostVars, Stopped
<1>8. CASE Dying
  <2>1. step' = "down" /\ seen' = NotSeen /\ ~Stopped' /\ server' \in ServerPhase
    BY <1>8 DEF Dying, Stopped, DownInv, ServerPhase
  <2> QED
    BY <1>a, <1>b, <2>1 DEF DownInv
<1>9. CASE Recovering
  BY <1>1, <1>9 DEF Recovering, Recover, hostVars, Stopped
<1>10. CASE BackingUp
  BY <1>1, <1>10 DEF BackingUp, Publish, Register, Unlink, RaiseInBackup, LeaveArchive, hostVars,
                     lifecycleVars,
                     callVars, Stopped, BackupSteps
<1>11. CASE CommitBeforeStop \/ CommitBeforeCountdown
  BY <1>1, <1>11 DEF CommitBeforeStop, CommitBeforeCountdown, CommitTo, hostVars, Stopped
<1>12. CASE Replacing
  BY <1>1, <1>12 DEF Replacing, BeginReplacing, Copied, Displace, Place, Discard, hostVars, Stopped
<1>13. CASE Failing
  BY <1>1, <1>13 DEF Failing, RaiseInRestore, StrandRestore, hostVars, Stopped
<1>14. CASE MarkIrreversible \/ Compare
  BY <1>1, <1>14 DEF MarkIrreversible, Compare, hostVars, Stopped
<1> QED
  BY <1>2, <1>3, <1>4, <1>5, <1>6, <1>7, <1>8, <1>9, <1>10, <1>11, <1>12, <1>13, <1>14, NextCases

-----------------------------------------------------------------------------
(* The world. *)

MidWorld == {"copying", "displacing", "placing", "merging", "discarding"}

(* Only MergeSettings moves on from a step of the replacement, and none of    *)
(* these steps leads into it.                                                *)
LEMMA WorkingStays ==
  ASSUME Working, KindInv
  PROVE  /\ step \in MidWorld \cup {"failing", "registering", "retaining"} /\ ~MergeSettings =>
              step' = step
         /\ step' \in MidWorld /\ ~MergeSettings => step' = step
<1> USE DEF Enter, Await, GoTo, MidWorld
<1>1. CASE Probe
  BY <1>1 DEF Probe, ReadUnit, ReadProcess, QueryFails, Judge, Conclude, Knock, Ask
<1>2. CASE CheckServer \/ NoConsistentBackup \/ Stage
  BY <1>2 DEF CheckServer, NoConsistentBackup, Stage
<1>3. CASE Prepare \/ StopMissed \/ Started
  BY <1>3 DEF Prepare, BeginBackup, StopMissed, Started
<1>4. CASE Verify \/ CancelHonoured \/ AskPlayers \/ Warn
  BY <1>4 DEF Verify, BeginBackup, CancelHonoured, AskPlayers, Warn
<1>5. CASE BeginInstalling \/ Installed \/ UpdateStarted \/ RaiseInUpdate
  BY <1>5 DEF BeginInstalling, Installed, UpdateStarted, RaiseInUpdate
<1>6. CASE CheckPalworld \/ HostStopped \/ RequestPower
  BY <1>6 DEF CheckPalworld, HostStopped, RequestPower
<1> QED
  BY <1>1, <1>2, <1>3, <1>4, <1>5, <1>6 DEF Working

(* What the replacing steps find and leave.                                  *)
LEMMA ReplacingDirs ==
  ASSUME Typed, PlaceInv, WorldInv, Replacing
  PROVE  /\ current \in DOMAIN jobs /\ current' = current /\ current \in 1..MaxJobs
         /\ critical' /\ Kind \in RestoreKinds /\ jobs[current].status # "PENDING"
         /\ \A j \in 1..MaxJobs \ {current} : newDir'[j] = newDir[j] /\ prevDir'[j] = prevDir[j]
         /\ Displaced(current)' => step' \in MidWorld \cup {"failing"}
         /\ step' \in {"copying", "displacing"} => prevDir'[current] = "none"
         /\ step' \in {"merging", "discarding"} => newDir'[current] = "none" /\ saves' = "restored"
         /\ step' = "discarding" => merged' = 2
         /\ prevDir[current] \in Worlds /\ prevDir'[current] # prevDir[current] =>
              saves = "restored" /\ merged = 2
         /\ saves' # saves => saves = "none" \/ prevDir'[current] = saves
<1> USE DEF Enter, Await, MidWorld
<1>1. current # NoJob /\ current' = current /\ Kind \in RestoreKinds /\ critical'
  BY DEF Replacing, BeginReplacing, Copied, Displace, Place, Discard, PlaceInv, KindInv,
         CriticalInv,
         Restoring
<1>2. current \in DOMAIN jobs /\ current \in 1..MaxJobs
  BY <1>1, FlagRows, LifecycleAssumption DEF Typed, NoJob
<1>3. jobs[current].status # "PENDING"
  BY <1>1 DEF PlaceInv, StatusInv
<1>4. newDir \in [1..MaxJobs -> {"none", "partial", "restored"}]
      /\ prevDir \in [1..MaxJobs -> Worlds \cup {"none", "partial"}]
  BY DEF Typed
<1>5. CASE BeginReplacing
  <2>1. step = "stop" /\ prevDir' = prevDir /\ saves' = saves
        /\ step' \in {"copying", "failing"}
        /\ newDir' \in {newDir, [newDir EXCEPT ![current] = "partial"]}
    BY <1>5 DEF BeginReplacing, hostVars
  <2>2. ~Displaced(current)
    BY <1>2, <2>1 DEF WorldInv
  <2>3. prevDir'[current] = "none"
        /\ \A j \in 1..MaxJobs \ {current} : newDir'[j] = newDir[j]
    BY <1>2, <1>4, <2>1, <2>2 DEF Displaced
  <2>4. /\ step' \in {"copying", "failing"} /\ saves' = saves
        /\ \A j \in 1..MaxJobs \ {current} : prevDir'[j] = prevDir[j]
        /\ prevDir'[current] = prevDir[current]
    BY <2>1
  <2> QED
    BY <1>1, <1>2, <1>3, <2>3, <2>4 DEF Displaced
<1>6. CASE Copied
  <2>1. step = "copying" /\ step' = "displacing" /\ UNCHANGED <<prevDir, saves, merged>>
        /\ newDir' = [newDir EXCEPT ![current] = "restored"]
    BY <1>6 DEF Copied, hostVars
  <2>2. prevDir[current] = "none" /\ \A j \in 1..MaxJobs \ {current} : newDir'[j] = newDir[j]
    BY <1>4, <2>1 DEF WorldInv
  <2> QED
    BY <1>1, <1>2, <1>3, <2>1, <2>2
<1>9. CASE Displace
  <2>1. step = "displacing" /\ step' = "placing" /\ UNCHANGED <<newDir, merged>>
        /\ prevDir' = [prevDir EXCEPT ![current] = saves]
    BY <1>9 DEF Displace
  <2>2. prevDir[current] = "none" /\ prevDir'[current] = saves
        /\ \A j \in 1..MaxJobs \ {current} : prevDir'[j] = prevDir[j]
    BY <1>2, <1>4, <2>1 DEF WorldInv
  <2>3. prevDir[current] \notin Worlds
    BY <2>2 DEF Worlds
  <2> QED
    BY <1>1, <1>2, <1>3, <2>1, <2>2, <2>3
<1>7. CASE Place
  BY <1>1, <1>2, <1>3, <1>4, <1>7 DEF Place, Displaced, WorldInv
<1>8. CASE Discard
  <2>1. step = "discarding" /\ step' \in {"discarding", "start"}
        /\ UNCHANGED <<newDir, merged, saves>>
        /\ prevDir' \in {[prevDir EXCEPT ![current] = d] : d \in {"partial", "none"}}
        /\ (step' = "discarding" => prevDir'[current] = "partial")
    BY <1>2, <1>4, <1>8 DEF Discard, hostVars
  <2>2. newDir[current] = "none" /\ saves = "restored" /\ merged = 2
    BY <2>1 DEF WorldInv
  <2>3. \A j \in 1..MaxJobs \ {current} : prevDir'[j] = prevDir[j]
    BY <1>2, <1>4, <2>1
  <2>4. step' = "start" => prevDir'[current] = "none"
    BY <1>2, <1>4, <1>8 DEF Discard
  <2>5. Displaced(current)' => step' = "discarding"
    BY <1>1, <2>1, <2>2, <2>4 DEF Displaced
  <2> QED
    BY <1>1, <1>2, <1>3, <2>1, <2>2, <2>3, <2>5
<1> QED
  BY <1>5, <1>6, <1>7, <1>8, <1>9 DEF Replacing

LEMMA StepWorld == Typed /\ PlaceInv /\ WorldInv /\ [Next]_vars => WorldInv'
<1> SUFFICES ASSUME Typed, PlaceInv, WorldInv, [Next]_vars PROVE WorldInv'
  OBVIOUS
<1> USE DEF MidWorld
<1>a. KindInv /\ StatusInv /\ CriticalInv
  BY DEF PlaceInv
<1>b. /\ DOMAIN jobs \subseteq DOMAIN jobs'
      /\ \A j \in DOMAIN jobs : jobs'[j].kind = jobs[j].kind
  BY StepRows
(* The directories, the worker's job and the world stay.                     *)
<1>1. ASSUME UNCHANGED <<current, critical, newDir, prevDir>>,
             \A j \in DOMAIN jobs : jobs[j].status # "PENDING" =>
               /\ jobs'[j].status # "PENDING"
               /\ jobs[j].status = "RUNNING" \/ jobs[j].review =>
                    jobs'[j].status = "RUNNING" \/ jobs'[j].review,
             step \in MidWorld \cup {"failing"} => step' \in MidWorld \cup {"failing"},
             step' \in {"copying", "displacing"} => step' = step,
             step' \in {"merging", "discarding"} =>
               step \in {"merging", "discarding"} /\ (saves' = saves \/ saves = "none"),
             step' = "discarding" => merged' = 2
      PROVE  WorldInv'
  <2>1. ASSUME NEW j \in 1..MaxJobs, Displaced(j)'
        PROVE  /\ j \in DOMAIN jobs'
               /\ jobs'[j].kind \in RestoreKinds
               /\ jobs'[j].status # "PENDING"
               /\ j = current' => critical' /\ step' \in MidWorld \cup {"failing"}
               /\ j # current' => jobs'[j].status = "RUNNING" \/ jobs'[j].review
    <3>1. Displaced(j)
      BY <1>1, <2>1 DEF Displaced
    <3>2. /\ j \in DOMAIN jobs /\ jobs[j].kind \in RestoreKinds /\ jobs[j].status # "PENDING"
          /\ j = current => critical /\ step \in MidWorld \cup {"failing"}
          /\ j # current => jobs[j].status = "RUNNING" \/ jobs[j].review
      BY <3>1 DEF WorldInv
    <3> QED
      BY <1>1, <1>b, <3>2
  <2>2. step' \in {"copying", "displacing"} => prevDir'[current'] = "none"
    BY <1>1 DEF WorldInv
  <2>3. step' \in {"merging", "discarding"} => newDir'[current'] = "none" /\ saves' = "restored"
    BY <1>1 DEF WorldInv
  <2> QED
    BY <1>1, <2>1, <2>2, <2>3 DEF WorldInv
(* The worker has a job that displaced nothing, or none.                     *)
<1>2. ASSUME UNCHANGED <<newDir, prevDir>>,
             current' # NoJob => current' \in DOMAIN jobs /\ ~Displaced(current'),
             step' \notin MidWorld,
             \A j \in DOMAIN jobs \ {current'} : jobs[j].kind \in RestoreKinds /\ Displaced(j) =>
               /\ jobs'[j].status # "PENDING"
               /\ jobs'[j].status = "RUNNING" \/ jobs'[j].review
      PROVE  WorldInv'
  <2>1. ASSUME NEW j \in 1..MaxJobs, Displaced(j)'
        PROVE  /\ j \in DOMAIN jobs'
               /\ jobs'[j].kind \in RestoreKinds
               /\ jobs'[j].status # "PENDING"
               /\ j # current'
               /\ jobs'[j].status = "RUNNING" \/ jobs'[j].review
    <3>1. Displaced(j)
      BY <1>2, <2>1 DEF Displaced
    <3>2. j \in DOMAIN jobs /\ jobs[j].kind \in RestoreKinds
      BY <3>1 DEF WorldInv
    <3>3. j # current'
      BY <1>2, <3>1, <3>2 DEF NoJob
    <3> QED
      BY <1>2, <1>b, <3>1, <3>2, <3>3
  <2> QED
    BY <1>2, <2>1 DEF WorldInv
(* What WorldInv says of a job that displaced something.                     *)
<1>c. \A j \in DOMAIN jobs : Displaced(j) =>
        /\ jobs[j].status # "PENDING" /\ jobs[j].kind \in RestoreKinds
        /\ j = current => critical /\ step \in MidWorld \cup {"failing"}
        /\ j # current => jobs[j].status = "RUNNING" \/ jobs[j].review
  <2>1. DOMAIN jobs \subseteq 1..MaxJobs
    BY LifecycleAssumption DEF Typed
  <2> QED
    BY <2>1 DEF WorldInv
<1>3. CASE UNCHANGED vars
  BY <1>1, <1>3 DEF vars, lifecycleVars, restoreVars, hostVars, WorldInv
<1>4. CASE Passing
  BY <1>1, <1>4, PassingKeeps DEF Calm, WorldInv
<1>5. CASE Working
  <2>1. CASE MergeSettings
    BY <1>1, <2>1 DEF MergeSettings, Enter, hostVars
  <2>2. CASE ~MergeSettings
    <3>1. step' = "discarding" => merged' = 2
      BY <1>5, <1>a, <2>2, WorkingStays, WorkingKeeps DEF WorldInv
    <3>2. UNCHANGED <<jobs, current, critical, newDir, prevDir, saves>>
      BY <1>5, WorkingKeeps DEF Calm
    <3> QED
      BY <1>1, <1>5, <1>a, <2>2, <3>1, <3>2, WorkingStays
  <2> QED
    BY <2>1, <2>2
<1>6. CASE Asking
  <2> PICK k \in JobKind, src \in 0..MaxJobs : Enqueue(k, src)
    BY <1>6, LifecycleAssumption DEF Asking, Typed
  <2>1. UNCHANGED <<current, critical, step, saves, newDir, prevDir, merged>>
    BY <1>6 DEF Asking, Enqueue, hostVars, OtherVars, restoreVars
  <2>2. \A j \in DOMAIN jobs : jobs'[j] = jobs[j]
    BY EnqueueRows
  <2> QED
    BY <1>1, <2>1, <2>2 DEF WorldInv
<1>7. CASE RequestCancel
  <2>1. UNCHANGED <<current, critical, step, saves, newDir, prevDir, merged>>
    BY <1>7 DEF RequestCancel, hostVars, OtherVars, restoreVars
  <2>2. \A j \in DOMAIN jobs : jobs[j].status # "PENDING" =>
          jobs'[j].status = jobs[j].status /\ jobs'[j].review = jobs[j].review
    BY <1>7, CancelRows
  <2> QED
    BY <1>1, <2>1, <2>2 DEF WorldInv
<1>8. CASE Claiming
  <2> PICK k \in JobKind : Opens(k, step') /\ Claim(k, step')
    BY <1>8 DEF Claiming
  <2>1. step' \notin MidWorld
    BY DEF Opens
  <2>2. current' \in DOMAIN jobs /\ ~Displaced(current')
    BY <1>c, ClaimRows
  <2>3. current = NoJob
    BY <1>a, ClaimRows DEF KindInv
  <2>4. \A j \in DOMAIN jobs : j # current
    BY <2>3 DEF Typed, NoJob
  <2>5. \A j \in DOMAIN jobs \ {current'} : jobs'[j] = jobs[j]
    BY ClaimRows
  <2> QED
    BY <1>2, <1>8, <1>c, <2>1, <2>2, <2>4, <2>5 DEF Claiming
<1>9. CASE Ending
  <2>0. current # NoJob /\ current \in DOMAIN jobs
    BY <1>9, <1>a DEF Ending, KindInv, Typed, NoJob
  <2> PICK result \in Terminal, review \in BOOLEAN, safe \in {0, safety, jobs[current].safety} :
          /\ Finish(result, review, safe)
          /\ step = "failing" /\ Kind \in RestoreKinds => review = critical
    BY <1>9 DEF Ending
  <2>1. result \in Status /\ safe \in 0..MaxJobs /\ result # "PENDING"
    <3>1. jobs[current] \in Row
      BY <2>0 DEF Typed
    <3> QED
      BY <3>1, LifecycleAssumption DEF Row, Status, Terminal, Typed
  <2>2. Record(result, review, safe) /\ current' = NoJob /\ step' \notin MidWorld
    BY DEF Finish, Enter
  <2>3. /\ jobs'[current].status = result /\ jobs'[current].review = review
        /\ \A j \in DOMAIN jobs \ {current} : jobs'[j] = jobs[j]
    BY <2>0, <2>1, <2>2, RecordRows
  <2>4. Displaced(current) => review
    BY <1>9, <1>c, <2>0 DEF Ending, Kind
  <2> QED
    BY <1>2, <1>9, <1>c, <2>1, <2>2, <2>3, <2>4 DEF Ending
<1>10. CASE Dying
  <2>1. current # NoJob => current \in DOMAIN jobs
    BY DEF Typed, NoJob
  <2>2. \A j \in DOMAIN jobs : Displaced(j) => jobs[j].status = "RUNNING" \/ jobs[j].review
    <3> TAKE j \in DOMAIN jobs
    <3>1. CASE j # current
      BY <1>c, <3>1
    <3>2. CASE j = current
      BY <1>a, <1>c, <3>2 DEF StatusInv, UpdateJob, Kind, RestoreKinds, Typed, NoJob
    <3> QED
      BY <3>1, <3>2
  <2> QED
    BY <1>2, <1>10, <1>c, <2>2 DEF Dying
<1>11. CASE Recovering
  <2>1. Recover /\ current' = NoJob /\ step' = "idle" /\ current = NoJob
        /\ UNCHANGED <<newDir, prevDir>>
    BY <1>11, <1>a DEF Recovering, Recover, Enter, KindInv, OtherVars, restoreVars
  <2>2. \A j \in DOMAIN jobs :
          /\ jobs[j].status # "RUNNING" => jobs'[j] = jobs[j]
          /\ jobs[j].status = "RUNNING" => jobs'[j].status = "INTERRUPTED" /\ jobs'[j].review
    BY <2>1, RecoverRows
  <2>3. \A j \in DOMAIN jobs : j # current
    BY <2>1 DEF Typed, NoJob
  <2> QED
    BY <1>2, <1>c, <2>1, <2>2, <2>3
<1>12. CASE \/ BackingUp \/ CommitBeforeStop \/ CommitBeforeCountdown \/ MarkIrreversible \/ Compare
  <2>1. /\ current' = current /\ current # NoJob /\ UNCHANGED <<newDir, prevDir>>
        /\ step \notin MidWorld \cup {"failing"} /\ step' \notin MidWorld
    BY <1>12, <1>a DEF BackingUp, Publish, Register, Unlink, RaiseInBackup, LeaveArchive,
                       CommitBeforeStop,
                       CommitBeforeCountdown, CommitTo, MarkIrreversible, Compare, Enter, Await,
                       KindInv, BackupSteps, OtherVars, restoreVars, lifecycleVars
  <2>2. current \in DOMAIN jobs /\ ~Displaced(current)
    BY <1>c, <2>1 DEF Typed, NoJob
  <2>3. \A j \in DOMAIN jobs \ {current} : jobs'[j] = jobs[j]
    <3>1. CASE Publish \/ LeaveArchive \/ CommitBeforeCountdown \/ MarkIrreversible
      BY <3>1, FlagSteps
    <3>2. CASE UNCHANGED jobs
      BY <3>2
    <3>3. CASE Record("SUCCEEDED", FALSE, safety)
      <4>1. "SUCCEEDED" \in Status /\ safety \in 0..MaxJobs /\ FALSE \in BOOLEAN
        BY DEF Status, Terminal, Typed
      <4> QED
        BY <2>1, <3>3, <4>1, RecordRows
    <3> QED
      BY <1>12, <3>1, <3>2, <3>3 DEF BackingUp, Register, Unlink, RaiseInBackup, CommitBeforeStop,
                                    CommitTo, Compare, lifecycleVars
  <2> QED
    BY <1>2, <1>c, <2>1, <2>2, <2>3
<1>13. CASE Replacing
  <2>1. /\ \A j \in DOMAIN jobs \ {current} : jobs'[j] = jobs[j]
        /\ jobs'[current].status = jobs[current].status
    <3>1. CASE BeginReplacing
      BY <3>1, FlagSteps
    <3>2. CASE Copied \/ Displace \/ Place \/ Discard
      BY <3>2 DEF Copied, Displace, Place, Discard
    <3> QED
      BY <1>13, <3>1, <3>2 DEF Replacing
  <2>2. ASSUME NEW j \in 1..MaxJobs, Displaced(j)'
        PROVE  /\ j \in DOMAIN jobs'
               /\ jobs'[j].kind \in RestoreKinds
               /\ jobs'[j].status # "PENDING"
               /\ j = current' => critical' /\ step' \in MidWorld \cup {"failing"}
               /\ j # current' => jobs'[j].status = "RUNNING" \/ jobs'[j].review
    <3>1. CASE j = current
      <4>1. current' = current /\ current \in DOMAIN jobs /\ jobs[current].status # "PENDING"
            /\ critical' /\ Kind \in RestoreKinds
        BY <1>13, ReplacingDirs
      <4>2. jobs[current].kind \in RestoreKinds
        BY <4>1 DEF Kind, NoJob, Typed
      <4>3. step' \in MidWorld \cup {"failing"}
        BY <1>13, <2>2, <3>1, ReplacingDirs
      <4> QED
        BY <1>b, <2>1, <3>1, <4>1, <4>2, <4>3
    <3>2. CASE j # current
      <4>1. current' = current /\ newDir'[j] = newDir[j] /\ prevDir'[j] = prevDir[j]
        BY <1>13, <3>2, ReplacingDirs
      <4>2. Displaced(j)
        BY <2>2, <4>1 DEF Displaced
      <4>3. j \in DOMAIN jobs
        BY <4>2 DEF WorldInv
      <4> QED
        BY <1>b, <1>c, <2>1, <3>2, <4>1, <4>2, <4>3
    <3> QED
      BY <3>1, <3>2
  <2>3. /\ current' = current
        /\ step' \in {"copying", "displacing"} => prevDir'[current] = "none"
        /\ step' \in {"merging", "discarding"} => newDir'[current] = "none" /\ saves' = "restored"
        /\ step' = "discarding" => merged' = 2
    BY <1>13, ReplacingDirs
  <2> QED
    BY <2>2, <2>3 DEF WorldInv
<1>14. CASE Failing
  <2>1. CASE RaiseInRestore
    <3>1. step' = "failing" /\ (critical => critical') /\ UNCHANGED <<jobs, current, newDir, prevDir>>
      BY <2>1 DEF RaiseInRestore, Enter, restoreVars
    <3>2. \A j \in 1..MaxJobs : Displaced(j)' => Displaced(j)
      BY <3>1 DEF Displaced
    <3> QED
      BY <3>1, <3>2 DEF WorldInv
  <2>2. CASE StrandRestore
    <3>1. /\ step = "failing" /\ Kind \in RestoreKinds /\ step' = "idle" /\ current' = NoJob
          /\ UNCHANGED <<jobs, newDir, prevDir>>
      BY <2>2 DEF StrandRestore, Enter, restoreVars
    <3>2. jobs[current].status = "RUNNING"
      BY <1>a, <3>1 DEF StatusInv, UpdateJob, RestoreKinds, Kind
    <3> QED
      BY <1>2, <1>c, <3>1, <3>2
  <2> QED
    BY <1>14, <2>1, <2>2 DEF Failing
<1> QED
  BY <1>3, <1>4, <1>5, <1>6, <1>7, <1>8, <1>9, <1>10, <1>11, <1>12, <1>13, <1>14, NextCases

LEMMA WorldInductive == Spec => [](Typed /\ PlaceInv /\ WorldInv)
<1>1. Init => WorldInv
  BY DEF Init, HostInit, LifecycleInit, RestoreInit, WorldInv, Displaced
<1>2. Typed /\ PlaceInv /\ WorldInv /\ [Next]_vars => (Typed /\ PlaceInv /\ WorldInv)'
  BY StepTyped, StepKind, StepStatus, StepCritical, StepWorld DEF PlaceInv
<1> QED
  BY InitTyped, <1>1, <1>2, PTL DEF Spec

(* A displaced world is thrown away only by its own Restore, once the        *)
(* restored world and both settings files are in place, and SaveGames is     *)
(* only filled by a Restore that kept what was there or by a server that     *)
(* found nothing (restores/service.py:704, FilesystemRestoreTarget.apply).    *)
THEOREM WorldsAreKept == Spec => WorldsSurvive
<1> DEFINE Survives ==
      /\ \A j \in 1..MaxJobs :
           prevDir[j] \in Worlds /\ prevDir'[j] # prevDir[j] =>
             current = j /\ saves = "restored" /\ merged = 2
      /\ saves' # saves => saves = "none" \/ \E j \in 1..MaxJobs : prevDir'[j] = saves
<1>1. ASSUME Typed, PlaceInv, WorldInv, Next PROVE Survives
  <2>1. ASSUME UNCHANGED prevDir, saves' = saves \/ saves = "none" PROVE Survives
    BY <2>1
  <2>2. CASE Passing \/ Working
    BY <1>1, <2>1, <2>2, PassingKeeps, WorkingKeeps DEF Calm
  <2>3. CASE Asking \/ RequestCancel \/ Claiming \/ Ending \/ Dying \/ Recovering
    BY <2>1, <2>3 DEF Asking, Enqueue, RequestCancel, Claiming, Claim, Ending, Finish, Dying,
                      Recovering, Recover, OtherVars, restoreVars, hostVars
  <2>4. CASE BackingUp \/ CommitBeforeStop \/ CommitBeforeCountdown \/ MarkIrreversible \/ Compare
    BY <2>1, <2>4 DEF BackingUp, Publish, Register, Unlink, RaiseInBackup, LeaveArchive,
                      CommitBeforeStop,
                      CommitBeforeCountdown, CommitTo, MarkIrreversible, Compare, OtherVars,
                      restoreVars, hostVars
  <2>5. CASE Failing
    BY <2>1, <2>5 DEF Failing, RaiseInRestore, StrandRestore, restoreVars, hostVars
  <2>6. CASE Replacing
    <3>1. /\ current \in 1..MaxJobs
          /\ \A j \in 1..MaxJobs \ {current} : prevDir'[j] = prevDir[j]
          /\ prevDir[current] \in Worlds /\ prevDir'[current] # prevDir[current] =>
               saves = "restored" /\ merged = 2
          /\ saves' # saves => saves = "none" \/ prevDir'[current] = saves
      BY <1>1, <2>6, ReplacingDirs
    <3> QED
      BY <3>1
  <2> QED
    BY <1>1, <2>2, <2>3, <2>4, <2>5, <2>6, NextCases
<1>2. Typed /\ PlaceInv /\ WorldInv /\ [Next]_vars => [Survives]_vars
  BY <1>1
<1> QED
  BY <1>2, WorldInductive, PTL DEF Spec, WorldsSurvive

-----------------------------------------------------------------------------
(* The server, again. *)

(* While the world or the installation is replaced, and when the host is     *)
(* asked to go down, the server is not running, unless a start that an        *)
(* earlier job had given up waiting for was underway when OFFLINE was         *)
(* concluded (lifecycle/service.py:97, PalworldLifecycleExecutor.execute).    *)
THEOREM ServerIsDown == Spec => []DownWhileChanged
<1>1. Init => DownInv
  BY NothingSeen DEF Init, HostInit, LifecycleInit, DownInv, Stopped, CallInv, SightInv, NotSeen,
                     ServerPhase
<1>2. Typed /\ PlaceInv /\ DownInv /\ [Next]_vars => (Typed /\ PlaceInv /\ DownInv)'
  BY StepTyped, StepKind, StepStatus, StepCritical, StepDown DEF PlaceInv
<1>3. DownInv => DownWhileChanged
  BY DEF DownInv, Stopped, Quiet, DownWhileChanged
<1> QED
  BY InitTyped, <1>1, <1>2, <1>3, PTL DEF Spec

-----------------------------------------------------------------------------
(* The installation. *)

LEMMA StepBuild == Typed /\ PlaceInv /\ BuildInv /\ [Next]_vars => BuildInv'
<1> SUFFICES ASSUME Typed, PlaceInv, BuildInv, [Next]_vars, build' = "broken"
             PROVE  \E j \in DOMAIN jobs' :
                      /\ jobs'[j].kind = "PALWORLD_UPDATE"
                      /\ jobs'[j].status = "RUNNING" \/ jobs'[j].review
                      /\ jobs'[j].status # "PENDING"
                      /\ j = current' => /\ critical' /\ jobs'[j].status = "RUNNING"
                                         /\ step' \in {"installing", "failing"}
  BY DEF BuildInv
<1>a. KindInv /\ StatusInv /\ CriticalInv
  BY DEF PlaceInv
<1>b. /\ DOMAIN jobs \subseteq DOMAIN jobs'
      /\ \A j \in DOMAIN jobs : jobs'[j].kind = jobs[j].kind
  BY StepRows
<1>1. CASE BeginInstalling /\ build # "broken"
  <2>1. /\ step = "stop" /\ step' = "installing" /\ UpdateJob
        /\ UNCHANGED <<jobs, current, critical>>
    BY <1>1 DEF BeginInstalling, GoTo, Enter
  <2>2. current # NoJob /\ current \in DOMAIN jobs
    BY <1>a, <2>1 DEF KindInv, Typed, NoJob
  <2>3. jobs[current].kind = "PALWORLD_UPDATE" /\ jobs[current].status = "RUNNING" /\ critical
    BY <1>a, <2>1, <2>2 DEF UpdateJob, Kind, StatusInv, CriticalInv
  <2> QED
    BY <2>1, <2>2, <2>3
<1>2. CASE build = "broken" /\ ~Installed
  <2> PICK j \in DOMAIN jobs :
        /\ jobs[j].kind = "PALWORLD_UPDATE"
        /\ jobs[j].status = "RUNNING" \/ jobs[j].review
        /\ jobs[j].status # "PENDING"
        /\ j = current => critical /\ jobs[j].status = "RUNNING" /\ step \in {"installing", "failing"}
    BY <1>2 DEF BuildInv
  <2>0. j \in DOMAIN jobs' /\ jobs'[j].kind = "PALWORLD_UPDATE"
    BY <1>b
  <2>a. j = current => UpdateJob /\ current # NoJob
    BY DEF UpdateJob, Kind, Typed, NoJob
  <2>1. ASSUME jobs'[j].status = jobs[j].status, jobs'[j].review = jobs[j].review,
               j = current' => /\ j = current /\ critical'
                               /\ step' \in {"installing", "failing"}
        PROVE  /\ jobs'[j].status = "RUNNING" \/ jobs'[j].review
               /\ jobs'[j].status # "PENDING"
               /\ j = current' => /\ critical' /\ jobs'[j].status = "RUNNING"
                                  /\ step' \in {"installing", "failing"}
    BY <2>1
  <2> SUFFICES /\ jobs'[j].status = "RUNNING" \/ jobs'[j].review
               /\ jobs'[j].status # "PENDING"
               /\ j = current' => /\ critical' /\ jobs'[j].status = "RUNNING"
                                  /\ step' \in {"installing", "failing"}
    BY <2>0
  <2>2. CASE UNCHANGED vars
    BY <2>1, <2>2 DEF vars, lifecycleVars
  <2>3. CASE Passing
    BY <2>1, <2>3, PassingKeeps DEF Calm
  <2>4. CASE Working
    <3>1. UNCHANGED <<jobs, current, critical>>
      BY <2>4, WorkingKeeps DEF Calm
    <3>2. j = current => step' \in {"installing", "failing"}
      <4>1. CASE step = "failing"
        BY <1>a, <2>4, <4>1, WorkingStays DEF MergeSettings
      <4>2. CASE step = "installing"
        BY <1>2, <2>4, <4>2
           DEF Working, GoTo, Enter, Await, Probe, ReadUnit, ReadProcess, QueryFails, Judge,
               Conclude, Knock, Ask, CheckServer,
               NoConsistentBackup, Stage, Prepare, BeginBackup, StopMissed, MergeSettings, Started,
               Verify, CancelHonoured, AskPlayers, Warn, BeginInstalling, UpdateStarted,
               RaiseInUpdate, CheckPalworld, HostStopped, RequestPower
      <4> QED
        BY <4>1, <4>2
    <3> QED
      BY <2>1, <3>1, <3>2
  <2>5. CASE Asking
    <3> PICK k \in JobKind, src \in 0..MaxJobs : Enqueue(k, src)
      BY <2>5, LifecycleAssumption DEF Asking, Typed
    <3>1. UNCHANGED <<current, critical, step>>
      BY DEF Enqueue
    <3> QED
      BY <2>1, <3>1, EnqueueRows
  <2>6. CASE RequestCancel
    <3>1. UNCHANGED <<current, critical, step>>
      BY <2>6 DEF RequestCancel
    <3>2. jobs'[j].status = jobs[j].status /\ jobs'[j].review = jobs[j].review
      BY <2>6, CancelRows
    <3> QED
      BY <2>1, <3>1, <3>2
  <2>7. CASE Claiming
    <3> PICK k \in JobKind : Claim(k, step')
      BY <2>7 DEF Claiming
    <3> QED
      BY <2>1, ClaimRows
  <2>8. CASE Ending
    <3>0. current # NoJob /\ current \in DOMAIN jobs
      BY <2>8, <1>a DEF Ending, KindInv, Typed, NoJob
    <3> PICK result \in Terminal, review \in BOOLEAN, safe \in {0, safety, jobs[current].safety} :
            /\ Finish(result, review, safe)
            /\ step = "failing" /\ UpdateJob /\ jobs[current].status = "RUNNING" =>
                 review \in {critical, ~jobs[current].cancellable}
      BY <2>8 DEF Ending
    <3>1. result \in Status /\ safe \in 0..MaxJobs /\ result # "PENDING"
      <4>1. jobs[current] \in Row
        BY <3>0 DEF Typed
      <4> QED
        BY <4>1, LifecycleAssumption DEF Row, Status, Terminal, Typed
    <3>2. Record(result, review, safe) /\ current' = NoJob
      BY DEF Finish
    <3>3. /\ jobs'[current].status = result /\ jobs'[current].review = review
          /\ \A i \in DOMAIN jobs \ {current} : jobs'[i] = jobs[i]
      BY <3>0, <3>1, <3>2, RecordRows
    <3>4. j # current' /\ (j = current => review)
      BY <1>a, <2>8, <2>a, <3>2 DEF Ending, CriticalInv, Typed, NoJob
    <3> QED
      BY <3>1, <3>3, <3>4
  <2>9. CASE Dying
    <3>1. UNCHANGED jobs /\ j # current'
      BY <2>9 DEF Dying, Typed, NoJob
    <3> QED
      BY <2>1, <3>1
  <2>10. CASE Recovering
    <3>1. Recover /\ j # current'
      BY <1>a, <2>10 DEF Recovering, Recover, KindInv, Typed, NoJob
    <3> QED
      BY <3>1, RecoverRows
  <2>11. CASE BackingUp \/ CommitBeforeStop \/ CommitBeforeCountdown \/ MarkIrreversible \/ Compare
    <3>1. current' = current /\ step \notin {"installing", "failing"}
      BY <2>11 DEF BackingUp, Publish, Register, Unlink, RaiseInBackup, LeaveArchive,
                   CommitBeforeStop,
                   CommitBeforeCountdown, CommitTo, MarkIrreversible, Compare, BackupSteps,
                   lifecycleVars
    <3>2. CASE Publish \/ LeaveArchive \/ CommitBeforeCountdown \/ MarkIrreversible
      BY <2>1, <3>1, <3>2, FlagSteps
    <3>3. CASE UNCHANGED jobs
      BY <2>1, <3>1, <3>3
    <3>4. CASE Compare /\ Record("SUCCEEDED", FALSE, safety)
      <4>1. /\ "SUCCEEDED" \in Status /\ safety \in 0..MaxJobs /\ FALSE \in BOOLEAN
            /\ current # NoJob
        BY <1>a, <3>4 DEF Status, Terminal, Typed, Compare, KindInv
      <4>2. jobs'[j] = jobs[j]
        BY <3>1, <3>4, <4>1, RecordRows
      <4> QED
        BY <2>1, <3>1, <4>2
    <3> QED
      BY <2>11, <3>2, <3>3, <3>4 DEF BackingUp, Register, Unlink, RaiseInBackup, CommitBeforeStop,
                                    CommitTo, Compare, lifecycleVars
  <2>12. CASE Replacing \/ Failing
    <3>1. j # current /\ current' \in {current, NoJob}
      BY <1>a, <2>12, <2>a
         DEF Replacing, Failing, BeginReplacing, Copied, Displace, Place, Discard, RaiseInRestore,
             StrandRestore, KindInv, Restoring, UpdateJob, RestoreKinds
    <3>2. jobs'[j] = jobs[j]
      <4>1. CASE BeginReplacing
        BY <3>1, <4>1, FlagSteps
      <4>2. CASE Copied \/ Displace \/ Place \/ Discard \/ Failing
        BY <4>2 DEF Copied, Displace, Place, Discard, Failing, RaiseInRestore, StrandRestore
      <4> QED
        BY <2>12, <4>1, <4>2 DEF Replacing
    <3> QED
      BY <2>1, <3>1, <3>2 DEF Typed, NoJob
  <2> QED
    BY <2>2, <2>3, <2>4, <2>5, <2>6, <2>7, <2>8, <2>9, <2>10, <2>11, <2>12, NextCases
<1>3. CASE Installed
  BY <1>3 DEF Installed
<1>4. CASE build # "broken" /\ ~BeginInstalling /\ ~Installed
  <2>1. build' = build
    <3>1. CASE UNCHANGED vars \/ Passing
      BY <3>1, PassingKeeps DEF vars, updateVars
    <3>2. CASE Working
      BY <1>4, <3>2 DEF Working, Verify, CancelHonoured, AskPlayers, Warn, UpdateStarted,
                        RaiseInUpdate, CheckPalworld, HostStopped, RequestPower, updateVars
    <3>3. CASE Asking \/ RequestCancel \/ Claiming \/ Ending \/ Dying \/ Recovering \/ BackingUp
      BY <3>3 DEF Asking, RequestCancel, Claiming, Ending, Dying, Recovering, BackingUp, updateVars
    <3>4. CASE \/ CommitBeforeStop /\ UNCHANGED updateVars
               \/ CommitBeforeCountdown \/ MarkIrreversible \/ Compare \/ Replacing \/ Failing
      BY <3>4 DEF CommitBeforeCountdown, MarkIrreversible, Compare, Replacing, Failing, updateVars
    <3> QED
      BY <3>1, <3>2, <3>3, <3>4, NextCases
  <2> QED
    BY <1>4, <2>1
<1> QED
  BY <1>1, <1>2, <1>3, <1>4

(* Whatever a Restore or an Update leaves half done is on record: a job that *)
(* has displaced a world, or broken the installation off, is still RUNNING    *)
(* or asks for a manual review (restores/jobs.py:330, updates/jobs.py:701,    *)
(* fail_unexpected, and jobs/service.py:125, recover_interrupted_jobs).       *)
THEOREM HalfDoneIsOnRecord == Spec => []HalfDoneIsReviewed
<1>1. Typed /\ StatusInv /\ WorldInv /\ BuildInv => HalfDoneIsReviewed
  <2> SUFFICES ASSUME Typed, StatusInv, WorldInv, BuildInv
               PROVE  /\ \A j \in DOMAIN jobs :
                           Displaced(j) => jobs[j].status = "RUNNING" \/ jobs[j].review
                      /\ build = "broken" =>
                           \E j \in DOMAIN jobs :
                             /\ jobs[j].kind = "PALWORLD_UPDATE"
                             /\ jobs[j].status = "RUNNING" \/ jobs[j].review
    BY DEF HalfDoneIsReviewed, Displaced
  <2>1. ASSUME NEW j \in DOMAIN jobs, Displaced(j)
        PROVE  jobs[j].status = "RUNNING" \/ jobs[j].review
    <3>1. j \in 1..MaxJobs /\ j # NoJob
      BY LifecycleAssumption DEF Typed, NoJob
    <3>2. /\ jobs[j].kind \in RestoreKinds
          /\ j # current => jobs[j].status = "RUNNING" \/ jobs[j].review
      BY <2>1, <3>1 DEF WorldInv
    <3>3. j = current => ~UpdateJob
      BY <3>1, <3>2 DEF UpdateJob, Kind, RestoreKinds
    <3> QED
      BY <3>1, <3>2, <3>3 DEF StatusInv
  <2> QED
    BY <2>1 DEF BuildInv
<1>2. Init => BuildInv
  BY DEF Init, UpdateInit, BuildInv
<1>3. Typed /\ PlaceInv /\ WorldInv /\ BuildInv /\ [Next]_vars => BuildInv'
  BY StepBuild
<1>4. PlaceInv => StatusInv
  BY DEF PlaceInv
<1> QED
  BY <1>1, <1>2, <1>3, <1>4, WorldInductive, PTL DEF Spec

-----------------------------------------------------------------------------
(* The backups. *)

(* Retention never selects the backup of the job nor the one a Restore was   *)
(* asked for.                                                                *)
LEMMA ProtectedIsKept == ASSUME NEW all PROVE Protected(all) \subseteq Kept(all)
BY DEF Kept

LEMMA StepKept == Typed /\ PlaceInv /\ KeptInv /\ [Next]_vars => KeptInv'
<1> SUFFICES ASSUME Typed, PlaceInv, KeptInv, [Next]_vars PROVE KeptInv'
  OBVIOUS
<1>a. KindInv
  BY DEF PlaceInv
<1> USE DEF BackupSteps, AfterBackup, Enter, Await
<1> DEFINE Mine == jobs[current].source
(* The backups stay, and the steps they are there for are not left.          *)
<1>1. ASSUME UNCHANGED <<current, records, files, doomed, safety>>,
             step' \in {"registering", "retaining"} => step' = step,
             step' \in AfterBackup /\ Kind \in Protecting => step \in AfterBackup,
             step' \in BackupSteps \cup AfterBackup /\ Kind = "LOCAL_RESTORE" =>
               step \in BackupSteps \cup AfterBackup \/ Mine \in records \cap files
      PROVE  KeptInv'
  <2>1. Kind' = Kind
    BY <1>1, KindKept
  <2>2. Kind = "LOCAL_RESTORE" => Mine' = Mine
    <3>1. Kind = "LOCAL_RESTORE" => current \in DOMAIN jobs
      BY DEF Kind, Typed, NoJob
    <3> QED
      BY <1>1, <3>1, StepRows
  <2> QED
    BY <1>1, <2>1, <2>2 DEF KeptInv
<1>2. ASSUME step' \notin BackupSteps \cup AfterBackup PROVE KeptInv'
  BY <1>2 DEF KeptInv
<1>3. CASE UNCHANGED vars
  BY <1>1, <1>3 DEF vars, lifecycleVars, backupVars
<1>4. CASE Passing
  BY <1>1, <1>4, PassingKeeps DEF Calm
<1>5. CASE Working
  <2>0. UNCHANGED <<current, records, files, doomed, safety>>
    BY <1>5, WorkingKeeps DEF Calm
  <2> USE DEF GoTo
  <2>1. CASE Probe
    BY <1>1, <2>0, <2>1 DEF Probe, ReadUnit, ReadProcess, QueryFails, Judge, Conclude, Knock, Ask
  <2>2. CASE CheckServer \/ NoConsistentBackup \/ Stage \/ StopMissed
    BY <1>1, <2>0, <2>2 DEF CheckServer, NoConsistentBackup, Stage, StopMissed
  <2>3. CASE Prepare
    BY <1>1, <2>0, <2>3 DEF Prepare, BeginBackup, SourceUsable
  <2>4. CASE MergeSettings \/ Started \/ Verify \/ CancelHonoured
    BY <1>1, <1>a, <2>0, <2>4
       DEF MergeSettings, Started, Verify, BeginBackup, CancelHonoured, KindInv, Updating
  <2>5. CASE AskPlayers \/ Warn \/ BeginInstalling \/ Installed
    BY <1>1, <2>0, <2>5 DEF AskPlayers, Warn, BeginInstalling, Installed
  <2>6. CASE UpdateStarted \/ RaiseInUpdate \/ HostStopped \/ RequestPower
    BY <1>1, <2>0, <2>6 DEF UpdateStarted, RaiseInUpdate, HostStopped, RequestPower
  <2>7. CASE CheckPalworld
    BY <1>1, <1>a, <2>0, <2>7
       DEF CheckPalworld, KindInv, Powering, Protecting, HostPowerKinds, RestoreKinds
  <2> QED
    BY <1>5, <2>1, <2>2, <2>3, <2>4, <2>5, <2>6, <2>7 DEF Working
<1>6. CASE Asking \/ RequestCancel
  <2>1. UNCHANGED <<step, current, records, files, doomed, safety>>
    BY <1>6 DEF Asking, Enqueue, RequestCancel, OtherVars, backupVars
  <2> QED
    BY <1>1, <2>1
<1>7. CASE Claiming \/ Ending \/ Dying \/ Recovering \/ Failing
  BY <1>2, <1>7 DEF Claiming, Opens, Ending, Finish, Dying, Recovering, Recover, Failing,
                    RaiseInRestore, StrandRestore
<1>8. CASE BackingUp \/ CommitBeforeStop \/ CommitBeforeCountdown
  <2>0. current' = current /\ current \in DOMAIN jobs
    BY <1>a, <1>8 DEF BackingUp, Publish, Register, Unlink, RaiseInBackup, LeaveArchive,
                      CommitBeforeStop,
                      CommitBeforeCountdown, CommitTo, lifecycleVars, KindInv, Typed, NoJob
  <2>1. Kind' = Kind /\ Mine' = Mine
    BY <2>0, KindKept, StepRows
  <2>2. CASE Publish
    BY <2>0, <2>1, <2>2 DEF Publish, KeptInv
  <2>3. CASE Register
    <3>1. /\ step = "registering" /\ step' = "retaining" /\ safety' = current
          /\ UNCHANGED <<records, files>>
          /\ doomed' = (records \cup {current}) \ Kept(records \cup {current})
      BY <2>3 DEF Register
    <3>2. /\ current \notin doomed'
          /\ Kind = "LOCAL_RESTORE" /\ Mine \in records => Mine \notin doomed'
      BY <3>1, ProtectedIsKept DEF Protected
    <3> QED
      BY <2>0, <2>1, <3>1, <3>2 DEF KeptInv
  <2>4. CASE Unlink
    <3>1. /\ step = "retaining" /\ step' = step /\ UNCHANGED <<records, doomed, safety>>
          /\ \A f \in files \ doomed : f \in files'
      BY <2>4 DEF Unlink, lifecycleVars
    <3> QED
      BY <2>0, <2>1, <3>1 DEF KeptInv
  <2>5. CASE RaiseInBackup \/ LeaveArchive
    BY <1>2, <2>5 DEF RaiseInBackup, LeaveArchive
  <2>6. CASE CommitBeforeStop \/ CommitBeforeCountdown
    <3>1. /\ step = "retaining" /\ step' \in {"stop", "players"} /\ UNCHANGED <<files, safety>>
          /\ records' = (records \cup {current}) \ doomed
      BY <2>6 DEF CommitBeforeStop, CommitBeforeCountdown, CommitTo
    <3> QED
      BY <2>0, <2>1, <3>1 DEF KeptInv
  <2> QED
    BY <1>8, <2>2, <2>3, <2>4, <2>5, <2>6 DEF BackingUp
<1>9. CASE Replacing \/ MarkIrreversible \/ Compare
  <2>1. UNCHANGED <<current, records, files, doomed, safety>>
    BY <1>9 DEF Replacing, BeginReplacing, Copied, Displace, Place, Discard, MarkIrreversible,
                Compare, OtherVars, backupVars
  <2>2. step \in AfterBackup /\ step' \notin BackupSteps
    BY <1>9 DEF Replacing, BeginReplacing, Copied, Displace, Place, Discard, MarkIrreversible,
                Compare
  <2> QED
    BY <1>1, <2>1, <2>2
<1> QED
  BY <1>3, <1>4, <1>5, <1>6, <1>7, <1>8, <1>9, NextCases

(* From the Stop on, the preventive backup of the job and the backup a       *)
(* Restore was asked for have record and archive, whatever the retention in   *)
(* between removed (backups/jobs.py:329, apply_local_retention).              *)
THEOREM PreventiveIsThere == Spec => []PreventiveProtects
<1>1. Init => KeptInv
  BY DEF Init, LifecycleInit, KeptInv, AfterBackup, BackupSteps, Kind, NoJob
<1>2. Typed /\ PlaceInv /\ KeptInv /\ [Next]_vars => KeptInv'
  BY StepKept
<1>3. KeptInv => PreventiveProtects
  BY DEF KeptInv, PreventiveProtects, AfterBackup, Protecting, RestoreKinds
<1> QED
  BY <1>1, <1>2, <1>3, PlaceInductive, PTL DEF Spec

LEMMA StepOrphans == Typed /\ PlaceInv /\ KeptInv /\ OrphanInv /\ [Next]_vars => OrphanInv'
<1> SUFFICES ASSUME Typed, PlaceInv, KeptInv, OrphanInv, [Next]_vars PROVE OrphanInv'
  OBVIOUS
<1> USE DEF Loose
<1>a. KindInv /\ StatusInv
  BY DEF PlaceInv
<1>b. /\ DOMAIN jobs \subseteq DOMAIN jobs'
      /\ \A j \in DOMAIN jobs : jobs'[j].kind = jobs[j].kind
  BY StepRows
<1>c. /\ 0 \in files => 0 \in records
      /\ \A f \in files \ {0} :
           f \in DOMAIN jobs /\ jobs[f].status # "PENDING" /\ jobs[f].kind \in Protecting
  BY DEF OrphanInv
<1> DEFINE Names(row, f) == \/ row.status \in {"RUNNING", "INTERRUPTED"}
                            \/ row.safety = f
                            \/ row.kind = "PALWORLD_UPDATE" /\ row.status = "FAILED"
           Named(f) == Names(jobs[f], f)
           Half(f) == /\ step \in {"registering", "retaining"} \/ (step = "failing" /\ safety = f)
                      /\ jobs[f].status = "RUNNING"
<1>d. \A f \in Loose : f # 0 /\ (IF f = current THEN Half(f) ELSE Named(f))
  BY DEF OrphanInv
<1>e. ASSUME 0 \in files' => 0 \in records',
             \A f \in files' \ {0} : /\ f \in DOMAIN jobs
                                     /\ jobs'[f].status # "PENDING"
                                     /\ jobs[f].kind \in Protecting,
             \A f \in Loose' : IF f = current' THEN Half(f)' ELSE Named(f)'
      PROVE  OrphanInv'
  BY <1>b, <1>e DEF OrphanInv
(* Nothing changes for the worker's job.                                     *)
<1>1. ASSUME UNCHANGED <<current, records, files, stray, safety>>,
             step \in {"registering", "retaining", "failing"} => step' = step,
             \A j \in DOMAIN jobs : jobs[j].status # "PENDING" =>
               jobs'[j].status = jobs[j].status /\ jobs'[j].safety = jobs[j].safety
      PROVE  OrphanInv'
  <2>1. ASSUME NEW f \in Loose'
        PROVE  IF f = current' THEN Half(f)' ELSE Named(f)'
    <3>1. /\ f \in DOMAIN jobs /\ jobs'[f].status = jobs[f].status
          /\ jobs'[f].safety = jobs[f].safety /\ jobs'[f].kind = jobs[f].kind
      BY <1>1, <1>b, <1>c, <1>d
    <3> QED
      BY <1>1, <1>d, <3>1
  <2> QED
    BY <1>1, <1>c, <1>e, <2>1
(* No unrecorded archive belongs to the worker's job afterwards.             *)
<1>2. ASSUME UNCHANGED <<records, files, stray>>,
             \A f \in files \ {0} : jobs'[f].status # "PENDING",
             \A f \in Loose : f # current' /\ Named(f)'
      PROVE  OrphanInv'
  BY <1>2, <1>c, <1>e
<1> HIDE DEF Names, Named, Half
<1>3. CASE UNCHANGED vars
  BY <1>1, <1>3 DEF vars, lifecycleVars, backupVars
<1>4. CASE Passing
  BY <1>1, <1>4, PassingKeeps DEF Calm
<1>5. CASE Working
  <2>1. step \in {"registering", "retaining", "failing"} => step' = step
    BY <1>a, <1>5, WorkingStays DEF MergeSettings, MidWorld
  <2> QED
    BY <1>1, <1>5, <2>1, WorkingKeeps DEF Calm
<1>6. CASE Asking
  <2> PICK k \in JobKind, src \in 0..MaxJobs : Enqueue(k, src)
    BY <1>6, LifecycleAssumption DEF Asking, Typed
  <2>1. UNCHANGED <<current, step, records, files, stray, safety>>
    BY <1>6 DEF Asking, Enqueue, OtherVars, backupVars
  <2> QED
    BY <1>1, <2>1, EnqueueRows
<1>7. CASE RequestCancel
  <2>1. UNCHANGED <<current, step, records, files, stray, safety>>
    BY <1>7 DEF RequestCancel, OtherVars, backupVars
  <2>2. \A j \in DOMAIN jobs : jobs[j].status # "PENDING" =>
          jobs'[j].status = jobs[j].status /\ jobs'[j].safety = jobs[j].safety
    BY <1>7, CancelRows
  <2> QED
    BY <1>1, <2>1, <2>2
(* The other rows stay.                                                      *)
<1>8. ASSUME UNCHANGED <<records, files, stray>>,
             \A j \in DOMAIN jobs \ {current} : jobs'[j] = jobs[j],
             current \in files \ {0} => jobs'[current].status # "PENDING",
             current \in Loose => current # current' /\ Names(jobs'[current], current),
             current' \in {current, NoJob}
      PROVE  OrphanInv'
  <2>1. ASSUME NEW f \in Loose PROVE f # current' /\ Named(f)'
    BY <1>8, <1>c, <1>d, <2>1 DEF Names, Named, NoJob
  <2>2. ASSUME NEW f \in files \ {0} PROVE jobs'[f].status # "PENDING"
    BY <1>8, <1>c, <2>2
  <2> QED
    BY <1>2, <1>8, <2>1, <2>2
<1>9. CASE Claiming
  <2> PICK k \in JobKind : Claim(k, step')
    BY <1>9 DEF Claiming
  <2>1. current = NoJob /\ UNCHANGED <<records, files, stray>>
    BY <1>a, <1>9, ClaimRows DEF KindInv, Claiming
  <2>2. /\ \A j \in DOMAIN jobs \ {current'} : jobs'[j] = jobs[j]
        /\ jobs[current'].status = "PENDING" /\ jobs'[current'].status = "RUNNING"
        /\ current' \in DOMAIN jobs
    BY ClaimRows
  <2>3. \A f \in files \ {0} : f # current' /\ jobs'[f] = jobs[f]
    BY <1>c, <2>2
  <2>4. ASSUME NEW f \in Loose PROVE f # current' /\ Named(f)'
    <3>1. f # 0 /\ f # current
      BY <1>d, <2>1 DEF NoJob
    <3> QED
      BY <1>d, <2>3, <3>1 DEF Names, Named
  <2> QED
    BY <1>2, <1>c, <2>1, <2>3, <2>4
<1>10. CASE Ending
  <2>0. current # NoJob /\ current \in DOMAIN jobs
    BY <1>10, <1>a DEF Ending, KindInv, Typed, NoJob
  <2> PICK result \in Terminal, review \in BOOLEAN, safe \in {0, safety, jobs[current].safety} :
          /\ Finish(result, review, safe)
          /\ step = "failing" /\ Kind \in RestoreKinds => safe = safety
          /\ step = "failing" /\ UpdateJob /\ jobs[current].status = "RUNNING" =>
               result = "FAILED"
    BY <1>10 DEF Ending
  <2>1. result \in Status /\ safe \in 0..MaxJobs /\ result # "PENDING"
    <3>1. jobs[current] \in Row
      BY <2>0 DEF Typed
    <3> QED
      BY <3>1, LifecycleAssumption DEF Row, Status, Terminal, Typed
  <2>2. Record(result, review, safe) /\ current' = NoJob /\ UNCHANGED <<records, files, stray>>
    BY <1>10 DEF Finish, Ending
  <2>3. /\ jobs'[current].status = result /\ jobs'[current].safety = safe
        /\ jobs'[current].kind = jobs[current].kind
        /\ \A j \in DOMAIN jobs \ {current} : jobs'[j] = jobs[j]
    BY <2>0, <2>1, <2>2, RecordRows
  <2>4. ASSUME current \in Loose PROVE current # current' /\ Names(jobs'[current], current)
    <3>1. step = "failing" /\ safety = current /\ jobs[current].status = "RUNNING"
      BY <1>10, <1>d, <2>4 DEF Half, Ending, BackupSteps
    <3>2. Kind = jobs[current].kind /\ Kind \in RestoreKinds \cup {"PALWORLD_UPDATE"}
      BY <1>c, <1>d, <2>0, <2>4 DEF Kind, Protecting
    <3>3. CASE Kind \in RestoreKinds
      <4>1. jobs'[current].safety = current
        BY <2>3, <3>1, <3>3
      <4> QED
        BY <2>0, <2>2, <4>1 DEF Names, Named
    <3>4. CASE Kind = "PALWORLD_UPDATE"
      <4>1. jobs'[current].status = "FAILED" /\ jobs'[current].kind = "PALWORLD_UPDATE"
        BY <2>3, <3>1, <3>2, <3>4 DEF UpdateJob
      <4> QED
        BY <2>0, <2>2, <4>1 DEF Names, Named
    <3> QED
      BY <3>2, <3>3, <3>4
  <2> QED
    BY <1>8, <2>1, <2>2, <2>3, <2>4
<1>11. CASE Dying
  <2>1. UNCHANGED <<jobs, records, files, stray>> /\ current' = NoJob
    BY <1>11 DEF Dying
  <2>2. current \in Loose => current # NoJob /\ jobs[current].status = "RUNNING"
    BY <1>d DEF Half, NoJob
  <2>3. current \in files \ {0} => jobs'[current].status # "PENDING"
    BY <1>c, <2>1
  <2> QED
    BY <1>8, <2>1, <2>2, <2>3 DEF Names, Named
<1>12. CASE Recovering
  <2>1. Recover /\ current' = NoJob /\ current = NoJob /\ UNCHANGED <<records, files, stray>>
    BY <1>a, <1>12 DEF Recovering, Recover, KindInv, OtherVars, backupVars
  <2>2. \A j \in DOMAIN jobs :
          /\ jobs[j].status # "RUNNING" => jobs'[j] = jobs[j]
          /\ jobs[j].status = "RUNNING" => jobs'[j].status = "INTERRUPTED"
          /\ jobs'[j].kind = jobs[j].kind /\ jobs'[j].safety = jobs[j].safety
    BY <2>1, RecoverRows
  <2>3. ASSUME NEW f \in Loose PROVE f # current' /\ Named(f)'
    <3>1. f # 0 /\ f # current /\ f \in DOMAIN jobs
      BY <1>c, <1>d, <2>1 DEF NoJob
    <3> QED
      BY <1>d, <2>1, <2>2, <3>1 DEF Names, Named
  <2>4. ASSUME NEW f \in files \ {0} PROVE jobs'[f].status # "PENDING"
    BY <1>c, <2>2, <2>4
  <2> QED
    BY <1>2, <2>1, <2>3, <2>4
<1>13. CASE BackingUp
  <2>0. current' = current /\ current # NoJob /\ current \in DOMAIN jobs
    BY <1>a, <1>13 DEF BackingUp, Publish, Register, Unlink, RaiseInBackup, LeaveArchive,
                       lifecycleVars, KindInv,
                       BackupSteps, Typed, NoJob
  <2>1. jobs[current].status = "RUNNING" /\ jobs[current].kind \in Protecting
    <3>1. step \in BackupSteps
      BY <1>13 DEF BackingUp, Publish, Register, Unlink, RaiseInBackup, LeaveArchive, BackupSteps
    <3> QED
      BY <1>a, <2>0, <3>1 DEF StatusInv, KindInv, Kind, BackupSteps
  <2>2. /\ \A j \in DOMAIN jobs \ {current} : jobs'[j] = jobs[j]
        /\ jobs'[current].status = jobs[current].status
    <3>1. CASE Publish \/ LeaveArchive
      BY <3>1, FlagSteps
    <3>2. CASE Register \/ Unlink \/ RaiseInBackup
      BY <3>2 DEF Register, Unlink, RaiseInBackup, lifecycleVars
    <3> QED
      BY <1>13, <3>1, <3>2 DEF BackingUp
  <2>3. /\ records' = records /\ stray \subseteq stray' /\ files' \subseteq files \cup {current}
        /\ current \in Loose' =>
             step' \in {"registering", "retaining"} \/ (step' = "failing" /\ safety' = current)
    <3> USE DEF Enter
    <3>1. CASE Publish
      BY <3>1 DEF Publish
    <3>2. CASE Register
      BY <3>2 DEF Register
    <3>3. CASE Unlink
      BY <3>3 DEF Unlink, lifecycleVars
    <3>4. CASE RaiseInBackup
      BY <3>4 DEF RaiseInBackup, KeptInv
    <3>5. CASE LeaveArchive
      BY <3>5 DEF LeaveArchive
    <3> QED
      BY <1>13, <3>1, <3>2, <3>3, <3>4, <3>5 DEF BackingUp
  <2>4. ASSUME NEW f \in files' \ {0}
        PROVE  f \in DOMAIN jobs /\ jobs'[f].status # "PENDING" /\ jobs[f].kind \in Protecting
    BY <1>c, <2>0, <2>1, <2>2, <2>3
  <2>5. ASSUME NEW f \in Loose' PROVE IF f = current' THEN Half(f)' ELSE Named(f)'
    <3>1. CASE f = current
      BY <2>0, <2>1, <2>2, <2>3, <3>1 DEF Half
    <3>2. CASE f # current
      <4>1. f \in Loose /\ f # 0
        BY <1>d, <2>3, <3>2
      <4>2. Named(f) /\ jobs'[f] = jobs[f]
        BY <1>c, <1>d, <2>2, <3>2, <4>1
      <4> QED
        BY <2>0, <3>2, <4>2 DEF Names, Named
    <3> QED
      BY <3>1, <3>2
  <2>6. 0 \in files' => 0 \in records'
    BY <1>c, <2>0, <2>3 DEF NoJob
  <2> QED
    BY <1>e, <2>4, <2>5, <2>6
<1>14. CASE CommitBeforeStop \/ CommitBeforeCountdown
  <2>1. /\ step = "retaining" /\ current' = current /\ files' = files
        /\ stray' = stray
        /\ records' = (records \cup {current}) \ doomed /\ doomed \cap files = {}
    BY <1>14 DEF CommitBeforeStop, CommitBeforeCountdown, CommitTo
  <2>2. current # NoJob /\ current \in DOMAIN jobs
    BY <1>a, <2>1 DEF KindInv, Typed, NoJob
  <2>3. /\ \A j \in DOMAIN jobs \ {current} : jobs'[j] = jobs[j]
        /\ jobs'[current].status = jobs[current].status
    <3>1. CASE CommitBeforeStop
      BY <3>1 DEF CommitBeforeStop, CommitTo
    <3>2. CASE CommitBeforeCountdown
      BY <3>2, FlagSteps
    <3> QED
      BY <1>14, <3>1, <3>2
  <2>4. ASSUME NEW f \in files' \ {0}
        PROVE  f \in DOMAIN jobs /\ jobs'[f].status # "PENDING" /\ jobs[f].kind \in Protecting
    BY <1>c, <2>1, <2>3
  <2>5. ASSUME NEW f \in Loose' PROVE IF f = current' THEN Half(f)' ELSE Named(f)'
    <3>1. f \in Loose /\ f # current /\ f # 0
      BY <1>d, <2>1
    <3>2. Named(f) /\ jobs'[f] = jobs[f]
      BY <1>c, <1>d, <2>3, <3>1
    <3> QED
      BY <2>1, <3>1, <3>2 DEF Names, Named
  <2>6. 0 \in files' => 0 \in records'
    BY <1>c, <2>1
  <2> QED
    BY <1>e, <2>4, <2>5, <2>6
<1>15. CASE Replacing \/ Failing \/ MarkIrreversible \/ Compare
  <2>0. current' \in {current, NoJob} /\ UNCHANGED <<records, files, stray>>
    BY <1>15
       DEF Replacing, BeginReplacing, Copied, Displace, Place, Discard, Failing, RaiseInRestore,
           StrandRestore, MarkIrreversible, Compare, OtherVars, backupVars
  <2>1. current # NoJob /\ current \in DOMAIN jobs
    <3>1. step \notin {"idle", "down"}
      BY <1>15 DEF Replacing, BeginReplacing, Copied, Displace, Place, Discard, Failing,
                   RaiseInRestore, StrandRestore, MarkIrreversible, Compare
    <3> QED
      BY <1>a, <3>1 DEF KindInv, Typed, NoJob
  <2>2. current \in Loose => StrandRestore
    BY <1>d, <1>15
       DEF Half, Replacing, BeginReplacing, Copied, Displace, Place, Discard, Failing,
           RaiseInRestore, MarkIrreversible, Compare
  <2>3. StrandRestore => current' = NoJob /\ UNCHANGED jobs
    BY DEF StrandRestore
  <2>4. /\ \A j \in DOMAIN jobs \ {current} : jobs'[j] = jobs[j]
        /\ jobs'[current].status # "PENDING"
    <3>0. jobs[current].status # "PENDING"
      BY <1>a, <2>1 DEF StatusInv
    <3>1. CASE BeginReplacing \/ MarkIrreversible
      BY <3>0, <3>1, FlagSteps
    <3>2. CASE UNCHANGED jobs
      BY <3>0, <3>2
    <3>3. CASE Record("SUCCEEDED", FALSE, safety)
      <4>1. "SUCCEEDED" \in Status /\ safety \in 0..MaxJobs /\ FALSE \in BOOLEAN
        BY DEF Status, Terminal, Typed
      <4> QED
        BY <2>1, <3>3, <4>1, RecordRows
    <3> QED
      BY <1>15, <3>1, <3>2, <3>3 DEF Replacing, Copied, Displace, Place, Discard, Failing,
                                    RaiseInRestore, StrandRestore, Compare
  <2>5. ASSUME current \in Loose PROVE current # current' /\ Names(jobs'[current], current)
    <3>1. jobs'[current].status = "RUNNING"
      BY <1>d, <2>2, <2>3, <2>5 DEF Half
    <3> QED
      BY <2>1, <2>2, <2>3, <2>5, <3>1 DEF Names, Named
  <2> QED
    BY <1>8, <2>0, <2>1, <2>4, <2>5
<1> QED
  BY <1>3, <1>4, <1>5, <1>6, <1>7, <1>9, <1>10, <1>11, <1>12, <1>13, <1>14, <1>15, NextCases

(* An archive without a record is never anonymous: it belongs to a job that  *)
(* is running, was interrupted or names it, or to an Update that could not    *)
(* write its own failure, unless the clean-up of its own attempt left it      *)
(* behind (backups/service.py:148-163, LocalBackupService.create,  *)
(* and updates/jobs.py:701, fail_unexpected).                                 *)
THEOREM OrphansHaveAJob == Spec => []OrphansAreNamed
<1>1. Init => KeptInv /\ OrphanInv
  BY DEF Init, LifecycleInit, BackupInit, KeptInv, OrphanInv, Loose, AfterBackup, BackupSteps,
         Kind, NoJob
<1>2. Typed /\ PlaceInv /\ KeptInv /\ OrphanInv /\ [Next]_vars => (KeptInv /\ OrphanInv)'
  BY StepKept, StepOrphans
<1>3. OrphanInv => OrphansAreNamed
  BY DEF OrphanInv, OrphansAreNamed, Loose
<1> QED
  BY <1>1, <1>2, <1>3, PlaceInductive, PTL DEF Spec
=============================================================================
