------------------------------- MODULE Maintenance -------------------------------
(***************************************************************************)
(* The server, the host and the jobs that touch both, composed: requests of   *)
(* the administrator, one worker, the unit and the privileged helpers take    *)
(* steps in any order.  A power action takes the worker down with the host.   *)
(***************************************************************************)
EXTENDS HostPower

vars == <<hostVars, lifecycleVars, backupVars, restoreVars, updateVars>>

Init ==
  /\ HostInit /\ LifecycleInit /\ BackupInit /\ RestoreInit /\ UpdateInit

Host ==
  \/ (Progress \/ Trouble \/ Serve \/ Boot) /\ UNCHANGED lifecycleVars
  \/ ServePower /\ Die /\ UNCHANGED crashes

Web ==
  \/ RequestLifecycle /\ UNCHANGED <<OtherVars, updateVars>>
  \/ RequestRestore /\ UNCHANGED updateVars
  \/ RequestCheck \/ RequestUpdate \/ RequestCancel \/ RequestHostPower

Worker ==
  \/ (Probe \/ ClaimLifecycle \/ FinishLifecycle \/ Recover) /\ UNCHANGED <<OtherVars, updateVars>>
  \/ Backup /\ UNCHANGED <<restoreVars, updateVars>>
  \/ RestoreStep /\ UNCHANGED updateVars
  \/ UpdateStep
  \/ HostPowerStep

(* The transaction of a dead worker is rolled back.                          *)
Lost == doomed' = {} /\ safety' = 0 /\ UNCHANGED <<records, files, stray, restoreVars, updateVars>>

Next ==
  \/ Host /\ (IF powered' = powered \/ powered' THEN UNCHANGED <<OtherVars, updateVars>> ELSE Lost)
  \/ Web
  \/ Worker
  \/ Crash /\ Lost

Spec == Init /\ [][Next]_vars
-----------------------------------------------------------------------------
(* Every variable of the composition has its type. *)
TypeOK ==
  /\ HostTypeOK /\ LifecycleTypeOK /\ BackupTypeOK /\ RestoreTypeOK /\ UpdateTypeOK

(* A displaced world is thrown away only by its own Restore, once the         *)
(* restored one and both settings files are in place; nothing but a server    *)
(* that finds no world at all puts another one there.                        *)
WorldsSurvive ==
  [][/\ \A j \in 1..MaxJobs :
          prevDir[j] \in Worlds /\ prevDir'[j] # prevDir[j] =>
            current = j /\ saves = "restored" /\ merged = 2
     /\ saves' # saves =>
          saves = "none" \/ \E j \in 1..MaxJobs : prevDir'[j] = saves]_vars

(* While SaveGames or the installation is being replaced, and when the host   *)
(* is asked to go down, the server process is not running, however late the   *)
(* process, the REST API and the port are tried after the unit was read,      *)
(* unless a start an earlier job had asked for and given up waiting for was   *)
(* still underway at that reading.                                           *)
DownWhileChanged ==
  step \in {"copying", "displacing", "placing", "merging", "discarding", "installing",
            "requesting"} =>
    ~Process \/ overtaken

(* Whatever a Restore or an Update leaves half done is on record: its job is  *)
(* still in the worker's hands or asks for a manual review.                  *)
HalfDoneIsReviewed ==
  /\ \A j \in DOMAIN jobs :
       newDir[j] # "none" \/ prevDir[j] # "none" =>
         jobs[j].status = "RUNNING" \/ jobs[j].review
  /\ build = "broken" =>
       \E j \in DOMAIN jobs :
         jobs[j].kind = "PALWORLD_UPDATE" /\ (jobs[j].status = "RUNNING" \/ jobs[j].review)

(* From the Stop on, the preventive backup of the job and the local backup a  *)
(* Restore was asked for have both record and archive, whatever the retention *)
(* in between removed.                                                       *)
PreventiveProtects ==
  step \in {"players", "countdown", "warning", "stop", "copying", "displacing", "placing",
            "merging", "discarding", "installing", "start", "logs", "comparing"}
    /\ Kind \in RestoreKinds \cup {"PALWORLD_UPDATE"} =>
       {safety} \cup (IF Kind = "LOCAL_RESTORE" THEN {jobs[current].source} ELSE {})
         \subseteq records \cap files

(* An accepted cancel and the Stop of an Update exclude each other, whichever *)
(* checkpoint of the preventive backup or of the countdown the cancel meets.  *)
CancelExcludesStop == UpdateJob /\ critical => ~jobs[current].cancel

(* An archive without a record belongs to the job in the worker's hands, to   *)
(* one that was INTERRUPTED, to one whose result names it, or to an Update    *)
(* that could not write its own failure, unless the clean-up of its attempt   *)
(* left it behind when chmod or the removal itself raised.                   *)
OrphansAreNamed ==
  \A f \in files \ records :
    \/ jobs[f].status \in {"RUNNING", "INTERRUPTED"}
    \/ jobs[f].safety = f
    \/ jobs[f].kind = "PALWORLD_UPDATE" /\ jobs[f].status = "FAILED"
    \/ f \in stray
=============================================================================
