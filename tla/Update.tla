--------------------------------- MODULE Update ---------------------------------
(***************************************************************************)
(* PALWORLD_UPDATE_CHECK and PALWORLD_UPDATE jobs: the version check, the     *)
(* preventive backup, the countdown an administrator may cancel, the Stop,    *)
(* SteamCMD, the Start and the final checks.  The announced Stop is that of   *)
(* AssistedShutdownService, which HOST_* jobs use without a countdown.        *)
(***************************************************************************)
EXTENDS Restore

VARIABLES
  build,      \* what is installed; "broken" while SteamCMD is at it
  checked     \* the latest UPDATE_CHECK succeeded and offers another build

updateVars == <<build, checked>>

UpdateTypeOK ==
  /\ build \in {"old", "new", "broken"}
  /\ checked \in BOOLEAN

UpdateInit == build = "old" /\ checked \in BOOLEAN

(* What a step of this module leaves alone besides the host.                 *)
OtherVars == <<backupVars, restoreVars>>

UpdateJob == Kind = "PALWORLD_UPDATE"

-----------------------------------------------------------------------------
(* Requests. *)

RequestCheck ==
  /\ Enqueue("PALWORLD_UPDATE_CHECK", 0)
  /\ checked' = FALSE
  /\ UNCHANGED <<build, OtherVars>>

RequestUpdate ==
  /\ checked
  /\ Enqueue("PALWORLD_UPDATE", 0)
  /\ UNCHANGED <<updateVars, OtherVars>>

(* One UPDATE statement; a job nobody has claimed is over with it.           *)
RequestCancel ==
  /\ \E j \in Active :
       /\ jobs[j].cancellable /\ ~jobs[j].cancel
       /\ jobs' = [jobs EXCEPT ![j] =
                     IF @.status = "PENDING"
                     THEN [@ EXCEPT !.cancel = TRUE, !.status = "CANCELLED",
                                    !.cancellable = FALSE]
                     ELSE [@ EXCEPT !.cancel = TRUE]]
  /\ powered
  /\ UNCHANGED <<hostVars, step, current, critical, callVars, faultVars, updateVars, OtherVars>>

-----------------------------------------------------------------------------
(* UPDATE_CHECK: one query; the build that SteamCMD broke off at may show     *)
(* either number.                                                            *)

ClaimUpdate ==
  /\ \/ Claim("PALWORLD_UPDATE_CHECK", "asking_steam") /\ Enter("asking_steam")
     \/ Claim("PALWORLD_UPDATE", "verifying") /\ Enter("verifying")
  /\ safety' = 0
  /\ UNCHANGED <<observed, records, files, doomed, stray, restoreVars, updateVars>>

FinishCheck ==
  /\ step = "asking_steam"
  /\ \/ Finish("SUCCEEDED", FALSE, 0) /\ UNCHANGED faultVars
        /\ checked' \in (CASE build = "old" -> {TRUE}
                           [] build = "new" -> {FALSE}
                           [] OTHER         -> BOOLEAN)
     \/ Finish("FAILED", FALSE, 0) /\ Fault /\ UNCHANGED checked
  /\ UNCHANGED <<build, OtherVars>>

-----------------------------------------------------------------------------
(* The Update before its point of no return. *)

GoTo(s) ==
  /\ Enter(s)
  /\ UNCHANGED <<hostVars, jobs, current, critical, seen, observed, overtaken, faultVars,
                 OtherVars>>

Verify ==
  /\ step = "verifying"
  /\ ~CancelSeen
  /\ build # "new"
  /\ BeginBackup
  /\ UNCHANGED <<hostVars, jobs, current, critical, seen, overtaken, faultVars, OtherVars,
                 updateVars>>

(* The checkpoints of the first steps and of the preventive backup, and the   *)
(* ticks of the countdown, which ask for cancel_requested alone.             *)
CancelHonoured ==
  /\ UpdateJob
  /\ \/ step \in {"verifying", "staging"} /\ CancelSeen
     \/ step = "countdown" /\ jobs[current].cancel
  /\ GoTo("cancelled")
  /\ UNCHANGED updateVars

(* The id of the preventive backup is stored and the job is open to a cancel *)
(* again.                                                                    *)
CommitBeforeCountdown ==
  /\ UpdateJob
  /\ CommitTo(/\ Enter("players")
              /\ jobs' = [jobs EXCEPT ![current].cancellable = TRUE, ![current].safety = safety]
              /\ UNCHANGED observed)
  /\ UNCHANGED <<restoreVars, updateVars>>

(* The REST API is asked for the number of players and warns them.           *)
AskPlayers ==
  /\ step = "players"
  /\ GoTo(IF ~RestOpen THEN "failing" ELSE IF UpdateJob THEN "countdown" ELSE "warning")
  /\ UNCHANGED updateVars

(* Mutant of MarkIrreversible: cancel_requested is not part of the WHERE.    *)
MarkIrreversibleAnyway ==
  /\ step = "countdown"
  /\ jobs' = [jobs EXCEPT ![current].cancellable = FALSE]
  /\ critical' = TRUE
  /\ Enter("warning")
  /\ UNCHANGED <<hostVars, current, seen, observed, overtaken, faultVars, OtherVars, updateVars>>

(* One UPDATE guarded by the flags it closes.                                *)
MarkIrreversible ==
  /\ step = "countdown"
  /\ ~jobs[current].cancel
  /\ jobs' = [jobs EXCEPT ![current].cancellable = FALSE]
  /\ critical' = TRUE
  /\ Enter("warning")
  /\ UNCHANGED <<hostVars, current, seen, observed, overtaken, faultVars, OtherVars, updateVars>>

(* Players who are there are told first, which a closed REST API refuses.    *)
Warn ==
  /\ step = "warning"
  /\ \/ Await("stop", "asking")
     \/ ~RestOpen /\ Enter("failing") /\ UNCHANGED observed
  /\ UNCHANGED <<hostVars, jobs, current, critical, seen, overtaken, faultVars, OtherVars,
                 updateVars>>

-----------------------------------------------------------------------------
(* The Update after it. *)

BeginInstalling ==
  /\ UpdateJob
  /\ step = "stop"
  /\ call \in {"reached", "missed"}
  /\ GoTo(IF call = "reached" THEN "installing" ELSE "failing")
  /\ build' = IF call = "reached" THEN "broken" ELSE build
  /\ UNCHANGED checked

Installed ==
  /\ step = "installing"
  /\ build' = "new"
  /\ Await("start", "asking")
  /\ UNCHANGED <<hostVars, jobs, current, critical, seen, overtaken, faultVars, OtherVars,
                 checked>>

UpdateStarted ==
  /\ UpdateJob
  /\ step = "start"
  /\ call \in {"reached", "missed"}
  /\ GoTo(IF call = "reached" THEN "comparing" ELSE "failing")
  /\ UNCHANGED updateVars

(* Another build may have been published meanwhile.  The outcome is written,  *)
(* then the job's log.                                                       *)
Compare ==
  /\ step = "comparing"
  /\ \/ Record("SUCCEEDED", FALSE, safety) /\ Enter("noting")
     \/ UNCHANGED jobs /\ Enter("failing")
  /\ UNCHANGED <<hostVars, current, critical, seen, observed, overtaken, faultVars, OtherVars,
                 updateVars>>

FinishUpdate ==
  /\ UpdateJob
  /\ \/ step = "verifying" /\ ~CancelSeen /\ build # "old" /\ Finish("SUCCEEDED", FALSE, 0)
     \/ step = "noting" /\ Finish("SUCCEEDED", FALSE, safety)
     \/ step = "cancelled" /\ Finish("CANCELLED", FALSE, safety)
     \/ step = "failing" /\ Finish("FAILED", critical, safety)
  /\ safety' = 0
  /\ UNCHANGED <<faultVars, records, files, doomed, stray, restoreVars, updateVars>>

(* An exception, the one after the success included: the row is then FAILED. *)
RaiseInUpdate ==
  /\ UpdateJob
  /\ step \in {"verifying", "players", "countdown", "warning", "stop", "installing", "start",
               "comparing", "noting"}
  /\ Fault
  /\ Enter("failing")
  /\ seen' = NotSeen
  /\ UNCHANGED <<hostVars, jobs, current, critical, observed, overtaken, OtherVars, updateVars>>

(* Mutant of FailUnexpected: the row is closed without a review.             *)
FailUnexpectedQuietly ==
  /\ UpdateJob
  /\ step \in {"failing", "cancelled"}
  /\ Fault
  /\ Finish("FAILED", FALSE, 0)
  /\ safety' = 0
  /\ UNCHANGED <<records, files, doomed, stray, restoreVars, updateVars>>

(* When the outcome cannot be written the worker writes one of its own, from *)
(* what the row says: not cancellable is past the point of no return, and    *)
(* the preventive backup goes unnamed.                                       *)
FailUnexpected ==
  /\ UpdateJob
  /\ step \in {"failing", "cancelled"}
  /\ Fault
  /\ IF jobs[current].status = "RUNNING"
     THEN Finish("FAILED", ~jobs[current].cancellable, 0)
     ELSE Finish(jobs[current].status, jobs[current].review, jobs[current].safety)
  /\ safety' = 0
  /\ UNCHANGED <<records, files, doomed, stray, restoreVars, updateVars>>

UpdateStep ==
  \/ ClaimUpdate \/ FinishCheck \/ Verify \/ CancelHonoured \/ CommitBeforeCountdown
  \/ AskPlayers \/ MarkIrreversible \/ Warn \/ BeginInstalling \/ Installed
  \/ UpdateStarted \/ Compare \/ FinishUpdate \/ RaiseInUpdate \/ FailUnexpected
=============================================================================
