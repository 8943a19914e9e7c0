---------------------------- MODULE AssistedShutdown ----------------------------
(***************************************************************************)
(* Stopping the Palworld server: the plain Stop, the assisted shutdown with *)
(* its countdown, and the two forced signals that may follow a failure.     *)
(* The web raises cancel_requested and execute_now_requested on the row     *)
(* while the worker reads them between two seconds of the countdown.  Jobs  *)
(* share one coordination key, so at most one is active (JobQueue).         *)
(***************************************************************************)
EXTENDS Naturals

CONSTANTS
  MaxJobs,        \* bound: jobs ever requested
  Countdown,      \* seconds of a delayed shutdown (the code: 60, 300, 600)
  MaxFaults       \* bound: exceptions and deaths of the worker together

ASSUME ShutdownAssumption ==
  /\ MaxJobs \in Nat /\ MaxFaults \in Nat
  /\ Countdown \in Nat \ {0}

JobIds == 1..MaxJobs
NoJob == 0

STOP     == "PALWORLD_STOP"
ASSISTED == "PALWORLD_ASSISTED_SHUTDOWN"
TERM     == "PALWORLD_FORCE_SIGTERM"
KILL     == "PALWORLD_FORCE_SIGKILL"
JobKind  == {STOP, ASSISTED, TERM, KILL}

Terminal == {"SUCCEEDED", "FAILED", "CANCELLED", "INTERRUPTED"}
Status == {"ABSENT", "PENDING", "RUNNING"} \cup Terminal
Failure == {"none", "communication_failed", "stop_failed", "signal_failed",
            "unexpected_failure"}

VARIABLES
  status,        \* jobs.status
  kind,          \* jobs.kind
  cancellable,   \* jobs.is_cancellable
  cancel,        \* jobs.cancel_requested
  now,           \* jobs.execute_now_requested
  failure,       \* jobs.result["failure"]
  source,        \* jobs.result["source_job_id"] of a forced job
  delayed,       \* jobs.result["countdown_minutes"] > 0
  lastId,        \* highest job id inserted
  step,          \* where the worker is inside the executor
  current,       \* the job it executes
  remaining,     \* seconds left of its countdown
  players,       \* it found players online
  outcome,       \* the result it is about to write: <<status, failure>>
  up,            \* the Palworld process runs and its REST port is open
  attempted,     \* commands handed to systemd, by job
  notices,       \* announcements delivered or attempted, by job
  faults

rowVars    == <<status, kind, cancellable, cancel, now, failure, source, delayed, lastId>>
workVars   == <<step, current, remaining, players, outcome>>
worldVars  == <<up, attempted, notices>>
vars == <<status, kind, cancellable, cancel, now, failure, source, delayed, lastId,
          step, current, remaining, players, outcome, up, attempted, notices,
          faults>>

Active(j) == status[j] \in {"PENDING", "RUNNING"}
NoOutcome == <<"RUNNING", "none">>

Init ==
  /\ status = [j \in JobIds |-> "ABSENT"]
  /\ kind = [j \in JobIds |-> STOP]
  /\ cancellable = [j \in JobIds |-> FALSE]
  /\ cancel = [j \in JobIds |-> FALSE]
  /\ now = [j \in JobIds |-> FALSE]
  /\ failure = [j \in JobIds |-> "none"]
  /\ source = [j \in JobIds |-> NoJob]
  /\ delayed = [j \in JobIds |-> FALSE]
  /\ lastId = 0
  /\ step = "idle"
  /\ current = NoJob
  /\ remaining = 0
  /\ players = FALSE
  /\ outcome = NoOutcome
  /\ up = TRUE
  /\ attempted = {}
  /\ notices = {}
  /\ faults = 0

-----------------------------------------------------------------------------
(* The web process. *)

(* The INSERT of a job, refused by the index while another one is active.   *)
Enqueue(k, withCountdown, src) ==
  LET id == lastId + 1
  IN  /\ lastId < MaxJobs
      /\ ~\E j \in JobIds : Active(j)
      /\ lastId' = id
      /\ status' = [status EXCEPT ![id] = "PENDING"]
      /\ kind' = [kind EXCEPT ![id] = k]
      /\ cancellable' = [cancellable EXCEPT ![id] = withCountdown]
      /\ delayed' = [delayed EXCEPT ![id] = withCountdown]
      /\ source' = [source EXCEPT ![id] = src]
      /\ UNCHANGED <<cancel, now, failure, workVars, worldVars, faults>>

RequestStop == Enqueue(STOP, FALSE, NoJob)

RequestAssisted == \E withCountdown \in BOOLEAN : Enqueue(ASSISTED, withCountdown, NoJob)

(* Mutant of AdmitsTerm: the cause of the failure is not looked at.          *)
AdmitsTermAfterAnyFailure(j) == status[j] = "FAILED" /\ kind[j] \in {STOP, ASSISTED}

(* The earlier failure that admits a signal.  A failed PALWORLD_STOP always  *)
(* does, an assisted shutdown only when it failed at its Stop.               *)
AdmitsTerm(j) ==
  /\ status[j] = "FAILED"
  /\ kind[j] = STOP \/ (kind[j] = ASSISTED /\ failure[j] = "stop_failed")

AdmitsKill(j) == status[j] = "FAILED" /\ kind[j] = TERM

RequestForced ==
  \E src \in JobIds :
    \/ AdmitsTerm(src) /\ Enqueue(TERM, FALSE, src)
    \/ AdmitsKill(src) /\ Enqueue(KILL, FALSE, src)

(* Mutant of RequestCancel: is_cancellable is not part of the UPDATE.        *)
RequestCancelLate(j) ==
  /\ kind[j] = ASSISTED /\ Active(j) /\ delayed[j]
  /\ ~cancel[j]
  /\ cancel' = [cancel EXCEPT ![j] = TRUE]
  /\ UNCHANGED <<status, kind, cancellable, now, failure, source, delayed, lastId,
                 workVars, worldVars, faults>>

(* One UPDATE ... RETURNING; a job still PENDING is closed with it.          *)
RequestCancel(j) ==
  /\ kind[j] = ASSISTED /\ Active(j)
  /\ cancellable[j] /\ ~cancel[j]
  /\ cancel' = [cancel EXCEPT ![j] = TRUE]
  /\ IF status[j] = "PENDING"
     THEN /\ status' = [status EXCEPT ![j] = "CANCELLED"]
          /\ cancellable' = [cancellable EXCEPT ![j] = FALSE]
     ELSE UNCHANGED <<status, cancellable>>
  /\ UNCHANGED <<kind, now, failure, source, delayed, lastId, workVars, worldVars, faults>>

RequestNow(j) ==
  /\ kind[j] = ASSISTED /\ Active(j)
  /\ cancellable[j] /\ ~cancel[j] /\ ~now[j]
  /\ now' = [now EXCEPT ![j] = TRUE]
  /\ UNCHANGED <<status, kind, cancellable, cancel, failure, source, delayed, lastId,
                 workVars, worldVars, faults>>

-----------------------------------------------------------------------------
(* The worker. *)

Claim ==
  /\ step = "idle"
  /\ \E j \in JobIds :
       /\ status[j] = "PENDING"
       /\ status' = [status EXCEPT ![j] = "RUNNING"]
       /\ current' = j
       /\ step' = IF kind[j] = ASSISTED THEN "consult" ELSE "command"
       /\ remaining' = IF delayed[j] THEN Countdown ELSE 0
  /\ players' = FALSE
  /\ outcome' = NoOutcome
  /\ UNCHANGED <<kind, cancellable, cancel, now, failure, source, delayed, lastId,
                 worldVars, faults>>

(* The executor returns: its result is not in the database yet.              *)
Return(result, reason) ==
  /\ step' = "complete"
  /\ outcome' = <<result, reason>>
  /\ UNCHANGED <<current, remaining>>

Go(next) == step' = next /\ UNCHANGED <<current, remaining, outcome>>

(* GET /players once, then the first POST /announce.                         *)
Consult ==
  /\ step = "consult"
  /\ \/ /\ up
        /\ players' \in BOOLEAN
        /\ notices' = IF players' /\ delayed[current]
                      THEN notices \cup {<<current, "initial">>} ELSE notices
        /\ Go("countdown")
     \/ /\ Return("FAILED", "communication_failed")
        /\ UNCHANGED <<players, notices>>
  /\ UNCHANGED <<rowVars, up, attempted, faults>>

(* One second of the countdown: the directive is read, then acted on.        *)
TickCancel ==
  /\ cancel[current]
  /\ notices' = IF players THEN notices \cup {<<current, "cancelled">>} ELSE notices
  /\ Return("CANCELLED", "none")

TickOn ==
  /\ ~cancel[current]
  /\ remaining' = IF now[current] THEN 0 ELSE remaining - 1
  /\ UNCHANGED <<step, current, outcome, notices>>

Tick ==
  /\ step = "countdown" /\ remaining > 0
  /\ TickCancel \/ TickOn
  /\ UNCHANGED <<rowVars, players, up, attempted, faults>>

(* mark_irreversible: one conditional UPDATE closes the cancellation point.  *)
MarkIrreversible ==
  /\ step = "countdown" /\ remaining = 0
  /\ IF cancel[current]
     THEN Return("CANCELLED", "none") /\ UNCHANGED cancellable
     ELSE Go("warn") /\ cancellable' = [cancellable EXCEPT ![current] = FALSE]
  /\ UNCHANGED <<status, kind, cancel, now, failure, source, delayed, lastId,
                 players, worldVars, faults>>

(* Mutant of FinalWarning: a failed announcement does not stop the shutdown. *)
FinalWarningSuppressed ==
  /\ step = "warn"
  /\ notices' = IF players /\ up THEN notices \cup {<<current, "final">>} ELSE notices
  /\ Go("command")
  /\ UNCHANGED <<rowVars, players, up, attempted, faults>>

FinalWarning ==
  /\ step = "warn"
  /\ \/ /\ players => up
        /\ notices' = IF players THEN notices \cup {<<current, "final">>} ELSE notices
        /\ Go("command")
     \/ /\ players
        /\ Return("FAILED", "communication_failed")
        /\ UNCHANGED notices
  /\ UNCHANGED <<rowVars, players, up, attempted, faults>>

CommandOf(k) == CASE k = TERM -> "SIGTERM" [] k = KILL -> "SIGKILL" [] OTHER -> "stop"

FailureOf(k) == IF k \in {TERM, KILL} THEN "signal_failed" ELSE "stop_failed"

(* The request handed to systemd, which may refuse it.                       *)
Command ==
  /\ step = "command"
  /\ attempted' = attempted \cup {<<current, CommandOf(kind[current])>>}
  /\ Go("await") \/ Return("FAILED", FailureOf(kind[current]))
  /\ UNCHANGED <<rowVars, players, up, notices, faults>>

(* Poll health and port until OFFLINE or the deadline.                       *)
Await ==
  /\ step = "await"
  /\ IF up THEN Return("FAILED", FailureOf(kind[current])) ELSE Return("SUCCEEDED", "none")
  /\ UNCHANGED <<rowVars, players, worldVars, faults>>

Complete ==
  /\ step = "complete"
  /\ status' = [status EXCEPT ![current] = outcome[1]]
  /\ failure' = [failure EXCEPT ![current] = outcome[2]]
  /\ cancellable' = [cancellable EXCEPT ![current] = FALSE]
  /\ step' = "idle"
  /\ current' = NoJob
  /\ outcome' = NoOutcome
  /\ UNCHANGED <<kind, cancel, now, source, delayed, lastId, remaining, players,
                 worldVars, faults>>

(* An exception anywhere in the executor, a failed write included, is turned *)
(* into a failure by the worker's handler.                                   *)
Raise ==
  /\ step \notin {"idle", "down"}
  /\ faults < MaxFaults
  /\ faults' = faults + 1
  /\ Return("FAILED", "unexpected_failure")
  /\ UNCHANGED <<rowVars, players, worldVars>>

Crash ==
  /\ step # "down"
  /\ faults < MaxFaults
  /\ faults' = faults + 1
  /\ step' = "down"
  /\ current' = NoJob
  /\ UNCHANGED <<rowVars, remaining, players, outcome, worldVars>>

(* Mutant of Recover: jobs left RUNNING are not closed.                      *)
RecoverNothing ==
  /\ step = "down"
  /\ step' = "idle"
  /\ UNCHANGED <<rowVars, current, remaining, players, outcome, worldVars, faults>>

Recover ==
  /\ step = "down"
  /\ step' = "idle"
  /\ status' = [j \in JobIds |-> IF status[j] = "RUNNING" THEN "INTERRUPTED" ELSE status[j]]
  /\ cancellable' = [j \in JobIds |-> cancellable[j] /\ status[j] # "RUNNING"]
  /\ UNCHANGED <<kind, cancel, now, failure, source, delayed, lastId, current, remaining,
                 players, outcome, worldVars, faults>>

-----------------------------------------------------------------------------
(* The server goes down when told to, or crashes; systemd restarts a crashed *)
(* one as long as no command was given.                                      *)
ServerChanges ==
  /\ up' = ~up
  /\ up' => attempted = {}
  /\ UNCHANGED <<rowVars, workVars, attempted, notices, faults>>

Web == RequestStop \/ RequestAssisted \/ RequestForced
         \/ \E j \in JobIds : RequestCancel(j) \/ RequestNow(j)

Executor == Consult \/ Tick \/ MarkIrreversible \/ FinalWarning \/ Command \/ Await

Worker == Claim \/ Executor \/ Complete \/ Recover

Next == Web \/ Worker \/ Raise \/ Crash \/ ServerChanges

Spec == Init /\ [][Next]_vars

(* The worker keeps running: every call it makes returns or times out.       *)
FairSpec == Spec /\ WF_vars(Worker)
-----------------------------------------------------------------------------
(* Every variable has its type. *)
TypeOK ==
  /\ status \in [JobIds -> Status]
  /\ kind \in [JobIds -> JobKind]
  /\ cancellable \in [JobIds -> BOOLEAN]
  /\ cancel \in [JobIds -> BOOLEAN]
  /\ now \in [JobIds -> BOOLEAN]
  /\ failure \in [JobIds -> Failure]
  /\ source \in [JobIds -> JobIds \cup {NoJob}]
  /\ delayed \in [JobIds -> BOOLEAN]
  /\ lastId \in 0..MaxJobs
  /\ step \in {"idle", "consult", "countdown", "warn", "command", "await", "complete", "down"}
  /\ current \in JobIds \cup {NoJob}
  /\ remaining \in 0..Countdown
  /\ players \in BOOLEAN
  /\ outcome \in Status \X Failure
  /\ up \in BOOLEAN
  /\ attempted \subseteq JobIds \X {"stop", "SIGTERM", "SIGKILL"}
  /\ notices \subseteq JobIds \X {"initial", "final", "cancelled"}
  /\ faults \in 0..MaxFaults

(* Players found online hear the final warning before the Stop they were     *)
(* promised it; a warning that fails leaves the server running.              *)
StopIsAnnounced ==
  \A j \in JobIds :
    /\ <<j, "stop">> \in attempted
    /\ <<j, "initial">> \in notices
    => <<j, "final">> \in notices

(* A signal was preceded by the failures it requires, each of a job of its   *)
(* own: SIGKILL by a failed SIGTERM, and an assisted shutdown admits SIGTERM *)
(* only when its own Stop had been asked for.                                *)
EscalationChain ==
  \A j \in JobIds :
    LET src == source[j]
    IN  /\ <<j, "SIGKILL">> \in attempted =>
             kind[src] = TERM /\ status[src] = "FAILED" /\ status[source[src]] = "FAILED"
        /\ <<j, "SIGTERM">> \in attempted /\ kind[src] = ASSISTED =>
             status[src] = "FAILED" /\ <<src, "stop">> \in attempted

(* Every accepted request is brought to an outcome: no flag combination and  *)
(* no crash leaves the countdown or the Stop hanging.                        *)
EveryJobEnds == \A j \in JobIds : Active(j) ~> status[j] \in Terminal

-----------------------------------------------------------------------------
(* The countdown keeps the promise of CancellationPoint: its job is          *)
(* committed once the Stop is handed to systemd.                             *)
Cancellation == INSTANCE CancellationPoint WITH
  Jobs <- JobIds,
  accepted <- {j \in JobIds : cancel[j]},
  committed <- {j \in JobIds : kind[j] = ASSISTED /\ delayed[j] /\ <<j, "stop">> \in attempted}

(* Refinement: acceptance and the Stop exclude each other in every order.    *)
ImplementsCancellation == Cancellation!Spec
=============================================================================
