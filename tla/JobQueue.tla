------------------------------ MODULE JobQueue ------------------------------
(***************************************************************************)
(* The persistent job queue shared by the web process and the worker:      *)
(* requests, the partial unique index on active coordination keys, the     *)
(* atomic claim with the GLOBAL maintenance lock, the worker lease, and the *)
(* recovery of the jobs a dead worker left RUNNING.  What an executor does  *)
(* between the claim and its last transaction is left to other modules.     *)
(***************************************************************************)
EXTENDS JobKinds, FiniteSets

CONSTANTS
  Workers,           \* worker identities, "hostname:pid"
  NoWorker,          \* the heartbeat row does not exist
  Requests,          \* request-handling threads of the web process
  OfferedKinds,      \* job kinds requested in this instance
  MaxJobs,           \* bound: rows ever inserted in jobs
  MaxRestarts,       \* bound: crashes and orderly exits of workers
  MaxDbFaults,       \* bound: failed writes at the end of a job
  TimelyHeartbeats   \* a live worker renews its lease within 30 seconds

ASSUME QueueAssumption ==
  /\ NoWorker \notin Workers
  /\ OfferedKinds \subseteq JobKind
  /\ MaxJobs \in Nat
  /\ MaxRestarts \in Nat
  /\ MaxDbFaults \in Nat
  /\ TimelyHeartbeats \in BOOLEAN

JobIds == 1..MaxJobs
NoJob == 0
NoRequest == <<>>

Terminal == {"SUCCEEDED", "FAILED", "CANCELLED", "INTERRUPTED"}
Status == {"ABSENT", "PENDING", "RUNNING"} \cup Terminal

VARIABLES
  status,    \* jobs.status by id; ABSENT before the row exists
  kind,      \* jobs.kind, meaningful once the row exists
  key,       \* jobs.coordination_key, meaningful once the row exists
  lastId,    \* highest job id inserted; ids follow created_at
  request,   \* what each web thread decided to insert, or NoRequest
  lock,      \* job_id of the GLOBAL row of maintenance_locks, or NoJob
  holder,    \* worker_id of the PRIMARY heartbeat row, or NoWorker
  fresh,     \* that row's heartbeat is less than 30 seconds old
  proc,      \* where each worker process is
  current,   \* the job each worker is executing, or NoJob
  restarts,  \* crashes and exits so far
  dbFaults   \* failed job-ending writes so far

jobVars    == <<status, kind, key, lastId>>
leaseVars  == <<holder, fresh>>
procVars   == <<proc, current>>
faultVars  == <<restarts, dbFaults>>
vars == <<status, kind, key, lastId, request, lock, holder, fresh, proc,
          current, restarts, dbFaults>>

Active(j) == status[j] \in {"PENDING", "RUNNING"}

Init ==
  /\ status = [j \in JobIds |-> "ABSENT"]
  /\ kind = [j \in JobIds |-> "LOCAL_BACKUP"]
  /\ key = [j \in JobIds |-> Lifecycle]
  /\ lastId = 0
  /\ request = [c \in Requests |-> NoRequest]
  /\ lock = NoJob
  /\ holder = NoWorker
  /\ fresh = FALSE
  /\ proc = [w \in Workers |-> "off"]
  /\ current = [w \in Workers |-> NoJob]
  /\ restarts = 0
  /\ dbFaults = 0

-----------------------------------------------------------------------------
(* The web process.  A handler first SELECTs the active jobs that refuse    *)
(* it and then INSERTs; no write transaction is open in between.            *)

PreCheck(c) ==
  /\ request[c] = NoRequest
  /\ lastId < MaxJobs
  /\ \E k \in OfferedKinds : \E x \in CoordinationKeys(k) :
       /\ ~\E j \in JobIds : Active(j) /\ Refuses(k, x, kind[j], key[j])
       /\ request' = [request EXCEPT ![c] = <<k, x>>]
  /\ UNCHANGED <<jobVars, lock, leaseVars, procVars, faultVars>>

(* Mutant of IndexFree: the partial index covers RUNNING rows only.          *)
IndexFreeOfRunning(x) == ~\E j \in JobIds : status[j] = "RUNNING" /\ key[j] = x

(* The unique index on active keys is what the INSERT is checked against.   *)
IndexFree(x) == ~\E j \in JobIds : Active(j) /\ key[j] = x

Insert(c) ==
  /\ request[c] # NoRequest
  /\ lastId < MaxJobs
  /\ IndexFree(request[c][2])
  /\ lastId' = lastId + 1
  /\ status' = [status EXCEPT ![lastId'] = "PENDING"]
  /\ kind' = [kind EXCEPT ![lastId'] = request[c][1]]
  /\ key' = [key EXCEPT ![lastId'] = request[c][2]]
  /\ request' = [request EXCEPT ![c] = NoRequest]
  /\ UNCHANGED <<lock, leaseVars, procVars, faultVars>>

Conflict(c) ==
  /\ request[c] # NoRequest
  /\ ~IndexFree(request[c][2])
  /\ request' = [request EXCEPT ![c] = NoRequest]
  /\ UNCHANGED <<jobVars, lock, leaseVars, procVars, faultVars>>

(* A cancel request that meets the job still PENDING, in one UPDATE.        *)
Withdraw(j) ==
  /\ status[j] = "PENDING"
  /\ kind[j] \in WithdrawableKinds
  /\ status' = [status EXCEPT ![j] = "CANCELLED"]
  /\ UNCHANGED <<kind, key, lastId, request, lock, leaseVars, procVars, faultVars>>

-----------------------------------------------------------------------------
(* The worker lease. *)

(* Mutant of Start: the identity in the heartbeat row is not looked at.      *)
StartWithoutLease(w) ==
  /\ proc[w] = "off"
  /\ holder' = w
  /\ fresh' = TRUE
  /\ proc' = [proc EXCEPT ![w] = "recovering"]
  /\ UNCHANGED <<jobVars, request, lock, current, faultVars>>

Start(w) ==
  /\ proc[w] = "off"
  /\ holder \in {NoWorker, w} \/ ~fresh
  /\ holder' = w
  /\ fresh' = TRUE
  /\ proc' = [proc EXCEPT ![w] = "recovering"]
  /\ UNCHANGED <<jobVars, request, lock, current, faultVars>>

(* The heartbeat thread only renews a row that still carries its identity.  *)
Beat(w) ==
  /\ proc[w] # "off"
  /\ holder = w
  /\ ~fresh
  /\ fresh' = TRUE
  /\ UNCHANGED <<jobVars, request, lock, holder, procVars, faultVars>>

(* Thirty seconds pass without a heartbeat.                                 *)
LeaseExpires ==
  /\ fresh
  /\ TimelyHeartbeats => proc[holder] = "off"
  /\ fresh' = FALSE
  /\ UNCHANGED <<jobVars, request, lock, holder, procVars, faultVars>>

ReleaseLease(w) ==
  /\ holder' = IF holder = w THEN NoWorker ELSE holder
  /\ fresh' = (fresh /\ holder # w)

-----------------------------------------------------------------------------
(* The worker loop. *)

(* Mutant of FreedLock: the lock of a terminal job is never deleted.         *)
KeptLock(st) == lock

FreedLock(st) == IF lock # NoJob /\ st[lock] \in Terminal THEN NoJob ELSE lock

(* Mutants of Recovered: interrupted jobs go back to the queue; only the job *)
(* that owns the lock is looked at.                                          *)
Requeued == [j \in JobIds |-> IF status[j] = "RUNNING" THEN "PENDING" ELSE status[j]]

RecoveredOwner ==
  [j \in JobIds |-> IF status[j] = "RUNNING" /\ lock = j THEN "INTERRUPTED" ELSE status[j]]

Recovered == [j \in JobIds |-> IF status[j] = "RUNNING" THEN "INTERRUPTED" ELSE status[j]]

Recover(w) ==
  /\ proc[w] = "recovering"
  /\ status' = Recovered
  /\ lock' = FreedLock(Recovered)
  /\ proc' = [proc EXCEPT ![w] = "idle"]
  /\ UNCHANGED <<kind, key, lastId, request, leaseVars, current, faultVars>>

Claimable(free) ==
  {j \in JobIds : /\ status[j] = "PENDING"
                  /\ RequiresMaintenanceLock(kind[j]) => free = NoJob}

Oldest(S) == {j \in S : \A i \in S : j <= i}

(* Mutant of Claim: the maintenance lock is not inserted with the claim.     *)
ClaimWithoutLock(w) ==
  /\ proc[w] = "idle"
  /\ LET free == FreedLock(status)
     IN \E j \in Oldest(Claimable(free)) :
          /\ status' = [status EXCEPT ![j] = "RUNNING"]
          /\ lock' = free
          /\ proc' = [proc EXCEPT ![w] = "executing"]
          /\ current' = [current EXCEPT ![w] = j]
  /\ UNCHANGED <<kind, key, lastId, request, leaseVars, faultVars>>

Claim(w) ==
  /\ proc[w] = "idle"
  /\ LET free == FreedLock(status)
     IN \E j \in Oldest(Claimable(free)) :
          /\ status' = [status EXCEPT ![j] = "RUNNING"]
          /\ lock' = IF RequiresMaintenanceLock(kind[j]) THEN j ELSE free
          /\ proc' = [proc EXCEPT ![w] = "executing"]
          /\ current' = [current EXCEPT ![w] = j]
  /\ UNCHANGED <<kind, key, lastId, request, leaseVars, faultVars>>

(* A poll that finds no job still deletes the lock of a terminal one.       *)
PollEmpty(w) ==
  /\ proc[w] = "idle"
  /\ Claimable(FreedLock(status)) = {}
  /\ FreedLock(status) # lock
  /\ lock' = FreedLock(status)
  /\ UNCHANGED <<jobVars, request, leaseVars, procVars, faultVars>>

(* The executor's last transaction writes the outcome whatever the row      *)
(* holds by then.  After a success the update executor still has a line of   *)
(* the job log to note, inside the try that records a failure.               *)
Outcomes(k) ==
  {"SUCCEEDED", "FAILED"} \cup IF k \in CancellableKinds THEN {"CANCELLED"} ELSE {}

Settle(w) ==
  /\ proc[w] = "executing"
  /\ \E o \in Outcomes(kind[current[w]]) :
       /\ status' = [status EXCEPT ![current[w]] = o]
       /\ proc' = [proc EXCEPT ![w] = IF kind[current[w]] \in UpdateKinds /\ o = "SUCCEEDED"
                                      THEN "noting" ELSE "settled"]
  /\ UNCHANGED <<kind, key, lastId, request, lock, leaseVars, current, faultVars>>

Note(w) ==
  /\ proc[w] = "noting"
  /\ proc' = [proc EXCEPT ![w] = "settled"]
  /\ UNCHANGED <<jobVars, request, lock, leaseVars, current, faultVars>>

ReleaseLock(w) == lock' = IF lock = current[w] THEN NoJob ELSE lock

Release(w) ==
  /\ proc[w] = "settled"
  /\ ReleaseLock(w)
  /\ proc' = [proc EXCEPT ![w] = "idle"]
  /\ current' = [current EXCEPT ![w] = NoJob]
  /\ UNCHANGED <<jobVars, request, leaseVars, faultVars>>

-----------------------------------------------------------------------------
(* Failures. *)

DbFault ==
  /\ dbFaults < MaxDbFaults
  /\ dbFaults' = dbFaults + 1

(* The session that looks up the log fails, and the job that has succeeded   *)
(* is recorded as failed.                                                   *)
NoteFails(w) ==
  /\ proc[w] = "noting"
  /\ DbFault
  /\ status' = [status EXCEPT ![current[w]] = "FAILED"]
  /\ proc' = [proc EXCEPT ![w] = "settled"]
  /\ UNCHANGED <<kind, key, lastId, request, lock, leaseVars, current, restarts>>

(* The write of the outcome fails.  The exception is swallowed for a kind   *)
(* that records its own failure, and the job stays RUNNING without lock.    *)
Strand(w) ==
  /\ proc[w] = "executing"
  /\ kind[current[w]] \in SelfFailingKinds
  /\ DbFault
  /\ ReleaseLock(w)
  /\ proc' = [proc EXCEPT ![w] = "idle"]
  /\ current' = [current EXCEPT ![w] = NoJob]
  /\ UNCHANGED <<jobVars, request, leaseVars, restarts>>

(* For the other kinds the second failure leaves process_next and ends the  *)
(* process, which frees the lease on its way out, and the lock unless its    *)
(* delete in the finally clause fails as well; that ends any kind.           *)
Abort(w) ==
  /\ proc[w] = "executing"
  /\ DbFault
  /\ \/ kind[current[w]] \notin SelfFailingKinds /\ ReleaseLock(w)
     \/ UNCHANGED lock
  /\ ReleaseLease(w)
  /\ proc' = [proc EXCEPT ![w] = "off"]
  /\ current' = [current EXCEPT ![w] = NoJob]
  /\ UNCHANGED <<jobVars, request, restarts>>

(* After the outcome: reading it back for the log fails, or the delete of    *)
(* the lock does.                                                           *)
ReleaseFails(w) ==
  /\ proc[w] = "settled"
  /\ DbFault
  /\ ReleaseLock(w) \/ UNCHANGED lock
  /\ ReleaseLease(w)
  /\ proc' = [proc EXCEPT ![w] = "off"]
  /\ current' = [current EXCEPT ![w] = NoJob]
  /\ UNCHANGED <<jobVars, request, restarts>>

Restart ==
  /\ restarts < MaxRestarts
  /\ restarts' = restarts + 1

(* SIGTERM seen between two jobs, or an exception outside a job.            *)
Exit(w) ==
  /\ proc[w] \in {"recovering", "idle"}
  /\ Restart
  /\ ReleaseLease(w)
  /\ proc' = [proc EXCEPT ![w] = "off"]
  /\ UNCHANGED <<jobVars, request, lock, current, dbFaults>>

(* SIGKILL, power loss: the rows stay as they are.                          *)
Crash(w) ==
  /\ proc[w] # "off"
  /\ Restart
  /\ proc' = [proc EXCEPT ![w] = "off"]
  /\ current' = [current EXCEPT ![w] = NoJob]
  /\ UNCHANGED <<jobVars, request, lock, leaseVars, dbFaults>>

-----------------------------------------------------------------------------
Web == (\E c \in Requests : PreCheck(c) \/ Insert(c) \/ Conflict(c))
         \/ \E j \in JobIds : Withdraw(j)

Work(w) == Recover(w) \/ Claim(w) \/ PollEmpty(w) \/ Settle(w) \/ Note(w)
             \/ Release(w)

Leave(w) == Strand(w) \/ Abort(w) \/ ReleaseFails(w) \/ Exit(w) \/ Crash(w)

Fail(w) == NoteFails(w) \/ Leave(w)

Next ==
  \/ Web
  \/ LeaseExpires
  \/ \E w \in Workers : Start(w) \/ Beat(w) \/ Work(w) \/ Fail(w)

(* systemd starts the worker again after a failure, time passes, and a      *)
(* running worker keeps polling; nothing obliges the web to send requests.  *)
Fairness ==
  /\ WF_vars(\E w \in Workers : Start(w))
  /\ WF_vars(LeaseExpires)
  /\ \A w \in Workers : WF_vars(Work(w))

Spec == Init /\ [][Next]_vars
FairSpec == Spec /\ Fairness
-----------------------------------------------------------------------------
(* Every variable has its type: rows, lock, lease and processes of the queue. *)
TypeOK ==
  /\ status \in [JobIds -> Status]
  /\ kind \in [JobIds -> JobKind]
  /\ key \in [JobIds -> CoordinationKey]
  /\ lastId \in 0..MaxJobs
  /\ request \in [Requests -> {NoRequest} \cup (JobKind \X CoordinationKey)]
  /\ lock \in JobIds \cup {NoJob}
  /\ holder \in Workers \cup {NoWorker}
  /\ fresh \in BOOLEAN
  /\ proc \in [Workers -> {"off", "recovering", "idle", "executing", "noting", "settled"}]
  /\ current \in [Workers -> JobIds \cup {NoJob}]
  /\ restarts \in 0..MaxRestarts
  /\ dbFaults \in 0..MaxDbFaults

Executing(w, j) == proc[w] = "executing" /\ current[w] = j

(* No two active jobs carry the same coordination key, although the handler  *)
(* that inserts a job looked for a conflict in an earlier transaction.       *)
UniqueActiveKey ==
  \A i, j \in JobIds : Active(i) /\ Active(j) /\ key[i] = key[j] => i = j

(* A worker inside a job that needs the maintenance lock owns the GLOBAL row, *)
(* so two such jobs are never in their executors together.                   *)
LockGuardsExecution ==
  \A w \in Workers : \A j \in JobIds :
    Executing(w, j) /\ RequiresMaintenanceLock(kind[j]) => lock = j

(* With nothing to execute and no failed write behind it, the worker has no  *)
(* job left RUNNING and the maintenance lock is free: what an earlier process *)
(* left behind was found by the recovery.                                    *)
NothingLeftBehind ==
  \A w \in Workers :
    proc[w] = "idle" /\ dbFaults = 0 =>
      lock = NoJob /\ \A j \in JobIds : status[j] # "RUNNING"

(* A job leaves PENDING once: it never returns to the queue, and a worker    *)
(* only takes up a job that was PENDING, so no job is executed twice.        *)
ExecutedAtMostOnce ==
  [][\A j \in JobIds :
       status[j] \notin {"ABSENT", "PENDING"} =>
         /\ status'[j] \notin {"ABSENT", "PENDING"}
         /\ \A w \in Workers : Executing(w, j)' => Executing(w, j)]_vars

(* The worker that recorded the success of an update job has its log to note. *)
InNote(j) ==
  kind[j] \in UpdateKinds /\ \E w \in Workers : proc[w] = "noting" /\ current[w] = j

(* A recorded outcome is final; in particular nothing overwrites the          *)
(* INTERRUPTED that asks for a manual review.  The one change is that of an   *)
(* update or update check by its own worker, which turns a success into a     *)
(* failure when the log cannot be noted after it.                            *)
OutcomeIsFinal ==
  [][\A j \in JobIds :
       status[j] \in Terminal /\ status'[j] # status[j] =>
         status[j] = "SUCCEEDED" /\ status'[j] = "FAILED" /\ InNote(j)]_vars

(* Every queued job is taken up or withdrawn in the end, whatever crash left *)
(* the maintenance lock behind.                                              *)
PendingIsServed ==
  \A j \in JobIds : status[j] = "PENDING" ~> status[j] # "PENDING"

(* Still RUNNING although a worker that has recovered looks for other work:   *)
(* what Strand makes of a job, until the next restart.                       *)
Stranded(j) ==
  /\ status[j] = "RUNNING" /\ kind[j] \in SelfFailingKinds /\ dbFaults > 0
  /\ \E w \in Workers : proc[w] = "idle"

(* Every job taken up gets an outcome, from its executor or from recovery,    *)
(* unless the write of its outcome failed.                                   *)
RunningIsResolved ==
  \A j \in JobIds : status[j] = "RUNNING" ~> status[j] \in Terminal \/ Stranded(j)

-----------------------------------------------------------------------------
(* The queue implements JobExecution: a RUNNING row counts as executing only *)
(* while some process is in its executor.                                    *)
PhaseOf(j) ==
  CASE status[j] = "ABSENT"   -> "absent"
    [] status[j] = "PENDING"  -> "waiting"
    [] status[j] \in Terminal -> "done"
    [] status[j] = "RUNNING" /\ (\E w \in Workers : Executing(w, j)) -> "executing"
    [] OTHER -> "lost"

Execution == INSTANCE JobExecution WITH
  Jobs <- JobIds,
  phase <- [j \in JobIds |-> PhaseOf(j)],
  exclusive <- {j \in JobIds : status[j] # "ABSENT" /\ RequiresMaintenanceLock(kind[j])}

(* Refinement: at most one execution of each job, none resumed, exclusive    *)
(* jobs one at a time.                                                       *)
ImplementsExecution == Execution!Spec
=============================================================================
