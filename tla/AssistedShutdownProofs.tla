------------------------ MODULE AssistedShutdownProofs ------------------------
(***************************************************************************)
(* Theorems of AssistedShutdown for every number of jobs, every length of    *)
(* the countdown and any number of faults: announcements, the escalation to   *)
(* signals, and the refinement of CancellationPoint.                         *)
(***************************************************************************)
EXTENDS AssistedShutdown, TLAPS

Executing == {"consult", "countdown", "warn", "command", "await", "complete"}

(* The columns and the place of the worker; the rest needs no type.          *)
RowTyped ==
  /\ status \in [JobIds -> Status]
  /\ kind \in [JobIds -> JobKind]
  /\ cancellable \in [JobIds -> BOOLEAN]
  /\ cancel \in [JobIds -> BOOLEAN]
  /\ failure \in [JobIds -> Failure]
  /\ source \in [JobIds -> JobIds \cup {NoJob}]
  /\ delayed \in [JobIds -> BOOLEAN]
  /\ lastId \in 0..MaxJobs
  /\ step \in Executing \cup {"idle", "down"}
  /\ current \in JobIds \cup {NoJob}
  /\ step = "complete" => outcome[1] \in Terminal /\ outcome[2] \in Failure

(* Rows get their ids in order, and only the worker's own job is RUNNING      *)
(* unless the worker is down.                                                *)
RowInv ==
  /\ \A j \in JobIds : status[j] = "ABSENT" <=> j > lastId
  /\ \A j \in JobIds : status[j] = "RUNNING" => j = current \/ step = "down"
  /\ step \in Executing => current \in JobIds /\ status[current] = "RUNNING"
  /\ step \in {"consult", "countdown", "warn"} => kind[current] = ASSISTED
  /\ step \notin Executing => current = NoJob

(* Nothing was sent or announced for a job nobody has taken up, and nothing   *)
(* but the command of its kind was sent for any other.                       *)
SentInv ==
  /\ \A j \in JobIds : status[j] \in {"ABSENT", "PENDING"} =>
       /\ \A c \in {"stop", "SIGTERM", "SIGKILL"} : <<j, c>> \notin attempted
       /\ \A n \in {"initial", "final", "cancelled"} : <<j, n>> \notin notices
  /\ \A j \in JobIds, c \in {"stop", "SIGTERM", "SIGKILL"} :
       <<j, c>> \in attempted => c = CommandOf(kind[j])
  /\ step \in {"consult", "countdown", "warn", "command"} =>
       <<current, CommandOf(kind[current])>> \notin attempted

(* The promise of a final warning, by the place of the worker.               *)
NoticeInv ==
  /\ step = "consult" => <<current, "initial">> \notin notices
  /\ step \in {"countdown", "warn"} /\ <<current, "initial">> \in notices => players
  /\ step = "command" /\ <<current, "initial">> \in notices => <<current, "final">> \in notices
  /\ StopIsAnnounced

(* A signal job has the failure it was requested for; a failed Stop of an     *)
(* assisted shutdown had been asked for.                                     *)
ForcedInv ==
  /\ \A j \in JobIds :
       status[j] # "ABSENT" /\ kind[j] \in {TERM, KILL} =>
         /\ source[j] \in JobIds
         /\ kind[j] = TERM => AdmitsTerm(source[j])
         /\ kind[j] = KILL => AdmitsKill(source[j])
  /\ \A j \in JobIds :
       status[j] = "FAILED" /\ failure[j] = "stop_failed" => <<j, "stop">> \in attempted
  /\ step = "await" => <<current, CommandOf(kind[current])>> \in attempted
  /\ step = "complete" /\ outcome[2] = "stop_failed" => <<current, "stop">> \in attempted

(* The cancellation point is closed and was not used, from its UPDATE on.    *)
ClosedInv ==
  /\ \A j \in JobIds : cancellable[j] => kind[j] = ASSISTED
  /\ step \in {"warn", "command", "await"} /\ kind[current] = ASSISTED =>
       ~cancellable[current] /\ ~cancel[current]
  /\ \A j \in JobIds :
       kind[j] = ASSISTED /\ <<j, "stop">> \in attempted => ~cancellable[j] /\ ~cancel[j]

IInv == RowTyped /\ RowInv /\ SentInv /\ NoticeInv /\ ForcedInv /\ ClosedInv
-----------------------------------------------------------------------------
(* Rows. *)

LEMMA InitRow == Init => RowTyped /\ RowInv
<1> SUFFICES ASSUME Init PROVE RowTyped /\ RowInv
  OBVIOUS
<1>1. RowTyped
  BY ShutdownAssumption DEF Init, RowTyped, Status, JobKind, Failure
<1> QED
  BY <1>1 DEF Init, RowInv, JobIds, Executing

(* Job ids are positive, so NoJob is none of them.                           *)
LEMMA JobIdsArePositive == NoJob \notin JobIds
BY ShutdownAssumption DEF JobIds, NoJob

(* An INSERT takes the next id and finds no active job.                      *)
LEMMA EnqueueRow ==
  ASSUME RowTyped, RowInv, NEW k \in JobKind, NEW w \in BOOLEAN,
         NEW src \in JobIds \cup {NoJob}, Enqueue(k, w, src)
  PROVE  RowTyped' /\ RowInv'
<1>1. lastId' = lastId + 1 /\ lastId' \in JobIds /\ lastId' \in 0..MaxJobs
  BY ShutdownAssumption DEF Enqueue, RowTyped, JobIds
<1>2. RowTyped'
  BY <1>1 DEF Enqueue, RowTyped, Status, workVars
<1>3. current # lastId'
  BY <1>1, ShutdownAssumption DEF RowTyped, RowInv, Enqueue, JobIds, NoJob, Executing
<1> QED
  BY <1>1, <1>2, <1>3, ShutdownAssumption
     DEF Enqueue, RowInv, RowTyped, JobIds, workVars, Executing

LEMMA StepRow == RowTyped /\ RowInv /\ [Next]_vars => RowTyped' /\ RowInv'
<1> SUFFICES ASSUME RowTyped, RowInv, [Next]_vars PROVE RowTyped' /\ RowInv'
  OBVIOUS
<1> USE DEF rowVars, workVars, worldVars, Executing
<1>1. CASE RequestStop \/ RequestAssisted \/ RequestForced
  BY <1>1, EnqueueRow DEF RequestStop, RequestAssisted, RequestForced, JobKind
<1>2. ASSUME NEW j \in JobIds, RequestCancel(j) \/ RequestNow(j) PROVE RowTyped' /\ RowInv'
  <2>1. CASE RequestCancel(j) /\ status[j] = "PENDING"
    <3>1. j # current
      BY <2>1, JobIdsArePositive DEF RowInv
    <3>2. UNCHANGED <<kind, lastId, step, current>> /\ j \in JobIds
          /\ status' = [status EXCEPT ![j] = "CANCELLED"]
      BY <2>1 DEF RequestCancel
    <3>3. RowTyped'
      BY <2>1, <3>2 DEF RequestCancel, RowTyped, Status, Terminal
    <3>4. \A i \in JobIds : i # j => status'[i] = status[i]
      BY <3>2 DEF RowTyped
    <3>5. status'[j] = "CANCELLED"
      BY <3>2 DEF RowTyped
    <3>6. RowInv'
      BY <2>1, <3>1, <3>2, <3>4, <3>5 DEF RowInv
    <3> QED BY <3>3, <3>6
  <2>2. CASE RequestCancel(j) /\ status[j] # "PENDING"
    BY <2>2 DEF RequestCancel, RowTyped, RowInv
  <2>3. CASE RequestNow(j)
    BY <2>3 DEF RequestNow, RowTyped, RowInv
  <2> QED
    BY <1>2, <2>1, <2>2, <2>3
<1>3. CASE Claim
  <2> PICK j \in JobIds :
          /\ status[j] = "PENDING"
          /\ status' = [status EXCEPT ![j] = "RUNNING"]
          /\ current' = j
          /\ step' = IF kind[j] = ASSISTED THEN "consult" ELSE "command"
    BY <1>3 DEF Claim
  <2> QED
    BY <1>3, JobIdsArePositive DEF Claim, RowTyped, RowInv, Status
<1>4. CASE Consult
  BY <1>4 DEF Consult, Go, Return, RowTyped, RowInv, Terminal, Failure
<1>5. CASE Tick
  BY <1>5 DEF Tick, TickCancel, TickOn, Return, RowTyped, RowInv, Terminal, Failure
<1>6. CASE MarkIrreversible
  <2>1. CASE cancel[current]
    BY <1>6, <2>1 DEF MarkIrreversible, Return, RowTyped, RowInv, Terminal, Failure
  <2>2. CASE ~cancel[current]
    BY <1>6, <2>2 DEF MarkIrreversible, Go, RowTyped, RowInv
  <2> QED
    BY <2>1, <2>2
<1>7. CASE FinalWarning
  BY <1>7 DEF FinalWarning, Go, Return, RowTyped, RowInv, Terminal, Failure
<1>8. CASE Command
  BY <1>8 DEF Command, FailureOf, Go, Return, RowTyped, RowInv, Terminal, Failure
<1>9. CASE Await
  <2>1. CASE up
    BY <1>9, <2>1 DEF Await, FailureOf, Return, RowTyped, RowInv, Terminal, Failure
  <2>2. CASE ~up
    BY <1>9, <2>2 DEF Await, Return, RowTyped, RowInv, Terminal, Failure
  <2> QED
    BY <2>1, <2>2
<1>10. CASE Complete
  BY <1>10 DEF Complete, RowTyped, RowInv, Status, Terminal
<1>11. CASE Recover
  BY <1>11 DEF Recover, RowTyped, RowInv, Status, Terminal
<1>12. CASE Raise
  BY <1>12 DEF Raise, Return, RowTyped, RowInv, Terminal, Failure
<1>13. CASE Crash
  BY <1>13 DEF Crash, RowTyped, RowInv
<1>14. CASE ServerChanges \/ UNCHANGED vars
  BY <1>14 DEF ServerChanges, RowTyped, RowInv, vars
<1> QED
  BY <1>1, <1>2, <1>3, <1>4, <1>5, <1>6, <1>7, <1>8, <1>9, <1>10, <1>11, <1>12, <1>13, <1>14
     DEF Next, Web, Worker, Executor

-----------------------------------------------------------------------------
(* Commands and announcements. *)

(* What the steps of the web process leave as it is: every job taken up.     *)
LEMMA WebKeepsRows ==
  ASSUME RowTyped, RowInv, Web
  PROVE  /\ \A j \in JobIds : status[j] \notin {"ABSENT", "PENDING"} =>
              /\ status'[j] = status[j] /\ kind'[j] = kind[j] /\ source'[j] = source[j]
              /\ failure'[j] = failure[j]
         /\ \A j \in JobIds : status[j] # "ABSENT" => status'[j] # "ABSENT" /\ kind'[j] = kind[j]
         /\ UNCHANGED <<workVars, worldVars>>
<1> USE DEF workVars, worldVars
<1>1. ASSUME NEW k, NEW w, NEW src, Enqueue(k, w, src)
      PROVE  /\ \A j \in JobIds : status[j] # "ABSENT" =>
                  /\ status'[j] = status[j] /\ kind'[j] = kind[j] /\ source'[j] = source[j]
                  /\ failure'[j] = failure[j]
             /\ UNCHANGED <<workVars, worldVars>>
  <2>1. lastId + 1 \in JobIds /\ status[lastId + 1] = "ABSENT"
    BY <1>1, ShutdownAssumption DEF Enqueue, RowTyped, RowInv, JobIds
  <2> QED
    BY <1>1, <2>1 DEF Enqueue, RowTyped
<1>2. CASE RequestStop \/ RequestAssisted \/ RequestForced
  BY <1>1, <1>2 DEF RequestStop, RequestAssisted, RequestForced
<1>3. ASSUME NEW j \in JobIds, RequestCancel(j) \/ RequestNow(j)
      PROVE  /\ \A i \in JobIds : status[i] \notin {"ABSENT", "PENDING"} => status'[i] = status[i]
             /\ \A i \in JobIds : status[i] # "ABSENT" => status'[i] # "ABSENT"
             /\ UNCHANGED <<kind, source, failure, workVars, worldVars>>
  BY <1>3 DEF RequestCancel, RequestNow, RowTyped
<1> QED
  BY <1>2, <1>3 DEF Web

LEMMA InitIInv == Init => IInv
<1> SUFFICES ASSUME Init PROVE IInv
  OBVIOUS
<1>1. RowTyped /\ RowInv
  BY InitRow
<1>2. SentInv /\ NoticeInv /\ ForcedInv
  BY DEF Init, SentInv, NoticeInv, StopIsAnnounced, ForcedInv
<1>3. ClosedInv
  BY DEF Init, ClosedInv
<1> QED
  BY <1>1, <1>2, <1>3 DEF IInv

(* Only Command hands something to systemd, and only Consult, FinalWarning    *)
(* and a cancelled countdown announce.                                       *)
LEMMA StepSent ==
  RowTyped /\ RowInv /\ SentInv /\ [Next]_vars => SentInv'
<1> SUFFICES ASSUME RowTyped, RowInv, SentInv, [Next]_vars PROVE SentInv'
  OBVIOUS
<1> USE DEF rowVars, workVars, worldVars
<1>1. CASE Web
  BY <1>1, WebKeepsRows DEF SentInv, RowInv, Executing, CommandOf
<1>2. CASE Claim
  <2> PICK j \in JobIds :
          /\ status[j] = "PENDING"
          /\ status' = [status EXCEPT ![j] = "RUNNING"]
          /\ current' = j
    BY <1>2 DEF Claim
  <2>1. <<j, CommandOf(kind[j])>> \notin attempted
    BY DEF SentInv, CommandOf
  <2> QED
    BY <1>2, <2>1 DEF Claim, RowTyped, SentInv
<1>3. CASE Consult
  BY <1>3 DEF Consult, Go, Return, RowInv, SentInv, Executing
<1>4. CASE Tick
  BY <1>4 DEF Tick, TickCancel, TickOn, Return, RowInv, SentInv, Executing
<1>5. CASE MarkIrreversible
  <2>1. UNCHANGED <<status, kind, attempted, notices, current>> /\ step' \in {"warn", "complete"}
    BY <1>5 DEF MarkIrreversible, Go, Return
  <2> QED
    BY <1>5, <2>1 DEF MarkIrreversible, SentInv
<1>6. CASE FinalWarning
  BY <1>6 DEF FinalWarning, Go, Return, RowInv, SentInv, Executing
<1>7. CASE Command
  <2>1. status[current] = "RUNNING"
    BY <1>7 DEF Command, RowInv, Executing
  <2> QED
    BY <1>7, <2>1 DEF Command, Go, Return, SentInv
<1>8. CASE Await \/ Raise \/ Crash \/ ServerChanges \/ UNCHANGED vars
  BY <1>8 DEF Await, Raise, Crash, ServerChanges, Return, SentInv, vars
<1>9. CASE Complete
  BY <1>9 DEF Complete, RowTyped, SentInv, Terminal
<1>10. CASE Recover
  BY <1>10 DEF Recover, RowTyped, SentInv
<1> QED
  BY <1>1, <1>2, <1>3, <1>4, <1>5, <1>6, <1>7, <1>8, <1>9, <1>10 DEF Next, Worker, Executor

LEMMA StepNotice ==
  RowTyped /\ RowInv /\ SentInv /\ NoticeInv /\ [Next]_vars => NoticeInv'
<1> SUFFICES ASSUME RowTyped, RowInv, SentInv, NoticeInv, [Next]_vars PROVE NoticeInv'
  OBVIOUS
<1> USE DEF rowVars, workVars, worldVars, StopIsAnnounced
<1>1. CASE Web
  BY <1>1, WebKeepsRows DEF NoticeInv
<1>2. CASE Claim
  BY <1>2 DEF Claim, SentInv, NoticeInv
<1>3. CASE Consult
  <2>1. <<current, "stop">> \notin attempted
    BY <1>3 DEF Consult, RowInv, SentInv, CommandOf, ASSISTED, TERM, KILL
  <2> QED
    BY <1>3, <2>1 DEF Consult, Go, Return, NoticeInv
<1>4. CASE Tick
  BY <1>4 DEF Tick, TickCancel, TickOn, Return, NoticeInv
<1>5. CASE MarkIrreversible
  <2>1. UNCHANGED <<players, attempted, notices, current>> /\ step' \in {"warn", "complete"}
    BY <1>5 DEF MarkIrreversible, Go, Return
  <2> QED
    BY <1>5, <2>1 DEF MarkIrreversible, NoticeInv
<1>6. CASE FinalWarning
  BY <1>6 DEF FinalWarning, Go, Return, NoticeInv
<1>7. CASE Command
  BY <1>7 DEF Command, Go, Return, NoticeInv, CommandOf
<1>8. CASE Await \/ Raise \/ Crash \/ ServerChanges \/ UNCHANGED vars
  BY <1>8 DEF Await, Raise, Crash, ServerChanges, Return, NoticeInv, vars
<1>9. CASE Complete \/ Recover
  BY <1>9 DEF Complete, Recover, NoticeInv
<1> QED
  BY <1>1, <1>2, <1>3, <1>4, <1>5, <1>6, <1>7, <1>8, <1>9 DEF Next, Worker, Executor

-----------------------------------------------------------------------------
(* The failures behind a signal. *)

(* An INSERT with a failure that admits it, or of a kind that needs none.    *)
LEMMA EnqueueForced ==
  ASSUME RowTyped, RowInv, ForcedInv, NEW k \in JobKind, NEW w \in BOOLEAN,
         NEW src \in JobIds \cup {NoJob}, Enqueue(k, w, src),
         k \in {TERM, KILL} => src \in JobIds,
         k = TERM => AdmitsTerm(src), k = KILL => AdmitsKill(src)
  PROVE  ForcedInv'
<1> USE DEF workVars, worldVars
<1>1. lastId + 1 \in JobIds /\ status[lastId + 1] = "ABSENT"
  BY ShutdownAssumption DEF Enqueue, RowTyped, RowInv, JobIds
<1>2. \A j \in JobIds \ {lastId + 1} :
        /\ status'[j] = status[j] /\ kind'[j] = kind[j] /\ source'[j] = source[j]
        /\ failure'[j] = failure[j]
  BY DEF Enqueue, RowTyped
<1>3. \A j \in JobIds : /\ AdmitsTerm(j) => AdmitsTerm(j)'
                        /\ AdmitsKill(j) => AdmitsKill(j)'
  BY <1>1, <1>2 DEF AdmitsTerm, AdmitsKill
<1>4. /\ status'[lastId + 1] = "PENDING" /\ kind'[lastId + 1] = k
      /\ source'[lastId + 1] = src
  BY <1>1 DEF Enqueue, RowTyped
<1>5. \A j \in JobIds :
        status'[j] # "ABSENT" /\ kind'[j] \in {TERM, KILL} =>
          /\ source'[j] \in JobIds
          /\ kind'[j] = TERM => AdmitsTerm(source[j])'
          /\ kind'[j] = KILL => AdmitsKill(source[j])'
  <2> TAKE j \in JobIds
  <2>1. CASE j = lastId + 1
    BY <1>3, <1>4, <2>1
  <2>2. CASE j # lastId + 1
    BY <1>2, <1>3, <2>2 DEF ForcedInv
  <2> QED
    BY <2>1, <2>2
<1>6. step \in Executing => current # lastId + 1
  BY <1>1 DEF RowInv
<1> QED
  BY <1>1, <1>2, <1>4, <1>5, <1>6 DEF ForcedInv, Enqueue, Executing

LEMMA StepForced ==
  RowTyped /\ RowInv /\ ForcedInv /\ [Next]_vars => ForcedInv'
<1> SUFFICES ASSUME RowTyped, RowInv, ForcedInv, [Next]_vars PROVE ForcedInv'
  OBVIOUS
<1> USE DEF rowVars, workVars, worldVars
<1>1. CASE RequestStop \/ RequestAssisted
  BY <1>1, EnqueueForced DEF RequestStop, RequestAssisted, JobKind, STOP, ASSISTED, TERM, KILL
<1>2. CASE RequestForced
  BY <1>2, EnqueueForced DEF RequestForced, JobKind, TERM, KILL
<1>3. ASSUME NEW j \in JobIds, RequestCancel(j) \/ RequestNow(j) PROVE ForcedInv'
  <2>1. /\ \A i \in JobIds : status[i] = "FAILED" <=> status'[i] = "FAILED"
        /\ \A i \in JobIds : status[i] = "ABSENT" <=> status'[i] = "ABSENT"
        /\ UNCHANGED <<kind, source, failure, workVars, worldVars>>
    BY <1>3 DEF RequestCancel, RequestNow, Active, RowTyped
  <2> QED
    BY <2>1 DEF ForcedInv, AdmitsTerm, AdmitsKill
<1>4. CASE Claim
  <2>1. /\ \A i \in JobIds : status[i] = "FAILED" <=> status'[i] = "FAILED"
        /\ \A i \in JobIds : status[i] = "ABSENT" <=> status'[i] = "ABSENT"
        /\ UNCHANGED <<kind, source, failure, worldVars>>
        /\ step' \in {"consult", "command"}
    BY <1>4 DEF Claim, RowTyped
  <2> QED
    BY <2>1 DEF ForcedInv, AdmitsTerm, AdmitsKill
<1>5. CASE Complete
  <2>1. \A i \in JobIds : i # current => status'[i] = status[i] /\ failure'[i] = failure[i]
    BY <1>5 DEF Complete, RowTyped
  <2>2. /\ current \in JobIds /\ status[current] = "RUNNING"
        /\ status'[current] = outcome[1] /\ failure'[current] = outcome[2]
        /\ UNCHANGED <<kind, source, attempted>>
        /\ step' = "idle"
    BY <1>5 DEF Complete, RowTyped, RowInv, Executing
  <2>3. /\ \A i \in JobIds : status'[i] # "ABSENT" => status[i] # "ABSENT"
        /\ \A i \in JobIds : AdmitsTerm(i) => AdmitsTerm(i)'
        /\ \A i \in JobIds : AdmitsKill(i) => AdmitsKill(i)'
    BY <2>1, <2>2 DEF AdmitsTerm, AdmitsKill
  <2>4. \A i \in JobIds :
          status'[i] = "FAILED" /\ failure'[i] = "stop_failed" => <<i, "stop">> \in attempted'
    BY <1>5, <2>1, <2>2 DEF Complete, ForcedInv
  <2> QED
    BY <2>2, <2>3, <2>4 DEF ForcedInv
<1>6. CASE Recover
  <2>1. /\ \A i \in JobIds : status[i] = "FAILED" <=> status'[i] = "FAILED"
        /\ \A i \in JobIds : status[i] = "ABSENT" <=> status'[i] = "ABSENT"
        /\ UNCHANGED <<kind, source, failure, worldVars>>
        /\ step' = "idle"
    BY <1>6 DEF Recover, RowTyped
  <2> QED
    BY <2>1 DEF ForcedInv, AdmitsTerm, AdmitsKill
<1>7. CASE Command
  BY <1>7 DEF Command, CommandOf, FailureOf, Go, Return, ForcedInv, AdmitsTerm, AdmitsKill
<1>8. CASE Await
  <2>1. UNCHANGED <<rowVars, current, attempted>> /\ step' = "complete"
    BY <1>8 DEF Await, Return
  <2>2. outcome'[2] = "stop_failed" => <<current, "stop">> \in attempted
    BY <1>8 DEF Await, Return, FailureOf, CommandOf, ForcedInv
  <2> QED
    BY <2>1, <2>2 DEF ForcedInv, AdmitsTerm, AdmitsKill
<1>9. CASE Consult \/ Tick \/ FinalWarning \/ MarkIrreversible
  <2>1. /\ UNCHANGED <<status, kind, failure, source, current, attempted>> /\ step' # "await"
        /\ step' = "complete" => outcome'[2] # "stop_failed"
    BY <1>9 DEF Consult, Tick, TickCancel, TickOn, FinalWarning, MarkIrreversible, Go, Return
  <2> QED
    BY <2>1 DEF ForcedInv, AdmitsTerm, AdmitsKill
<1>10. CASE Raise \/ Crash
  BY <1>10 DEF Raise, Crash, Return, ForcedInv, AdmitsTerm, AdmitsKill
<1>11. CASE ServerChanges \/ UNCHANGED vars
  BY <1>11 DEF ServerChanges, vars, ForcedInv, AdmitsTerm, AdmitsKill
<1> QED
  BY <1>1, <1>2, <1>3, <1>4, <1>5, <1>6, <1>7, <1>8, <1>9, <1>10, <1>11
     DEF Next, Web, Worker, Executor

-----------------------------------------------------------------------------
(* The cancellation point. *)

(* An INSERT is cancellable only as an assisted shutdown.                    *)
LEMMA EnqueueClosed ==
  ASSUME RowTyped, RowInv, SentInv, ClosedInv, NEW k, NEW w \in BOOLEAN, NEW src,
         Enqueue(k, w, src), w => k = ASSISTED
  PROVE  /\ ClosedInv'
         /\ UNCHANGED <<cancel, attempted>>
         /\ \A j \in JobIds : <<j, "stop">> \in attempted =>
              kind'[j] = kind[j] /\ delayed'[j] = delayed[j]
<1>1. lastId + 1 \in JobIds /\ status[lastId + 1] = "ABSENT"
  BY ShutdownAssumption DEF Enqueue, RowTyped, RowInv, JobIds
<1>2. <<lastId + 1, "stop">> \notin attempted /\ (step \in Executing => current # lastId + 1)
  BY <1>1 DEF SentInv, RowInv
<1>3. \A j \in JobIds \ {lastId + 1} :
        kind'[j] = kind[j] /\ cancellable'[j] = cancellable[j] /\ delayed'[j] = delayed[j]
  BY DEF Enqueue, RowTyped
<1>4. kind'[lastId + 1] = k /\ cancellable'[lastId + 1] = w
  BY <1>1 DEF Enqueue, RowTyped
<1>5. UNCHANGED <<cancel, attempted, step, current>>
  BY DEF Enqueue, workVars, worldVars
<1>6. \A j \in JobIds : cancellable'[j] => kind'[j] = ASSISTED
  BY <1>3, <1>4 DEF ClosedInv
<1>7. step \in {"warn", "command", "await"} => current \in JobIds \ {lastId + 1}
  BY <1>2 DEF RowInv, Executing
<1>8. ClosedInv'
  BY <1>2, <1>3, <1>5, <1>6, <1>7 DEF ClosedInv
<1> QED
  BY <1>2, <1>3, <1>5, <1>8

LEMMA StepClosed ==
  RowTyped /\ RowInv /\ SentInv /\ ClosedInv /\ [Next]_vars => ClosedInv'
<1> SUFFICES ASSUME RowTyped, RowInv, SentInv, ClosedInv, [Next]_vars PROVE ClosedInv'
  OBVIOUS
<1> USE DEF rowVars, workVars, worldVars
<1>1. CASE RequestStop \/ RequestAssisted \/ RequestForced
  BY <1>1, EnqueueClosed DEF RequestStop, RequestAssisted, RequestForced
<1>2. ASSUME NEW j \in JobIds, RequestCancel(j) \/ RequestNow(j) PROVE ClosedInv'
  <2>1. CASE RequestCancel(j)
    <3>1. \A i \in JobIds : cancellable'[i] => cancellable[i]
      BY <2>1 DEF RequestCancel, RowTyped
    <3>2. \A i \in JobIds : cancel'[i] => cancel[i] \/ i = j
      BY <2>1 DEF RequestCancel, RowTyped
    <3>3. cancellable[j] /\ UNCHANGED <<kind, step, current, attempted>>
      BY <2>1 DEF RequestCancel
    <3>4. step \in Executing => current \in JobIds
      BY DEF RowInv
    <3> QED
      BY <3>1, <3>2, <3>3, <3>4 DEF ClosedInv, Executing
  <2>2. CASE RequestNow(j)
    BY <2>2 DEF RequestNow, ClosedInv
  <2> QED
    BY <1>2, <2>1, <2>2
<1>3. CASE Claim
  BY <1>3 DEF Claim, RowTyped, ClosedInv
<1>4. CASE Consult \/ Tick \/ Await \/ Raise \/ Crash
  <2>1. UNCHANGED <<kind, cancellable, cancel, attempted>>
        /\ step' \in {"countdown", "complete", "down"}
    BY <1>4 DEF Consult, Tick, TickCancel, TickOn, Await, Raise, Crash, Go, Return
  <2> QED
    BY <2>1 DEF ClosedInv
<1>5. CASE MarkIrreversible
  <2>1. current \in JobIds /\ UNCHANGED <<kind, cancel, attempted, current>>
    BY <1>5 DEF MarkIrreversible, RowInv, Executing, Go, Return
  <2>2. CASE cancel[current]
    BY <1>5, <2>1, <2>2 DEF MarkIrreversible, Return, ClosedInv
  <2>3. CASE ~cancel[current]
    BY <1>5, <2>1, <2>3 DEF MarkIrreversible, Go, RowTyped, ClosedInv
  <2> QED
    BY <2>2, <2>3
<1>6. CASE FinalWarning
  <2>1. UNCHANGED <<kind, cancellable, cancel, attempted, current>>
        /\ step' \in {"command", "complete"}
    BY <1>6 DEF FinalWarning, Go, Return
  <2> QED
    BY <1>6, <2>1 DEF FinalWarning, ClosedInv
<1>7. CASE Command
  <2>1. UNCHANGED <<kind, cancellable, cancel, current>> /\ step' \in {"await", "complete"}
    BY <1>7 DEF Command, Go, Return
  <2>2. \A i \in JobIds : <<i, "stop">> \in attempted' => <<i, "stop">> \in attempted \/ i = current
    BY <1>7 DEF Command
  <2> QED
    BY <1>7, <2>1, <2>2 DEF Command, ClosedInv
<1>8. CASE Complete
  BY <1>8 DEF Complete, RowTyped, ClosedInv
<1>9. CASE Recover
  BY <1>9 DEF Recover, ClosedInv
<1>10. CASE ServerChanges \/ UNCHANGED vars
  BY <1>10 DEF ServerChanges, ClosedInv, vars
<1> QED
  BY <1>1, <1>2, <1>3, <1>4, <1>5, <1>6, <1>7, <1>8, <1>9, <1>10 DEF Next, Web, Worker, Executor

-----------------------------------------------------------------------------
LEMMA StepIInv == IInv /\ [Next]_vars => IInv'
BY StepRow, StepSent, StepNotice, StepForced, StepClosed DEF IInv

LEMMA Inductive == Spec => []IInv
BY InitIInv, StepIInv, PTL DEF Spec

(* No Stop of an assisted shutdown without the final warning that was         *)
(* promised (shutdown/service.py:115): players found online are told before   *)
(* systemd is asked, or the job ends with the server running.                *)
THEOREM StopsAreAnnounced == Spec => []StopIsAnnounced
<1>1. IInv => StopIsAnnounced
  BY DEF IInv, NoticeInv
<1> QED
  BY <1>1, Inductive, PTL

(* SIGTERM and SIGKILL come only after the failures the web process asks for  *)
(* (shutdown/jobs.py:163), however jobs, faults and restarts interleave.      *)
THEOREM SignalsFollowFailures == Spec => []EscalationChain
<1>1. IInv => EscalationChain
  <2> SUFFICES ASSUME IInv, NEW j \in JobIds
               PROVE  LET src == source[j]
                      IN  /\ <<j, "SIGKILL">> \in attempted =>
                               /\ kind[src] = TERM /\ status[src] = "FAILED"
                               /\ status[source[src]] = "FAILED"
                          /\ <<j, "SIGTERM">> \in attempted /\ kind[src] = ASSISTED =>
                               status[src] = "FAILED" /\ <<src, "stop">> \in attempted
    BY DEF EscalationChain
  <2>1. ASSUME NEW c \in {"SIGTERM", "SIGKILL"}, <<j, c>> \in attempted
        PROVE  status[j] # "ABSENT" /\ c = CommandOf(kind[j])
    BY <2>1 DEF IInv, SentInv
  <2>2. CASE <<j, "SIGKILL">> \in attempted
    <3>1. kind[j] = KILL
      BY <2>1, <2>2 DEF CommandOf
    <3>2. source[j] \in JobIds /\ AdmitsKill(source[j])
      BY <2>1, <2>2, <3>1 DEF IInv, ForcedInv
    <3>3. AdmitsTerm(source[source[j]])
      BY <3>2 DEF AdmitsKill, IInv, ForcedInv
    <3>4. <<j, "SIGTERM">> \notin attempted
      BY <2>1, <3>1 DEF CommandOf, TERM, KILL
    <3> QED
      BY <3>2, <3>3, <3>4 DEF AdmitsKill, AdmitsTerm
  <2>3. CASE <<j, "SIGTERM">> \in attempted /\ <<j, "SIGKILL">> \notin attempted
    <3>1. kind[j] = TERM
      BY <2>1, <2>3 DEF CommandOf
    <3>2. source[j] \in JobIds /\ AdmitsTerm(source[j])
      BY <2>1, <2>3, <3>1 DEF IInv, ForcedInv
    <3> QED
      BY <2>3, <3>2 DEF AdmitsTerm, IInv, ForcedInv, ASSISTED, STOP
  <2> QED
    BY <2>2, <2>3
<1> QED
  BY <1>1, Inductive, PTL

-----------------------------------------------------------------------------
(* The refinement of CancellationPoint. *)

Accepted  == {j \in JobIds : cancel[j]}
Committed == {j \in JobIds : kind[j] = ASSISTED /\ delayed[j] /\ <<j, "stop">> \in attempted}

LEMMA StepCancellation ==
  IInv /\ [Next]_vars => [Cancellation!Next]_(Cancellation!vars)
<1> SUFFICES ASSUME IInv, [Next]_vars
             PROVE  \/ \E j \in JobIds :
                         \/ j \notin Committed /\ Accepted' = Accepted \cup {j}
                              /\ Committed' = Committed
                         \/ j \notin Accepted /\ Committed' = Committed \cup {j}
                              /\ Accepted' = Accepted
                    \/ Accepted' = Accepted /\ Committed' = Committed
  BY DEF Cancellation!Next, Cancellation!vars, Cancellation!Accept, Cancellation!Commit,
         Accepted, Committed
<1> USE DEF IInv, rowVars, workVars, worldVars
<1>1. CASE RequestStop \/ RequestAssisted \/ RequestForced
  <2>1. UNCHANGED <<cancel, attempted>>
        /\ \A j \in JobIds : <<j, "stop">> \in attempted =>
             kind'[j] = kind[j] /\ delayed'[j] = delayed[j]
    BY <1>1, EnqueueClosed DEF RequestStop, RequestAssisted, RequestForced
  <2> QED
    BY <2>1 DEF Accepted, Committed
<1>2. ASSUME NEW j \in JobIds, RequestCancel(j) \/ RequestNow(j)
      PROVE  \/ j \notin Committed /\ Accepted' = Accepted \cup {j} /\ Committed' = Committed
             \/ Accepted' = Accepted /\ Committed' = Committed
  <2>1. CASE RequestCancel(j)
    <3>1. j \notin Committed
      BY <2>1 DEF RequestCancel, ClosedInv, Committed
    <3>2. Accepted' = Accepted \cup {j}
      BY <2>1 DEF RequestCancel, Accepted, RowTyped
    <3>3. Committed' = Committed
      BY <2>1 DEF RequestCancel, Committed
    <3> QED
      BY <3>1, <3>2, <3>3
  <2>2. CASE RequestNow(j)
    BY <2>2 DEF RequestNow, Accepted, Committed
  <2> QED
    BY <1>2, <2>1, <2>2
<1>3. CASE Command
  <2>1. Accepted' = Accepted /\ current \in JobIds
    BY <1>3 DEF Command, Accepted, RowInv, Executing
  <2>2. CASE kind[current] = ASSISTED /\ delayed[current]
    <3>1. current \notin Accepted
      BY <1>3, <2>2 DEF Command, ClosedInv, Accepted
    <3>2. attempted' = attempted \cup {<<current, "stop">>} /\ UNCHANGED <<kind, delayed>>
      BY <1>3, <2>2 DEF Command, CommandOf, ASSISTED, TERM, KILL
    <3>3. Committed' = Committed \cup {current}
      BY <2>1, <2>2, <3>2 DEF Committed
    <3> QED
      BY <2>1, <3>1, <3>3
  <2>3. CASE ~(kind[current] = ASSISTED /\ delayed[current])
    <3>1. Committed' = Committed
      BY <1>3, <2>3 DEF Command, Committed
    <3> QED
      BY <2>1, <3>1
  <2> QED
    BY <2>2, <2>3
<1>4. CASE Claim \/ Consult \/ Tick \/ MarkIrreversible \/ FinalWarning \/ Await
           \/ Complete \/ Recover \/ Raise \/ Crash \/ ServerChanges \/ UNCHANGED vars
  <2>1. UNCHANGED <<kind, cancel, delayed, attempted>>
    BY <1>4 DEF Claim, Consult, Tick, MarkIrreversible, FinalWarning, Await, Complete, Recover,
                Raise, Crash, ServerChanges, vars
  <2> QED
    BY <2>1 DEF Accepted, Committed
<1> QED
  BY <1>1, <1>2, <1>3, <1>4 DEF Next, Web, Worker, Executor

(* An accepted cancel and the Stop of a countdown exclude each other in every *)
(* order of the two UPDATEs (shutdown/service.py:110): the countdown keeps    *)
(* the promise of CancellationPoint.                                         *)
THEOREM CancellationIsKept == Spec => ImplementsCancellation
<1>1. Init => Cancellation!Init
  BY DEF Init, Cancellation!Init
<1> QED
  BY <1>1, StepCancellation, Inductive, PTL DEF Spec, ImplementsCancellation, Cancellation!Spec
=============================================================================
