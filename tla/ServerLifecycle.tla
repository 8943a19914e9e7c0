----------------------------- MODULE ServerLifecycle -----------------------------
(***************************************************************************)
(* The jobs that start, stop and restart the Palworld server, and the two    *)
(* services every maintenance job uses: the health check, whose probes look  *)
(* at the host one after the other, and LifecycleExecutor, which asks for a   *)
(* privileged action and polls the health until the target or a deadline.    *)
(* One worker executes one job at a time; JobQueue shows why.  The local      *)
(* variables of an executor are lost when the worker dies.                   *)
(***************************************************************************)
EXTENDS GameHost, JobKinds, Sequences

CONSTANTS
  OfferedKinds,   \* job kinds requested in this instance
  MaxJobs,        \* bound: jobs ever requested
  MaxFaults,      \* bound: exceptions inside a job
  MaxCrashes      \* bound: deaths of the worker, the host staying up

ASSUME LifecycleAssumption ==
  /\ OfferedKinds \subseteq JobKind
  /\ MaxJobs \in Nat /\ MaxFaults \in Nat /\ MaxCrashes \in Nat

VARIABLES
  jobs,       \* the jobs table, in order of id
  step,       \* where the worker is
  current,    \* the job it executes
  critical,   \* the executor is past its point of no return
  call,       \* how far the health check or lifecycle call of this step is
  seen,       \* what a health check that is still probing has read
  observed,   \* the call has seen the transition it waits for
  overtaken,  \* history: a start was underway when the unit was last read
  faults,
  crashes

callVars  == <<call, seen, observed, overtaken>>
faultVars == <<faults, crashes>>
lifecycleVars == <<jobs, step, current, critical, callVars, faultVars>>

NoJob == 0
Terminal == {"SUCCEEDED", "FAILED", "CANCELLED", "INTERRUPTED"}
Status == {"PENDING", "RUNNING"} \cup Terminal
Answers == {"reached", "missed", "online", "offline", "ambiguous"}
NotSeen == [unit |-> "none", process |-> "none"]

LifecycleTypeOK ==
  /\ jobs \in Seq([kind : OfferedKinds, status : Status, cancel : BOOLEAN,
                   cancellable : BOOLEAN, review : BOOLEAN, source : 0..MaxJobs,
                   safety : 0..MaxJobs])
  /\ Len(jobs) <= MaxJobs
  /\ current \in 0..Len(jobs)
  /\ critical \in BOOLEAN
  /\ call \in {"none", "before", "asking", "reading", "checking", "knocking"} \cup Answers
  /\ seen \in [unit : UnitState \cup {"none"}, process : {"none", "running", "gone"}]
  /\ observed \in BOOLEAN /\ overtaken \in BOOLEAN
  /\ faults \in 0..MaxFaults /\ crashes \in 0..MaxCrashes

LifecycleInit ==
  /\ jobs = <<>>
  /\ step = "idle"
  /\ current = NoJob
  /\ critical = FALSE
  /\ call = "none" /\ seen = NotSeen /\ observed = FALSE /\ overtaken = FALSE
  /\ faults = 0 /\ crashes = 0

Active == {j \in DOMAIN jobs : jobs[j].status \in {"PENDING", "RUNNING"}}
Kind == IF current = NoJob THEN "NONE" ELSE jobs[current].kind

-----------------------------------------------------------------------------
(* Requests.  Only an Update starts out cancellable; source is the backup a   *)
(* Restore was asked for.                                                    *)

Key(k) == CHOOSE x \in CoordinationKeys(k) : TRUE

Enqueue(k, source) ==
  /\ powered
  /\ Len(jobs) < MaxJobs
  /\ k \in OfferedKinds
  /\ ~\E j \in Active : Refuses(k, Key(k), jobs[j].kind, Key(jobs[j].kind))
  /\ jobs' = Append(jobs, [kind |-> k, status |-> "PENDING", cancel |-> FALSE,
                           cancellable |-> k = "PALWORLD_UPDATE", review |-> FALSE,
                           source |-> source, safety |-> 0])
  /\ UNCHANGED <<hostVars, step, current, critical, callVars, faultVars>>

RequestLifecycle == \E k \in LifecycleKinds : Enqueue(k, 0)

-----------------------------------------------------------------------------
(* The worker between and at the end of jobs. *)

Enter(s) == step' = s /\ call' = "none"

(* A step that polls: a Restart looks at the health before it asks.          *)
Await(s, how) ==
  /\ step' = s
  /\ call' = how
  /\ observed' = (how # "before")

Claim(k, s) ==
  /\ step = "idle"
  /\ \E j \in DOMAIN jobs :
       /\ jobs[j].status = "PENDING" /\ jobs[j].kind = k
       /\ \A i \in 1..(j - 1) : jobs[i].status # "PENDING"
       /\ current' = j
       /\ jobs' = [jobs EXCEPT ![j].status = "RUNNING"]
  /\ critical' = FALSE
  /\ seen' = NotSeen /\ overtaken' = FALSE
  /\ UNCHANGED <<hostVars, faultVars>>

Record(result, review, safety) ==
  jobs' = [jobs EXCEPT ![current] =
             [@ EXCEPT !.status = result, !.cancellable = FALSE,
                       !.review = review, !.safety = safety]]

Finish(result, review, safety) ==
  /\ Record(result, review, safety)
  /\ Enter("idle")
  /\ current' = NoJob
  /\ critical' = FALSE
  /\ seen' = NotSeen
  /\ UNCHANGED <<hostVars, observed, overtaken>>

Fault == faults < MaxFaults /\ faults' = faults + 1 /\ UNCHANGED crashes

-----------------------------------------------------------------------------
(* The health check: systemctl, then the process, then the REST API, with the *)
(* host free to change between one probe and the next.                       *)

ReadUnit ==
  /\ call \in {"before", "reading", "checking"}
  /\ seen.unit = "none"
  /\ seen' = [seen EXCEPT !.unit = Unit]
  /\ overtaken' = StartUnderway
  /\ UNCHANGED <<hostVars, jobs, step, current, critical, call, observed, faultVars>>

ReadProcess ==
  /\ seen.unit # "none" /\ seen.process = "none"
  /\ seen' = [seen EXCEPT !.process = IF Process THEN "running" ELSE "gone"]
  /\ UNCHANGED <<hostVars, jobs, step, current, critical, call, observed, overtaken, faultVars>>

Target ==
  CASE step = "stop"  -> "PALWORLD_STOP"
    [] step = "start" -> "PALWORLD_START"
    [] OTHER          -> Kind

(* Mutant of Reached: DEGRADED will do for a Stop.                           *)
ReachedHalf(h) ==
  IF Target = "PALWORLD_STOP" THEN h \in {"OFFLINE", "DEGRADED"} ELSE h = "ONLINE"

Reached(h) == h = IF Target = "PALWORLD_STOP" THEN "OFFLINE" ELSE "ONLINE"

(* LifecycleExecutor keeps polling until the deadline, which may come at any  *)
(* check; any verdict but ONLINE is the transition a Restart waits for, and  *)
(* for a Stop the REST port is tried once more.                              *)
Poll(h) ==
  \/ /\ call = "before"
     /\ observed' = (h # "ONLINE")
     /\ call' = "asking"
  \/ /\ call = "reading"
     /\ observed' = (observed \/ h # "ONLINE")
     /\ IF observed' /\ Reached(h)
        THEN call' = IF Target = "PALWORLD_STOP" THEN "knocking" ELSE "reached"
        ELSE call' \in {"reading", "missed"}

(* A single check, before a backup and before a host command.                *)
Look(h) ==
  /\ call = "checking"
  /\ call' = CASE h = "ONLINE" -> "online" [] h = "OFFLINE" -> "offline" [] OTHER -> "ambiguous"
  /\ UNCHANGED observed

Conclude(h) ==
  /\ Poll(h) \/ Look(h)
  /\ seen' = NotSeen
  /\ UNCHANGED <<hostVars, jobs, step, current, critical, overtaken, faultVars>>

(* The query of the unit or of the process fails.                            *)
QueryFails == seen.process = "none" /\ Conclude("FAILURE")

(* A failing REST probe leaves the API unavailable.                          *)
Judge ==
  /\ seen.process # "none"
  /\ \E rest \in {RestOpen, FALSE} : Conclude(Evaluate(seen.unit, seen.process = "running", rest))

(* The port may also fail to answer in time.                                 *)
Knock ==
  /\ call = "knocking"
  /\ \E open \in {RestOpen, FALSE} : call' \in IF open THEN {"reading", "missed"} ELSE {"reached"}
  /\ UNCHANGED <<hostVars, jobs, step, current, critical, seen, observed, overtaken, faultVars>>

(* O_EXCL: a request file that nobody has served yet makes the call fail.    *)
Ask ==
  /\ call = "asking"
  /\ call' = IF Target \in requests THEN "missed" ELSE "reading"
  /\ requests' = requests \cup {Target}
  /\ seen' = NotSeen
  /\ UNCHANGED <<server, again, powered, saves, troubles, jobs, step, current, critical,
                 observed, overtaken, faultVars>>

Probe == ReadUnit \/ ReadProcess \/ QueryFails \/ Judge \/ Knock \/ Ask

-----------------------------------------------------------------------------
(* Start, Stop and Restart jobs. *)

ClaimLifecycle ==
  \E k \in LifecycleKinds :
    /\ Claim(k, "server")
    /\ Await("server", IF k = "PALWORLD_RESTART" THEN "before" ELSE "asking")

FinishLifecycle ==
  /\ step = "server"
  /\ \/ call = "reached" /\ Finish("SUCCEEDED", FALSE, 0) /\ UNCHANGED faultVars
     \/ call = "missed" /\ Finish("FAILED", FALSE, 0) /\ UNCHANGED faultVars
     \/ call \in {"reached", "missed"} /\ Fault /\ Finish("FAILED", FALSE, 0)

-----------------------------------------------------------------------------
(* The worker dies and is started again; its lifespan recovers the jobs.     *)

Die ==
  /\ Enter("down")
  /\ current' = NoJob
  /\ critical' = FALSE
  /\ seen' = NotSeen /\ observed' = FALSE /\ overtaken' = FALSE
  /\ UNCHANGED <<jobs, faults>>

Crash ==
  /\ step # "down"
  /\ crashes < MaxCrashes
  /\ crashes' = crashes + 1
  /\ Die
  /\ UNCHANGED hostVars

Recover ==
  /\ step = "down"
  /\ powered
  /\ Enter("idle")
  /\ jobs' = [j \in DOMAIN jobs |->
                IF jobs[j].status = "RUNNING"
                THEN [jobs[j] EXCEPT !.status = "INTERRUPTED", !.cancellable = FALSE,
                                     !.review = TRUE]
                ELSE jobs[j]]
  /\ UNCHANGED <<hostVars, current, critical, seen, observed, overtaken, faultVars>>
=============================================================================
