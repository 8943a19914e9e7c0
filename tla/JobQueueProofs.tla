---------------------------- MODULE JobQueueProofs ----------------------------
(***************************************************************************)
(* Theorems of JobQueue for every number of workers, web threads, jobs and  *)
(* faults.                                                                  *)
(***************************************************************************)
EXTENDS JobQueue, TLAPS

(* Job ids are positive, so NoJob is none of them. *)
LEMMA JobIdsType == JobIds \subseteq Nat \ {NoJob}
BY QueueAssumption DEF JobIds, NoJob

(* Every key a kind may carry is a coordination key. *)
LEMMA KeyType ==
  ASSUME NEW k \in JobKind, NEW x \in CoordinationKeys(k)
  PROVE  x \in CoordinationKey
BY DEF CoordinationKey

(* Freeing a terminal lock leaves a job id or no job. *)
LEMMA FreedLockType ==
  ASSUME TypeOK, NEW st
  PROVE  FreedLock(st) \in JobIds \cup {NoJob}
BY DEF TypeOK, FreedLock

(* The initial state has its types. *)
LEMMA InitTypeOK == Init => TypeOK
<1> SUFFICES ASSUME Init PROVE TypeOK
  OBVIOUS
<1>1. "LOCAL_BACKUP" \in JobKind
  BY DEF JobKind
<1>2. Lifecycle \in CoordinationKey
  <2>1. Lifecycle \in CoordinationKeys("PALWORLD_START")
    BY DEF CoordinationKeys, PalworldKinds, LifecycleKinds, UpdateKinds, ShutdownKinds,
           RestoreKinds, DriveKinds
  <2>2. "PALWORLD_START" \in JobKind
    BY DEF JobKind, PalworldKinds, LifecycleKinds
  <2> QED BY <2>1, <2>2, KeyType
<1>3. restarts \in 0..MaxRestarts /\ dbFaults \in 0..MaxDbFaults /\ lastId \in 0..MaxJobs
  BY QueueAssumption DEF Init
<1>4. status \in [JobIds -> Status] /\ kind \in [JobIds -> JobKind]
  BY <1>1 DEF Init, Status
<1>5. key \in [JobIds -> CoordinationKey]
  BY <1>2 DEF Init
<1>6. request \in [Requests -> {NoRequest} \cup (JobKind \X CoordinationKey)]
  BY DEF Init
<1>7. /\ proc \in [Workers -> {"off", "recovering", "idle", "executing", "noting", "settled"}]
      /\ current \in [Workers -> JobIds \cup {NoJob}]
  BY DEF Init
<1> QED
  BY <1>3, <1>4, <1>5, <1>6, <1>7 DEF Init, TypeOK

(* Every step keeps the types. *)
LEMMA NextTypeOK == TypeOK /\ [Next]_vars => TypeOK'
<1> SUFFICES ASSUME TypeOK, [Next]_vars PROVE TypeOK'
  OBVIOUS
<1> USE QueueAssumption, JobIdsType
<1>1. ASSUME NEW c \in Requests, PreCheck(c) PROVE TypeOK'
  <2> PICK k \in OfferedKinds : \E x \in CoordinationKeys(k) :
             request' = [request EXCEPT ![c] = <<k, x>>]
    BY <1>1 DEF PreCheck
  <2> PICK x \in CoordinationKeys(k) : request' = [request EXCEPT ![c] = <<k, x>>]
    OBVIOUS
  <2>1. <<k, x>> \in JobKind \X CoordinationKey
    BY KeyType
  <2> QED
    BY <1>1, <2>1 DEF PreCheck, TypeOK, jobVars, leaseVars, procVars, faultVars
<1>2. ASSUME NEW c \in Requests, Insert(c) PROVE TypeOK'
  <2>1. request[c] \in JobKind \X CoordinationKey
    BY <1>2 DEF Insert, TypeOK
  <2>2. request[c][1] \in JobKind /\ request[c][2] \in CoordinationKey
    BY <2>1
  <2>3. lastId' \in JobIds /\ lastId' \in 0..MaxJobs
    BY <1>2 DEF Insert, TypeOK, JobIds
  <2> QED
    BY <1>2, <2>2, <2>3
    DEF Insert, TypeOK, Status, NoRequest, leaseVars, procVars, faultVars
<1>3. ASSUME NEW c \in Requests, Conflict(c) PROVE TypeOK'
  BY <1>3 DEF Conflict, TypeOK, NoRequest, jobVars, leaseVars, procVars, faultVars
<1>4. ASSUME NEW j \in JobIds, Withdraw(j) PROVE TypeOK'
  BY <1>4 DEF Withdraw, TypeOK, Status, Terminal, leaseVars, procVars, faultVars
<1>5. ASSUME LeaseExpires PROVE TypeOK'
  BY <1>5 DEF LeaseExpires, TypeOK, jobVars, procVars, faultVars
<1>6. ASSUME NEW w \in Workers, Start(w) PROVE TypeOK'
  BY <1>6 DEF Start, TypeOK, jobVars, faultVars
<1>7. ASSUME NEW w \in Workers, Beat(w) PROVE TypeOK'
  BY <1>7 DEF Beat, TypeOK, jobVars, procVars, faultVars
<1>8. ASSUME NEW w \in Workers, Recover(w) PROVE TypeOK'
  <2>1. Recovered \in [JobIds -> Status]
    BY DEF Recovered, TypeOK, Status, Terminal
  <2> QED
    BY <1>8, <2>1, FreedLockType DEF Recover, TypeOK, leaseVars, faultVars
<1>9. ASSUME NEW w \in Workers, Claim(w) PROVE TypeOK'
  <2> DEFINE free == FreedLock(status)
  <2> PICK j \in Oldest(Claimable(free)) :
          /\ status' = [status EXCEPT ![j] = "RUNNING"]
          /\ lock' = IF RequiresMaintenanceLock(kind[j]) THEN j ELSE free
          /\ proc' = [proc EXCEPT ![w] = "executing"]
          /\ current' = [current EXCEPT ![w] = j]
    BY <1>9 DEF Claim
  <2>1. j \in JobIds
    BY DEF Oldest, Claimable
  <2>2. free \in JobIds \cup {NoJob}
    BY FreedLockType
  <2> HIDE DEF free
  <2> QED
    BY <1>9, <2>1, <2>2 DEF Claim, TypeOK, Status, leaseVars, faultVars
<1>10. ASSUME NEW w \in Workers, PollEmpty(w) PROVE TypeOK'
  BY <1>10, FreedLockType DEF PollEmpty, TypeOK, jobVars, leaseVars, procVars, faultVars
<1>11. ASSUME NEW w \in Workers, Settle(w) PROVE TypeOK'
  BY <1>11 DEF Settle, Outcomes, TypeOK, Status, Terminal, leaseVars, faultVars
<1>15. ASSUME NEW w \in Workers, Note(w) PROVE TypeOK'
  BY <1>15 DEF Note, TypeOK, jobVars, leaseVars, faultVars
<1>12. ASSUME NEW w \in Workers, Release(w) PROVE TypeOK'
  BY <1>12 DEF Release, ReleaseLock, TypeOK, jobVars, leaseVars, faultVars
<1>13. ASSUME NEW w \in Workers, Fail(w) PROVE TypeOK'
  <2>6. CASE NoteFails(w)
    <3>1. /\ status' \in [JobIds -> Status]
          /\ proc' \in [Workers -> {"off", "recovering", "idle", "executing", "noting", "settled"}]
      BY <2>6 DEF NoteFails, TypeOK, Status, Terminal
    <3>2. dbFaults' \in 0..MaxDbFaults
      BY <2>6 DEF NoteFails, DbFault, TypeOK
    <3> QED
      BY <2>6, <3>1, <3>2 DEF NoteFails, TypeOK, leaseVars
  <2>1. CASE Strand(w)
    BY <2>1 DEF Strand, DbFault, ReleaseLock, TypeOK, jobVars, leaseVars
  <2>2. CASE Abort(w)
    BY <2>2 DEF Abort, DbFault, ReleaseLock, ReleaseLease, TypeOK, jobVars
  <2>3. CASE ReleaseFails(w)
    BY <2>3 DEF ReleaseFails, DbFault, ReleaseLock, ReleaseLease, TypeOK, jobVars
  <2>4. CASE Exit(w)
    BY <2>4 DEF Exit, Restart, ReleaseLease, TypeOK, jobVars
  <2>5. CASE Crash(w)
    BY <2>5 DEF Crash, Restart, TypeOK, jobVars, leaseVars
  <2> QED BY <1>13, <2>1, <2>2, <2>3, <2>4, <2>5, <2>6 DEF Fail, Leave
<1>14. CASE UNCHANGED vars
  BY <1>14 DEF TypeOK, vars
<1> QED
  BY <1>1, <1>2, <1>3, <1>4, <1>5, <1>6, <1>7, <1>8, <1>9, <1>10, <1>11, <1>12, <1>13, <1>14,
     <1>15 DEF Next, Web, Work

(* Types are invariant: rows, lock, lease and processes hold what the schema *)
(* and the code allow.                                                       *)
THEOREM TypeCorrect == Spec => []TypeOK
BY InitTypeOK, NextTypeOK, PTL DEF Spec

-----------------------------------------------------------------------------
(* Without any assumption on the heartbeats: keys and single execution.      *)

(* Ids are handed out in order: beyond lastId no row exists yet. *)
FreshIds == \A j \in JobIds : j > lastId => status[j] = "ABSENT"

(* The job a worker took up never looks untaken again. *)
Taken ==
  \A w \in Workers :
    proc[w] \in {"executing", "noting", "settled"} =>
      current[w] \in JobIds /\ status[current[w]] \notin {"ABSENT", "PENDING"}

KeyInv == TypeOK /\ FreshIds /\ Taken /\ UniqueActiveKey

(* How a row may change once it exists. *)
Advances(j) ==
  \/ status'[j] = status[j]
  \/ status[j] = "PENDING" /\ status'[j] \in {"RUNNING", "CANCELLED"}
  \/ status[j] \notin {"ABSENT", "PENDING"} /\ status'[j] \in Terminal

(* Only Insert creates rows; every other step advances the existing ones. *)
LEMMA RowsAdvance ==
  ASSUME TypeOK, Taken, [Next]_vars, \A c \in Requests : ~Insert(c)
  PROVE  UNCHANGED <<kind, key, lastId>> /\ \A j \in JobIds : Advances(j)
<1> DEFINE Goal == UNCHANGED <<kind, key, lastId>> /\ \A j \in JobIds : Advances(j)
<1>1. CASE UNCHANGED jobVars
  BY <1>1 DEF jobVars, Advances
<1>2. ASSUME NEW j \in JobIds, Withdraw(j) PROVE Goal
  BY <1>2 DEF Withdraw, Advances, TypeOK
<1>3. ASSUME NEW w \in Workers, Recover(w) PROVE Goal
  BY <1>3 DEF Recover, Recovered, Advances, Terminal
<1>4. ASSUME NEW w \in Workers, Claim(w) PROVE Goal
  <2> PICK j \in JobIds : status[j] = "PENDING" /\ status' = [status EXCEPT ![j] = "RUNNING"]
    BY <1>4 DEF Claim, Oldest, Claimable
  <2> QED
    BY <1>4 DEF Claim, Advances, TypeOK
<1>5. ASSUME NEW w \in Workers, Settle(w) PROVE Goal
  <2> PICK o \in Terminal : status' = [status EXCEPT ![current[w]] = o]
    BY <1>5 DEF Settle, Outcomes, Terminal
  <2>1. current[w] \in JobIds /\ status[current[w]] \notin {"ABSENT", "PENDING"}
    BY <1>5 DEF Settle, Taken
  <2> QED
    BY <1>5, <2>1 DEF Settle, Advances, TypeOK
<1>6. ASSUME NEW c \in Requests, PreCheck(c) \/ Conflict(c) PROVE UNCHANGED jobVars
  BY <1>6 DEF PreCheck, Conflict
<1>11. ASSUME NEW w \in Workers, NoteFails(w) PROVE Goal
  <2>1. current[w] \in JobIds /\ status[current[w]] \notin {"ABSENT", "PENDING"}
    BY <1>11 DEF NoteFails, Taken
  <2> QED
    BY <1>11, <2>1 DEF NoteFails, Advances, TypeOK, Terminal
<1>7. ASSUME NEW w \in Workers,
             Start(w) \/ Beat(w) \/ PollEmpty(w) \/ Note(w) \/ Release(w)
      PROVE UNCHANGED jobVars
  BY <1>7 DEF Start, Beat, PollEmpty, Note, Release
<1>8. ASSUME NEW w \in Workers, Leave(w) PROVE UNCHANGED jobVars
  BY <1>8 DEF Leave, Strand, Abort, ReleaseFails, Exit, Crash
<1>9. ASSUME LeaseExpires PROVE UNCHANGED jobVars
  BY <1>9 DEF LeaseExpires
<1>10. ASSUME UNCHANGED vars PROVE UNCHANGED jobVars
  BY <1>10 DEF vars, jobVars
<1> QED
  BY <1>1, <1>2, <1>3, <1>4, <1>5, <1>6, <1>7, <1>8, <1>9, <1>10, <1>11
  DEF Next, Web, Work, Fail

(* Where a worker is engaged after a step: with the job it had, or with a    *)
(* PENDING one it has just made RUNNING.                                     *)
LEMMA EngagementStep ==
  ASSUME TypeOK, [Next]_vars, NEW w \in Workers, proc'[w] \in {"executing", "noting", "settled"}
  PROVE  \/ /\ proc[w] \in {"executing", "noting", "settled"} /\ current'[w] = current[w]
            /\ proc'[w] = "executing" => proc[w] = "executing"
         \/ /\ proc'[w] = "executing" /\ current'[w] \in JobIds
            /\ status[current'[w]] = "PENDING" /\ status'[current'[w]] = "RUNNING"
<1>1. CASE UNCHANGED procVars
  BY <1>1 DEF procVars
<1>2. ASSUME NEW v \in Workers, \/ Start(v) \/ Recover(v) \/ Settle(v) \/ Note(v)
                                \/ Release(v) \/ Fail(v)
      PROVE  /\ proc[w] \in {"executing", "noting", "settled"} /\ current'[w] = current[w]
             /\ proc'[w] = "executing" => proc[w] = "executing"
  BY <1>2 DEF Start, Recover, Settle, Note, Release, Fail, NoteFails, Leave, Strand, Abort,
              ReleaseFails, Exit, Crash, TypeOK
<1>3. ASSUME NEW v \in Workers, Claim(v)
      PROVE  \/ proc[w] = proc'[w] /\ current'[w] = current[w]
             \/ /\ proc'[w] = "executing" /\ current'[w] \in JobIds
                /\ status[current'[w]] = "PENDING" /\ status'[current'[w]] = "RUNNING"
  <2> PICK j \in JobIds : /\ status[j] = "PENDING"
                          /\ status' = [status EXCEPT ![j] = "RUNNING"]
                          /\ proc' = [proc EXCEPT ![v] = "executing"]
                          /\ current' = [current EXCEPT ![v] = j]
    BY <1>3 DEF Claim, Oldest, Claimable
  <2> QED
    BY DEF TypeOK
<1>4. ASSUME NEW c \in Requests, PreCheck(c) \/ Insert(c) \/ Conflict(c)
      PROVE  UNCHANGED procVars
  BY <1>4 DEF PreCheck, Insert, Conflict
<1>5. ASSUME NEW j \in JobIds, Withdraw(j) PROVE UNCHANGED procVars
  BY <1>5 DEF Withdraw
<1>6. ASSUME NEW v \in Workers, Beat(v) \/ PollEmpty(v) PROVE UNCHANGED procVars
  BY <1>6 DEF Beat, PollEmpty
<1>7. ASSUME LeaseExpires PROVE UNCHANGED procVars
  BY <1>7 DEF LeaseExpires
<1>8. ASSUME UNCHANGED vars PROVE UNCHANGED procVars
  BY <1>8 DEF vars, procVars
<1> QED
  BY <1>1, <1>2, <1>3, <1>4, <1>5, <1>6, <1>7, <1>8 DEF Next, Web, Work

(* What Insert does to the rows. *)
LEMMA InsertedRow ==
  ASSUME TypeOK, NEW c \in Requests, Insert(c)
  PROVE  /\ lastId + 1 \in JobIds /\ lastId' = lastId + 1
         /\ status' = [status EXCEPT ![lastId + 1] = "PENDING"]
         /\ kind' = [kind EXCEPT ![lastId + 1] = request[c][1]]
         /\ key' = [key EXCEPT ![lastId + 1] = request[c][2]]
         /\ IndexFree(request[c][2])
BY QueueAssumption DEF Insert, TypeOK, JobIds

(* KeyInv holds in the initial state. *)
LEMMA KeyInvInit == Init => KeyInv
BY InitTypeOK DEF Init, KeyInv, FreshIds, Taken, UniqueActiveKey, Active

(* Every step keeps KeyInv. *)
LEMMA KeyInvStep == KeyInv /\ [Next]_vars => KeyInv'
<1> SUFFICES ASSUME KeyInv, [Next]_vars PROVE KeyInv'
  OBVIOUS
<1> USE DEF KeyInv
<1>1. TypeOK'
  BY NextTypeOK
<1>2. ASSUME NEW c \in Requests, Insert(c) PROVE FreshIds' /\ Taken' /\ UniqueActiveKey'
  <2>1. FreshIds'
    BY <1>2, InsertedRow, JobIdsType DEF FreshIds, TypeOK
  <2>2. status[lastId + 1] = "ABSENT"
    BY <1>2, InsertedRow DEF FreshIds, TypeOK
  <2>3. Taken'
    BY <1>2, <2>2, InsertedRow DEF Taken, TypeOK, Insert, procVars
  <2>4. UniqueActiveKey'
    <3> SUFFICES ASSUME NEW i \in JobIds, NEW j \in JobIds,
                        Active(i)', Active(j)', key'[i] = key'[j]
                 PROVE  i = j
      BY DEF UniqueActiveKey
    <3>1. \A k \in JobIds \ {lastId + 1} : Active(k)' => Active(k) /\ key'[k] = key[k]
      BY <1>2, InsertedRow DEF Active, TypeOK
    <3>2. \A k \in JobIds \ {lastId + 1} : Active(k)' => key'[k] # key'[lastId + 1]
      BY <1>2, <3>1, InsertedRow DEF IndexFree, TypeOK
    <3> QED
      BY <3>1, <3>2 DEF UniqueActiveKey
  <2> QED BY <2>1, <2>3, <2>4
<1>3. ASSUME \A c \in Requests : ~Insert(c) PROVE FreshIds' /\ Taken' /\ UniqueActiveKey'
  <2>1. UNCHANGED <<kind, key, lastId>> /\ \A j \in JobIds : Advances(j)
    BY <1>3, RowsAdvance
  <2>2. FreshIds'
    BY <2>1 DEF FreshIds, Advances
  <2>3. Taken'
    BY <2>1, EngagementStep DEF Taken, Advances, Terminal
  <2>4. UniqueActiveKey'
    BY <2>1 DEF UniqueActiveKey, Active, Advances, Terminal
  <2> QED BY <2>2, <2>3, <2>4
<1> QED BY <1>1, <1>2, <1>3

(* KeyInv is invariant. *)
LEMMA KeyInvCorrect == Spec => []KeyInv
BY KeyInvInit, KeyInvStep, PTL DEF Spec

(* The unique index makes up for the separate check of the handlers: no two  *)
(* active jobs share a coordination key, however the web threads interleave. *)
THEOREM KeysAreUnique == Spec => []UniqueActiveKey
<1>1. KeyInv => UniqueActiveKey
  BY DEF KeyInv
<1> QED BY KeyInvCorrect, <1>1, PTL

(* No job is taken up twice, even by two workers that both believe they hold *)
(* the lease: the claim only takes a PENDING row, and no row returns to it.  *)
THEOREM JobsExecuteAtMostOnce == Spec => ExecutedAtMostOnce
<1> DEFINE Step == \A j \in JobIds :
             status[j] \notin {"ABSENT", "PENDING"} =>
               /\ status'[j] \notin {"ABSENT", "PENDING"}
               /\ \A w \in Workers : Executing(w, j)' => Executing(w, j)
<1>1. KeyInv /\ [Next]_vars => Step
  <2> SUFFICES ASSUME KeyInv, [Next]_vars, NEW j \in JobIds,
                      status[j] \notin {"ABSENT", "PENDING"}
               PROVE  /\ status'[j] \notin {"ABSENT", "PENDING"}
                      /\ \A w \in Workers : Executing(w, j)' => Executing(w, j)
    OBVIOUS
  <2>1. status'[j] \notin {"ABSENT", "PENDING"}
    <3>1. CASE \A c \in Requests : ~Insert(c)
      BY <3>1, RowsAdvance DEF KeyInv, Advances, Terminal
    <3>2. ASSUME NEW c \in Requests, Insert(c) PROVE status'[j] = status[j]
      BY <3>2, InsertedRow DEF KeyInv, FreshIds, TypeOK
    <3> QED BY <3>1, <3>2
  <2>2. ASSUME NEW w \in Workers, Executing(w, j)' PROVE Executing(w, j)
    BY <2>2, EngagementStep DEF Executing, KeyInv
  <2> QED BY <2>1, <2>2
<1> QED
  BY <1>1, KeyInvCorrect, PTL DEF Spec, ExecutedAtMostOnce

-----------------------------------------------------------------------------
(* With timely heartbeats: the lease, the lock and the recovery.             *)

(* A live worker holds a fresh lease, so there is at most one. *)
Leased == \A w \in Workers : proc[w] # "off" => holder = w /\ fresh

(* Which job a worker has, and how its row looks in each phase. *)
Engaged ==
  \A w \in Workers :
    /\ proc[w] \in {"off", "recovering", "idle"} => current[w] = NoJob
    /\ proc[w] = "executing" => current[w] \in JobIds /\ status[current[w]] = "RUNNING"
    /\ proc[w] = "noting" => /\ current[w] \in JobIds /\ kind[current[w]] \in UpdateKinds
                             /\ status[current[w]] = "SUCCEEDED"
    /\ proc[w] = "settled" => current[w] \in JobIds /\ status[current[w]] \in Terminal

(* The lock names a job that was taken up. *)
LockNamesTaken == lock # NoJob => status[lock] \in {"RUNNING"} \cup Terminal

(* As long as every write succeeded, RUNNING and the lock point at the job   *)
(* in hand, or at nothing.                                                   *)
NothingAstray ==
  dbFaults = 0 => \A w \in Workers :
    /\ proc[w] = "idle" => lock = NoJob
    /\ proc[w] \in {"executing", "noting", "settled"} => lock \in {NoJob, current[w]}
    /\ proc[w] \in {"idle", "noting", "settled"} => \A j \in JobIds : status[j] # "RUNNING"
    /\ proc[w] = "executing" => \A j \in JobIds : status[j] = "RUNNING" => j = current[w]

LeaseInv ==
  /\ KeyInv
  /\ Leased
  /\ Engaged
  /\ LockNamesTaken
  /\ LockGuardsExecution
  /\ NothingAstray

(* LeaseInv holds in the initial state. *)
LEMMA LeaseInvInit == Init => LeaseInv
BY KeyInvInit DEF Init, LeaseInv, Leased, Engaged, LockNamesTaken, LockGuardsExecution,
                  NothingAstray, Executing

(* Two live workers are the same one. *)
LEMMA OneLiveWorker ==
  ASSUME Leased, NEW v \in Workers, NEW w \in Workers, proc[v] # "off", proc[w] # "off"
  PROVE  v = w
BY DEF Leased

(* Every step keeps the lease with the live worker. *)
LEMMA LeasedStep ==
  ASSUME TimelyHeartbeats, TypeOK, Leased, [Next]_vars
  PROVE  Leased'
<1> USE QueueAssumption DEF Leased, TypeOK
<1>1. CASE UNCHANGED <<holder, fresh, proc>>
  BY <1>1
<1>2. ASSUME LeaseExpires PROVE Leased'
  BY <1>2 DEF LeaseExpires, procVars
<1>3. ASSUME NEW w \in Workers, Start(w) PROVE Leased'
  BY <1>3 DEF Start
<1>4. ASSUME NEW w \in Workers, Beat(w) PROVE Leased'
  BY <1>4 DEF Beat, procVars
<1>5. ASSUME NEW w \in Workers, Work(w) PROVE Leased'
  BY <1>5 DEF Work, Recover, Claim, PollEmpty, Settle, Note, Release, leaseVars, procVars
<1>6. ASSUME NEW w \in Workers, Fail(w) PROVE Leased'
  BY <1>6 DEF Fail, NoteFails, Leave, Strand, Abort, ReleaseFails, Exit, Crash, ReleaseLease,
              leaseVars
<1>7. ASSUME Web PROVE UNCHANGED <<holder, fresh, proc>>
  BY <1>7 DEF Web, PreCheck, Insert, Conflict, Withdraw, leaseVars, procVars
<1>8. ASSUME UNCHANGED vars PROVE UNCHANGED <<holder, fresh, proc>>
  BY <1>8 DEF vars
<1> QED
  BY <1>1, <1>2, <1>3, <1>4, <1>5, <1>6, <1>7, <1>8 DEF Next

(* The web never touches a row that is not PENDING, nor the lock, nor a      *)
(* worker.                                                                   *)
LEMMA WebStep ==
  ASSUME TypeOK, FreshIds, Web
  PROVE  /\ UNCHANGED <<lock, proc, current, dbFaults>>
         /\ \A j \in JobIds :
              \/ status'[j] = status[j] /\ kind'[j] = kind[j]
              \/ status[j] = "ABSENT" /\ status'[j] = "PENDING"
              \/ status[j] = "PENDING" /\ status'[j] = "CANCELLED" /\ kind'[j] = kind[j]
<1> DEFINE Changes(j) ==
             \/ status'[j] = status[j] /\ kind'[j] = kind[j]
             \/ status[j] = "ABSENT" /\ status'[j] = "PENDING"
             \/ status[j] = "PENDING" /\ status'[j] = "CANCELLED" /\ kind'[j] = kind[j]
           Goal == UNCHANGED <<lock, proc, current, dbFaults>> /\ \A j \in JobIds : Changes(j)
<1>1. ASSUME NEW c \in Requests, PreCheck(c) \/ Conflict(c) PROVE Goal
  BY <1>1 DEF PreCheck, Conflict, jobVars, procVars, faultVars
<1>2. ASSUME NEW i \in JobIds, Withdraw(i) PROVE Goal
  BY <1>2 DEF Withdraw, procVars, faultVars, TypeOK
<1>3. ASSUME NEW c \in Requests, Insert(c) PROVE Goal
  <2>1. /\ status[lastId + 1] = "ABSENT"
        /\ status' = [status EXCEPT ![lastId + 1] = "PENDING"]
        /\ kind' = [kind EXCEPT ![lastId + 1] = request[c][1]]
    BY <1>3, InsertedRow DEF FreshIds, TypeOK
  <2> QED
    BY <1>3, <2>1 DEF Insert, procVars, faultVars, TypeOK
<1> QED
  BY <1>1, <1>2, <1>3 DEF Web

TakenUp == Engaged /\ LockNamesTaken /\ LockGuardsExecution /\ NothingAstray

(* A step that leaves workers, lock and rows alone keeps what holds of them. *)
LEMMA TakenUpUnchanged ==
  ASSUME TakenUp, UNCHANGED <<status, kind, lock, proc, current, dbFaults>>
  PROVE  TakenUp'
BY DEF TakenUp, Engaged, LockNamesTaken, LockGuardsExecution, NothingAstray, Executing

(* Steps of the web keep it. *)
LEMMA TakenUpWeb ==
  ASSUME TypeOK, FreshIds, TakenUp, Web
  PROVE  TakenUp'
<1>1. /\ UNCHANGED <<lock, proc, current, dbFaults>>
      /\ \A j \in JobIds :
           \/ status'[j] = status[j] /\ kind'[j] = kind[j]
           \/ status[j] = "ABSENT" /\ status'[j] = "PENDING"
           \/ status[j] = "PENDING" /\ status'[j] = "CANCELLED" /\ kind'[j] = kind[j]
  BY WebStep
<1>2. Engaged'
  BY <1>1 DEF TakenUp, Engaged, Terminal
<1>3. LockNamesTaken'
  BY <1>1 DEF TakenUp, LockNamesTaken, TypeOK, Terminal
<1>4. LockGuardsExecution'
  BY <1>1 DEF TakenUp, Engaged, LockGuardsExecution, Executing
<1>5. NothingAstray'
  BY <1>1 DEF TakenUp, NothingAstray
<1> QED BY <1>2, <1>3, <1>4, <1>5 DEF TakenUp

(* Steps inside the worker loop keep it. *)
LEMMA TakenUpWork ==
  ASSUME TypeOK, Leased, TakenUp, NEW w \in Workers, Work(w)
  PROVE  TakenUp'
<1> USE JobIdsType DEF TypeOK
<1> DEFINE Others == \A v \in Workers \ {w} : proc[v] = "off"
<1>1. proc[w] # "off" /\ Others
  BY OneLiveWorker DEF Work, Recover, Claim, PollEmpty, Settle, Note, Release
<1> HIDE DEF Others
<1>2. ASSUME Recover(w) PROVE TakenUp'
  <2>1. /\ proc[w] = "recovering" /\ proc' = [proc EXCEPT ![w] = "idle"]
        /\ UNCHANGED <<kind, current, dbFaults>> /\ current[w] = NoJob
    BY <1>2 DEF Recover, faultVars, TakenUp, Engaged
  <2>2. /\ status' = Recovered
        /\ \A j \in JobIds : status'[j] # "RUNNING"
        /\ \A j \in JobIds : status[j] \in {"RUNNING"} \cup Terminal => status'[j] \in Terminal
    BY <1>2 DEF Recover, Recovered, Terminal
  <2>3. lock' = NoJob
    BY <1>2, <2>2 DEF Recover, FreedLock, TakenUp, LockNamesTaken
  <2> QED
    BY <1>1, <2>1, <2>2, <2>3
    DEF Others, TakenUp, Engaged, LockNamesTaken, LockGuardsExecution, NothingAstray, Executing
<1>3. ASSUME Claim(w) PROVE TakenUp'
  <2> DEFINE free == FreedLock(status)
  <2> PICK j \in Oldest(Claimable(free)) :
          /\ status' = [status EXCEPT ![j] = "RUNNING"]
          /\ lock' = IF RequiresMaintenanceLock(kind[j]) THEN j ELSE free
          /\ proc' = [proc EXCEPT ![w] = "executing"]
          /\ current' = [current EXCEPT ![w] = j]
    BY <1>3 DEF Claim
  <2>1. j \in JobIds /\ status[j] = "PENDING"
    BY DEF Oldest, Claimable
  <2>2. /\ free = lock \/ free = NoJob
        /\ lock = NoJob => free = NoJob
        /\ free # j
    BY <2>1 DEF FreedLock, TakenUp, LockNamesTaken, Terminal
  <2>3. proc[w] = "idle" /\ UNCHANGED <<kind, dbFaults>>
    BY <1>3 DEF Claim, faultVars
  <2> HIDE DEF free
  <2>4. Engaged'
    BY <1>1, <2>1, <2>3 DEF Others, TakenUp, Engaged
  <2>5. LockNamesTaken'
    BY <2>1, <2>2 DEF TakenUp, LockNamesTaken
  <2>6. LockGuardsExecution'
    BY <1>1, <2>1, <2>3 DEF Others, LockGuardsExecution, Executing
  <2>7. NothingAstray'
    BY <1>1, <2>1, <2>2, <2>3 DEF Others, TakenUp, NothingAstray
  <2> QED BY <2>4, <2>5, <2>6, <2>7 DEF TakenUp
<1>4. ASSUME PollEmpty(w) PROVE TakenUp'
  <2>1. /\ proc[w] = "idle" /\ lock' = FreedLock(status)
        /\ UNCHANGED <<status, kind, proc, current, dbFaults>>
    BY <1>4 DEF PollEmpty, jobVars, procVars, faultVars
  <2>2. lock' = lock \/ lock' = NoJob
    BY <2>1 DEF FreedLock
  <2> QED
    BY <1>1, <2>1, <2>2
    DEF Others, TakenUp, Engaged, LockNamesTaken, LockGuardsExecution, NothingAstray, Executing
<1>5. ASSUME Settle(w) PROVE TakenUp'
  <2> PICK o \in Terminal :
        /\ status' = [status EXCEPT ![current[w]] = o]
        /\ proc'[w] = "noting" => kind[current[w]] \in UpdateKinds /\ o = "SUCCEEDED"
    BY <1>5 DEF Settle, Outcomes, Terminal
  <2>1. /\ proc[w] = "executing" /\ proc'[w] \in {"noting", "settled"}
        /\ proc' = [proc EXCEPT ![w] = proc'[w]]
        /\ UNCHANGED <<kind, lock, current, dbFaults>>
    BY <1>5 DEF Settle, faultVars
  <2>2. current[w] \in JobIds /\ status'[current[w]] = o
    BY <2>1 DEF TakenUp, Engaged
  <2>3. Engaged'
    BY <1>1, <2>1, <2>2 DEF Others, TakenUp, Engaged
  <2>4. LockNamesTaken'
    BY <2>1, <2>2 DEF TakenUp, LockNamesTaken
  <2>5. LockGuardsExecution'
    BY <1>1, <2>1 DEF Others, LockGuardsExecution, Executing
  <2>6. NothingAstray'
    BY <1>1, <2>1, <2>2 DEF Others, TakenUp, NothingAstray, Terminal
  <2> QED BY <2>3, <2>4, <2>5, <2>6 DEF TakenUp
<1>7. ASSUME Note(w) PROVE TakenUp'
  <2>1. /\ proc[w] = "noting" /\ proc' = [proc EXCEPT ![w] = "settled"]
        /\ UNCHANGED <<status, kind, lock, current, dbFaults>>
    BY <1>7 DEF Note, jobVars, faultVars
  <2> QED
    BY <1>1, <2>1 DEF Others, TakenUp, Engaged, LockNamesTaken, LockGuardsExecution,
                      NothingAstray, Executing, Terminal
<1>6. ASSUME Release(w) PROVE TakenUp'
  <2>1. /\ proc[w] = "settled" /\ proc' = [proc EXCEPT ![w] = "idle"]
        /\ current' = [current EXCEPT ![w] = NoJob]
        /\ lock' = IF lock = current[w] THEN NoJob ELSE lock
        /\ UNCHANGED <<status, kind, dbFaults>>
    BY <1>6 DEF Release, ReleaseLock, jobVars, faultVars
  <2> QED
    BY <1>1, <2>1
    DEF Others, TakenUp, Engaged, LockNamesTaken, LockGuardsExecution, NothingAstray, Executing
<1> QED BY <1>2, <1>3, <1>4, <1>5, <1>6, <1>7 DEF Work

(* The log line that cannot be noted keeps it. *)
LEMMA TakenUpNoteFails ==
  ASSUME TypeOK, Leased, TakenUp, NEW w \in Workers, NoteFails(w)
  PROVE  TakenUp'
<1> USE JobIdsType DEF TypeOK
<1>1. \A v \in Workers \ {w} : proc[v] = "off"
  BY OneLiveWorker DEF NoteFails
<1>2. /\ proc[w] = "noting" /\ proc' = [proc EXCEPT ![w] = "settled"]
      /\ status' = [status EXCEPT ![current[w]] = "FAILED"] /\ dbFaults' # 0
      /\ UNCHANGED <<kind, lock, current>>
  BY QueueAssumption DEF NoteFails, DbFault
<1>3. current[w] \in JobIds /\ status[current[w]] = "SUCCEEDED"
  BY <1>2 DEF TakenUp, Engaged
<1> QED
  BY <1>1, <1>2, <1>3
  DEF TakenUp, Engaged, LockNamesTaken, LockGuardsExecution, NothingAstray, Executing, Terminal

(* A worker that leaves its job or dies keeps it. *)
LEMMA TakenUpLeave ==
  ASSUME TypeOK, Leased, TakenUp, NEW w \in Workers, Leave(w)
  PROVE  TakenUp'
<1> USE JobIdsType DEF TypeOK
<1>1. \A v \in Workers \ {w} : proc[v] = "off"
  BY OneLiveWorker DEF Leave, Strand, Abort, ReleaseFails, Exit, Crash
<1>2. /\ proc' \in {[proc EXCEPT ![w] = "idle"], [proc EXCEPT ![w] = "off"]}
      /\ proc'[w] = "idle" => dbFaults' # 0
      /\ lock' \in {lock, NoJob}
      /\ current'[w] = NoJob /\ \A v \in Workers \ {w} : current'[v] = current[v]
      /\ UNCHANGED <<status, kind>>
  <2>1. CASE Strand(w)
    BY <2>1, QueueAssumption DEF Strand, DbFault, ReleaseLock, jobVars
  <2>2. CASE Abort(w) \/ ReleaseFails(w)
    BY <2>2 DEF Abort, ReleaseFails, ReleaseLock, jobVars
  <2>3. CASE Exit(w)
    BY <2>3 DEF Exit, jobVars, TakenUp, Engaged
  <2>4. CASE Crash(w)
    BY <2>4 DEF Crash, jobVars
  <2> QED BY <2>1, <2>2, <2>3, <2>4 DEF Leave
<1> QED
  BY <1>1, <1>2
  DEF TakenUp, Engaged, LockNamesTaken, LockGuardsExecution, NothingAstray, Executing

(* Every step keeps LeaseInv. *)
LEMMA LeaseInvStep ==
  ASSUME TimelyHeartbeats
  PROVE  LeaseInv /\ [Next]_vars => LeaseInv'
<1> SUFFICES ASSUME LeaseInv, [Next]_vars PROVE LeaseInv'
  OBVIOUS
<1>1. TypeOK /\ FreshIds /\ Leased /\ TakenUp
  BY DEF LeaseInv, KeyInv, TakenUp
<1>2. KeyInv' /\ Leased'
  BY <1>1, KeyInvStep, LeasedStep DEF LeaseInv
<1>3. TakenUp'
  <2>1. CASE Web
    BY <1>1, <2>1, TakenUpWeb
  <2>2. ASSUME NEW w \in Workers, Work(w) PROVE TakenUp'
    BY <1>1, <2>2, TakenUpWork
  <2>3. ASSUME NEW w \in Workers, Fail(w) PROVE TakenUp'
    BY <1>1, <2>3, TakenUpNoteFails, TakenUpLeave DEF Fail
  <2>4. ASSUME NEW w \in Workers, Start(w) PROVE TakenUp'
    BY <1>1, <2>4
    DEF Start, jobVars, faultVars, TypeOK, TakenUp, Engaged, LockNamesTaken,
        LockGuardsExecution, NothingAstray, Executing
  <2>5. ASSUME NEW w \in Workers, Beat(w)
        PROVE  UNCHANGED <<status, kind, lock, proc, current, dbFaults>>
    BY <2>5 DEF Beat, jobVars, procVars, faultVars
  <2>6. ASSUME LeaseExpires
        PROVE  UNCHANGED <<status, kind, lock, proc, current, dbFaults>>
    BY <2>6 DEF LeaseExpires, jobVars, procVars, faultVars
  <2>7. ASSUME UNCHANGED vars
        PROVE  UNCHANGED <<status, kind, lock, proc, current, dbFaults>>
    BY <2>7 DEF vars
  <2> QED
    BY <1>1, <2>1, <2>2, <2>3, <2>4, <2>5, <2>6, <2>7, TakenUpUnchanged DEF Next
<1> QED BY <1>2, <1>3 DEF LeaseInv, TakenUp

(* LeaseInv is invariant while heartbeats are timely. *)
LEMMA LeaseInvCorrect ==
  ASSUME TimelyHeartbeats
  PROVE  Spec => []LeaseInv
BY LeaseInvInit, LeaseInvStep, PTL DEF Spec

(* A worker inside an exclusive job owns the GLOBAL row, so no two exclusive *)
(* jobs are in their executors together.                                     *)
THEOREM LockIsHeld ==
  ASSUME TimelyHeartbeats
  PROVE  Spec => []LockGuardsExecution
<1>1. LeaseInv => LockGuardsExecution
  BY DEF LeaseInv
<1> QED BY LeaseInvCorrect, <1>1, PTL

(* While no write has failed, an idle worker has no job left RUNNING and the *)
(* lock is free, whatever crashed before it.                                 *)
THEOREM RecoveryIsComplete ==
  ASSUME TimelyHeartbeats
  PROVE  Spec => []NothingLeftBehind
<1>1. LeaseInv => NothingLeftBehind
  BY DEF LeaseInv, NothingAstray, NothingLeftBehind
<1> QED BY LeaseInvCorrect, <1>1, PTL

(* A recorded outcome is never overwritten, except that of an update job whose *)
(* own worker fails to note its success (updates/jobs.py:585).               *)
THEOREM OutcomesAreFinal ==
  ASSUME TimelyHeartbeats
  PROVE  Spec => OutcomeIsFinal
<1> DEFINE Step == \A j \in JobIds :
             status[j] \in Terminal /\ status'[j] # status[j] =>
               status[j] = "SUCCEEDED" /\ status'[j] = "FAILED" /\ InNote(j)
<1>1. LeaseInv /\ [Next]_vars => Step
  <2> SUFFICES ASSUME LeaseInv, [Next]_vars, NEW j \in JobIds, status[j] \in Terminal,
                      status'[j] # status[j]
               PROVE  status[j] = "SUCCEEDED" /\ status'[j] = "FAILED" /\ InNote(j)
    OBVIOUS
  <2>1. TypeOK /\ FreshIds
    BY DEF LeaseInv, KeyInv
  <2>2. ASSUME Web PROVE status'[j] = status[j]
    BY <2>1, <2>2, WebStep DEF Terminal
  <2>3. ASSUME NEW w \in Workers, Recover(w) PROVE status'[j] = status[j]
    BY <2>3 DEF Recover, Recovered, Terminal
  <2>4. ASSUME NEW w \in Workers, Claim(w) PROVE status'[j] = status[j]
    <3> PICK i \in JobIds : status[i] = "PENDING" /\ status' = [status EXCEPT ![i] = "RUNNING"]
      BY <2>4 DEF Claim, Oldest, Claimable
    <3> QED BY <2>1 DEF TypeOK, Terminal
  <2>5. ASSUME NEW w \in Workers, Settle(w) PROVE status'[j] = status[j]
    <3>1. current[w] # j
      BY <2>5 DEF Settle, LeaseInv, Engaged, Terminal
    <3> QED BY <2>1, <2>5, <3>1 DEF Settle, TypeOK
  <2>8. ASSUME NEW w \in Workers, NoteFails(w)
        PROVE  status[j] = "SUCCEEDED" /\ status'[j] = "FAILED" /\ InNote(j)
    <3>1. /\ current[w] \in JobIds /\ status[current[w]] = "SUCCEEDED"
          /\ kind[current[w]] \in UpdateKinds
      BY <2>8 DEF NoteFails, LeaseInv, Engaged
    <3>2. current[w] = j /\ status'[j] = "FAILED"
      BY <2>1, <2>8, <3>1 DEF NoteFails, TypeOK
    <3> QED BY <2>8, <3>1, <3>2 DEF NoteFails, InNote
  <2>6. ASSUME NEW w \in Workers,
               Start(w) \/ Beat(w) \/ PollEmpty(w) \/ Note(w) \/ Release(w) \/ Leave(w)
        PROVE  status' = status
    BY <2>6 DEF Start, Beat, PollEmpty, Note, Release, Leave, Strand, Abort, ReleaseFails,
                Exit, Crash, jobVars
  <2>7. ASSUME LeaseExpires \/ UNCHANGED vars PROVE status' = status
    BY <2>7 DEF LeaseExpires, jobVars, vars
  <2> QED
    BY <2>2, <2>3, <2>4, <2>5, <2>6, <2>7, <2>8 DEF Next, Work, Fail
<1> QED
  BY <1>1, LeaseInvCorrect, PTL DEF Spec, OutcomeIsFinal

(* The lease keeps a second process from recovering the job a live worker is *)
(* still executing (heartbeat.py:48).                                        *)
LiveWorkerNotRecovered ==
  [][\A w \in Workers : \A j \in JobIds :
       Executing(w, j) /\ status[j] = "RUNNING" => status'[j] # "INTERRUPTED"]_vars

(* A worker that keeps its heartbeat is never recovered under its feet.      *)
THEOREM LiveWorkersAreSafe ==
  ASSUME TimelyHeartbeats
  PROVE  Spec => LiveWorkerNotRecovered
<1> DEFINE Step == \A w \in Workers : \A j \in JobIds :
             Executing(w, j) /\ status[j] = "RUNNING" => status'[j] # "INTERRUPTED"
<1>1. LeaseInv /\ [Next]_vars => Step
  <2> SUFFICES ASSUME LeaseInv, [Next]_vars, NEW w \in Workers, NEW j \in JobIds,
                      Executing(w, j), status[j] = "RUNNING", status'[j] = "INTERRUPTED"
               PROVE  FALSE
    OBVIOUS
  <2>1. TypeOK /\ FreshIds /\ Leased
    BY DEF LeaseInv, KeyInv
  <2>2. ASSUME Web PROVE FALSE
    BY <2>1, <2>2, WebStep
  <2>3. ASSUME NEW v \in Workers, Recover(v) PROVE FALSE
    BY <2>1, <2>3, OneLiveWorker DEF Recover, Executing
  <2>4. ASSUME NEW v \in Workers, Claim(v) PROVE FALSE
    <3> PICK i \in JobIds : status[i] = "PENDING" /\ status' = [status EXCEPT ![i] = "RUNNING"]
      BY <2>4 DEF Claim, Oldest, Claimable
    <3> QED BY <2>1 DEF TypeOK
  <2>5. ASSUME NEW v \in Workers, Settle(v) PROVE FALSE
    <3> PICK o \in {"SUCCEEDED", "FAILED", "CANCELLED"} :
           status' = [status EXCEPT ![current[v]] = o]
      BY <2>5 DEF Settle, Outcomes
    <3> QED BY <2>1 DEF TypeOK
  <2>8. ASSUME NEW v \in Workers, NoteFails(v) PROVE FALSE
    BY <2>1, <2>8 DEF NoteFails, TypeOK
  <2>6. ASSUME NEW v \in Workers,
               Start(v) \/ Beat(v) \/ PollEmpty(v) \/ Note(v) \/ Release(v) \/ Leave(v)
        PROVE  status' = status
    BY <2>6 DEF Start, Beat, PollEmpty, Note, Release, Leave, Strand, Abort, ReleaseFails,
                Exit, Crash, jobVars
  <2>7. ASSUME LeaseExpires \/ UNCHANGED vars PROVE status' = status
    BY <2>7 DEF LeaseExpires, jobVars, vars
  <2> QED
    BY <2>2, <2>3, <2>4, <2>5, <2>6, <2>7, <2>8 DEF Next, Work, Fail
<1> QED
  BY <1>1, LeaseInvCorrect, PTL DEF Spec, LiveWorkerNotRecovered

-----------------------------------------------------------------------------
(* The refinement of JobExecution. *)

(* The jobs some process is executing. *)
InHand == {j \in JobIds : \E w \in Workers : Executing(w, j)}

Exclusive == {j \in JobIds : status[j] # "ABSENT" /\ RequiresMaintenanceLock(kind[j])}

(* The phase of a job in terms of its row and of the jobs in hand, before    *)
(* and after a step.                                                         *)
LEMMA Phases ==
  ASSUME NEW j \in JobIds
  PROVE  /\ status[j] = "ABSENT" => PhaseOf(j) = "absent"
         /\ status[j] = "PENDING" => PhaseOf(j) = "waiting"
         /\ status[j] \in Terminal => PhaseOf(j) = "done"
         /\ status[j] = "RUNNING" /\ j \in InHand => PhaseOf(j) = "executing"
         /\ status[j] = "RUNNING" /\ j \notin InHand => PhaseOf(j) = "lost"
BY DEF PhaseOf, InHand, Terminal

LEMMA PhasesAfter ==
  ASSUME NEW j \in JobIds
  PROVE  /\ status'[j] = "ABSENT" => PhaseOf(j)' = "absent"
         /\ status'[j] = "PENDING" => PhaseOf(j)' = "waiting"
         /\ status'[j] \in Terminal => PhaseOf(j)' = "done"
         /\ status'[j] = "RUNNING" /\ j \in InHand' => PhaseOf(j)' = "executing"
         /\ status'[j] = "RUNNING" /\ j \notin InHand' => PhaseOf(j)' = "lost"
BY DEF PhaseOf, InHand, Terminal

(* A row and a job in hand that stay as they are keep the phase. *)
LEMMA PhaseKept ==
  ASSUME TypeOK, NEW j \in JobIds, status'[j] = status[j],
         status[j] = "RUNNING" => (j \in InHand <=> j \in InHand')
  PROVE  PhaseOf(j)' = PhaseOf(j)
<1>1. status[j] \in {"ABSENT", "PENDING", "RUNNING"} \cup Terminal
  BY DEF TypeOK, Status
<1> QED BY <1>1, Phases, PhasesAfter

(* One job that changes its phase is a step of the abstract queue. *)
LEMMA PhaseStep ==
  ASSUME NEW j \in JobIds, NEW before, NEW after,
         PhaseOf(j) = before, PhaseOf(j)' = after,
         \A i \in JobIds \ {j} : PhaseOf(i)' = PhaseOf(i)
  PROVE  Execution!Become(j, before, after)
BY DEF Execution!Become

(* Steps that leave the phases and the exclusive jobs alone are stutters. *)
LEMMA PhaseStutter ==
  ASSUME \A i \in JobIds : PhaseOf(i)' = PhaseOf(i), Exclusive' = Exclusive
  PROVE  UNCHANGED Execution!vars
BY DEF Execution!vars, Exclusive

(* Which jobs are in hand after the steps that may change it. *)
LEMMA InHandStep ==
  ASSUME LeaseInv
  PROVE  /\ \A w \in Workers : Claim(w) \/ Recover(w) => InHand = {}
         /\ \A w \in Workers : \A j \in JobIds : Executing(w, j) => InHand = {j}
<1>1. TypeOK /\ Leased
  BY DEF LeaseInv, KeyInv
<1>2. ASSUME NEW w \in Workers, Claim(w) \/ Recover(w) PROVE InHand = {}
  <2>1. proc[w] \in {"idle", "recovering"}
    BY <1>2 DEF Claim, Recover
  <2>2. \A v \in Workers : proc[v] # "executing"
    BY <1>1, <2>1, OneLiveWorker
  <2> QED BY <2>2 DEF InHand, Executing
<1>3. ASSUME NEW w \in Workers, NEW j \in JobIds, Executing(w, j) PROVE InHand = {j}
  <2>1. \A v \in Workers : proc[v] = "executing" => v = w
    BY <1>1, <1>3, OneLiveWorker DEF Executing
  <2> QED BY <1>3, <2>1 DEF InHand, Executing
<1> QED BY <1>2, <1>3

(* Every step of the queue is a step of JobExecution or leaves it alone. *)
LEMMA StepExecution ==
  ASSUME TimelyHeartbeats
  PROVE  LeaseInv /\ [Next]_vars => [Execution!Next]_(Execution!vars)
<1> SUFFICES ASSUME LeaseInv, [Next]_vars PROVE Execution!Next \/ UNCHANGED Execution!vars
  OBVIOUS
<1> DEFINE Goal == Execution!Next \/ UNCHANGED Execution!vars
<1>0. TypeOK /\ FreshIds /\ Leased /\ Engaged /\ Taken
  BY DEF LeaseInv, KeyInv
<1>1. ASSUME UNCHANGED <<kind, lastId>>, \A j \in JobIds : Advances(j) PROVE Exclusive' = Exclusive
  BY <1>1 DEF Exclusive, Advances, Terminal
<1>2. ASSUME NEW c \in Requests, Insert(c) PROVE Goal
  <2> PICK new \in JobIds : new = lastId + 1
    BY <1>0, <1>2, InsertedRow
  <2>1. /\ status[new] = "ABSENT"
        /\ status' = [status EXCEPT ![new] = "PENDING"]
        /\ kind' = [kind EXCEPT ![new] = request[c][1]]
    BY <1>0, <1>2, InsertedRow DEF FreshIds, TypeOK
  <2>2. InHand' = InHand
    BY <1>2 DEF Insert, InHand, Executing, procVars
  <2>3. PhaseOf(new) = "absent" /\ PhaseOf(new)' = "waiting"
    BY <1>0, <2>1, Phases, PhasesAfter DEF TypeOK
  <2>4. \A i \in JobIds \ {new} : PhaseOf(i)' = PhaseOf(i)
    BY <1>0, <2>1, <2>2, PhaseKept DEF TypeOK
  <2>5. Exclusive' \in {Exclusive, Exclusive \cup {new}}
    BY <1>0, <2>1 DEF Exclusive, TypeOK
  <2>6. Execution!Submit(new)
    BY <2>1, <2>3, <2>4, <2>5, PhaseStep DEF Execution!Submit, Exclusive
  <2> QED BY <2>1, <2>6 DEF Execution!Next
<1>3. ASSUME \A c \in Requests : ~Insert(c) PROVE Exclusive' = Exclusive
  BY <1>0, <1>1, <1>3, RowsAdvance
<1>4. ASSUME NEW j \in JobIds, Withdraw(j), Exclusive' = Exclusive PROVE Goal
  <2>1. status[j] = "PENDING" /\ status' = [status EXCEPT ![j] = "CANCELLED"]
    BY <1>4 DEF Withdraw
  <2>2. InHand' = InHand
    BY <1>4 DEF Withdraw, InHand, Executing, procVars
  <2>3. PhaseOf(j) = "waiting" /\ PhaseOf(j)' = "done"
    BY <1>0, <2>1, Phases, PhasesAfter DEF TypeOK, Terminal
  <2>4. \A i \in JobIds \ {j} : PhaseOf(i)' = PhaseOf(i)
    BY <1>0, <2>1, <2>2, PhaseKept DEF TypeOK
  <2>5. Execution!Withdraw(j)
    BY <1>4, <2>3, <2>4, PhaseStep DEF Execution!Withdraw, Exclusive
  <2> QED BY <2>5 DEF Execution!Next
<1>5. ASSUME NEW w \in Workers, Recover(w), Exclusive' = Exclusive PROVE Goal
  <2>1. status' = Recovered /\ InHand = {}
    BY <1>5, InHandStep DEF Recover
  <2>2. ASSUME NEW j \in JobIds
        PROVE  PhaseOf(j)' = IF PhaseOf(j) = "lost" THEN "done" ELSE PhaseOf(j)
    <3>1. status[j] \in {"ABSENT", "PENDING", "RUNNING"} \cup Terminal
      BY <1>0 DEF TypeOK, Status
    <3>2. CASE status[j] = "RUNNING"
      BY <2>1, <3>2, Phases, PhasesAfter DEF Recovered, Terminal
    <3>3. CASE status[j] # "RUNNING"
      BY <2>1, <3>1, <3>3, Phases, PhasesAfter DEF Recovered
    <3> QED BY <3>2, <3>3
  <2>3. Execution!CloseLost
    BY <1>5, <2>2 DEF Execution!CloseLost, Exclusive
  <2> QED BY <2>3 DEF Execution!Next
<1>6. ASSUME NEW w \in Workers, Claim(w), Exclusive' = Exclusive PROVE Goal
  <2> PICK j \in JobIds : /\ status[j] = "PENDING"
                          /\ status' = [status EXCEPT ![j] = "RUNNING"]
                          /\ proc' = [proc EXCEPT ![w] = "executing"]
                          /\ current' = [current EXCEPT ![w] = j]
    BY <1>6 DEF Claim, Oldest, Claimable
  <2>1. InHand = {}
    BY <1>6, InHandStep
  <2>2. InHand' = {j}
    BY <1>0, <2>1 DEF InHand, Executing, TypeOK
  <2>3. PhaseOf(j) = "waiting" /\ PhaseOf(j)' = "executing"
    BY <1>0, <2>2, Phases, PhasesAfter DEF TypeOK
  <2>4. \A i \in JobIds \ {j} : PhaseOf(i)' = PhaseOf(i)
    BY <1>0, <2>1, <2>2, PhaseKept DEF TypeOK
  <2>5. \A i \in JobIds : PhaseOf(i) # "executing"
    <3> TAKE i \in JobIds
    <3>1. status[i] \in {"ABSENT", "PENDING", "RUNNING"} \cup Terminal
      BY <1>0 DEF TypeOK, Status
    <3> QED BY <2>1, <3>1, Phases
  <2>6. Execution!Begin(j)
    BY <1>6, <2>3, <2>4, <2>5, PhaseStep DEF Execution!Begin, Exclusive
  <2> QED BY <2>6 DEF Execution!Next
<1>7. ASSUME NEW w \in Workers, Settle(w), Exclusive' = Exclusive PROVE Goal
  <2> PICK j \in JobIds : j = current[w] /\ status[j] = "RUNNING" /\ Executing(w, j)
    BY <1>0, <1>7 DEF Settle, Engaged, Executing
  <2> PICK o \in Terminal : status' = [status EXCEPT ![j] = o]
    BY <1>7 DEF Settle, Outcomes, Terminal
  <2>1. InHand = {j} /\ InHand' = {}
    <3>1. InHand = {j} /\ \A v \in Workers : proc[v] = "executing" => v = w
      BY <1>0, InHandStep, OneLiveWorker DEF Executing
    <3>2. /\ proc'[w] \in {"noting", "settled"} /\ proc' = [proc EXCEPT ![w] = proc'[w]]
          /\ current' = current
      BY <1>0, <1>7 DEF Settle, TypeOK
    <3> QED BY <1>0, <3>1, <3>2 DEF InHand, Executing, TypeOK
  <2>2. PhaseOf(j) = "executing" /\ PhaseOf(j)' = "done"
    BY <1>0, <2>1, Phases, PhasesAfter DEF TypeOK
  <2>3. \A i \in JobIds \ {j} : PhaseOf(i)' = PhaseOf(i)
    BY <1>0, <2>1, PhaseKept DEF TypeOK
  <2>4. Execution!End(j)
    BY <1>7, <2>2, <2>3, PhaseStep DEF Execution!End, Exclusive
  <2> QED BY <2>4 DEF Execution!Next
<1>8. ASSUME NEW w \in Workers, NEW j \in JobIds, Executing(w, j),
             status' = status, InHand' = {}, Exclusive' = Exclusive
      PROVE  Goal
  <2>1. InHand = {j} /\ status[j] = "RUNNING"
    BY <1>0, <1>8, InHandStep DEF Executing, Engaged
  <2>2. PhaseOf(j) = "executing" /\ PhaseOf(j)' = "lost"
    BY <1>8, <2>1, Phases, PhasesAfter
  <2>3. \A i \in JobIds \ {j} : PhaseOf(i)' = PhaseOf(i)
    BY <1>0, <1>8, <2>1, PhaseKept
  <2>4. Execution!Lose(j)
    BY <1>8, <2>2, <2>3, PhaseStep DEF Execution!Lose, Exclusive
  <2> QED BY <2>4 DEF Execution!Next
<1>9. ASSUME status' = status, InHand' = InHand, Exclusive' = Exclusive PROVE Goal
  <2>1. \A j \in JobIds : PhaseOf(j)' = PhaseOf(j)
    BY <1>0, <1>9, PhaseKept
  <2> QED BY <1>9, <2>1, PhaseStutter
<1>10. ASSUME NEW w \in Workers, Leave(w)
       PROVE  /\ status' = status
              /\ \/ InHand' = InHand
                 \/ InHand' = {} /\ \E j \in JobIds : Executing(w, j)
  <2>1. status' = status
    BY <1>10 DEF Leave, Strand, Abort, ReleaseFails, Exit, Crash, jobVars
  <2>2. /\ proc' \in {[proc EXCEPT ![w] = "idle"], [proc EXCEPT ![w] = "off"]}
        /\ \A v \in Workers \ {w} : current'[v] = current[v]
    BY <1>0, <1>10 DEF Leave, Strand, Abort, ReleaseFails, Exit, Crash, TypeOK
  <2>3. \A v \in Workers, j \in JobIds : Executing(v, j)' <=> v # w /\ Executing(v, j)
    BY <1>0, <2>2 DEF Executing, TypeOK
  <2>4. CASE \E j \in JobIds : Executing(w, j)
    <3> PICK j \in JobIds : Executing(w, j)
      BY <2>4
    <3>1. InHand = {j} /\ \A v \in Workers : proc[v] = "executing" => v = w
      BY <1>0, InHandStep, OneLiveWorker DEF Executing
    <3>2. InHand' = {}
      BY <2>3, <3>1 DEF InHand, Executing
    <3> QED BY <2>1, <2>4, <3>2
  <2>5. CASE ~\E j \in JobIds : Executing(w, j)
    <3>1. \A v \in Workers, j \in JobIds : Executing(v, j)' <=> Executing(v, j)
      BY <2>3, <2>5
    <3> QED BY <2>1, <3>1 DEF InHand
  <2> QED BY <2>4, <2>5
<1>14. ASSUME NEW w \in Workers, NoteFails(w), Exclusive' = Exclusive PROVE Goal
  <2>1. /\ proc[w] = "noting" /\ proc' = [proc EXCEPT ![w] = "settled"] /\ current' = current
        /\ status' = [status EXCEPT ![current[w]] = "FAILED"]
    BY <1>14 DEF NoteFails
  <2> PICK j \in JobIds : j = current[w] /\ status[j] = "SUCCEEDED"
    BY <1>0, <2>1 DEF Engaged
  <2>2. InHand' = InHand
    BY <1>0, <2>1 DEF InHand, Executing, TypeOK
  <2>3. PhaseOf(j)' = PhaseOf(j)
    BY <1>0, <2>1, Phases, PhasesAfter DEF TypeOK, Terminal
  <2>4. ASSUME NEW i \in JobIds, i # j PROVE PhaseOf(i)' = PhaseOf(i)
    BY <1>0, <2>1, <2>2, <2>4, PhaseKept DEF TypeOK
  <2>5. \A i \in JobIds : PhaseOf(i)' = PhaseOf(i)
    BY <2>3, <2>4
  <2> QED BY <1>14, <2>5, PhaseStutter
<1>11. ASSUME NEW w \in Workers,
              Start(w) \/ Beat(w) \/ PollEmpty(w) \/ Note(w) \/ Release(w)
       PROVE  status' = status /\ InHand' = InHand
  <2>1. status' = status
    BY <1>11 DEF Start, Beat, PollEmpty, Note, Release, jobVars
  <2>2. \A v \in Workers, j \in JobIds : Executing(v, j)' <=> Executing(v, j)
    BY <1>0, <1>11 DEF Start, Beat, PollEmpty, Note, Release, Executing, procVars, TypeOK
  <2> QED BY <2>1, <2>2 DEF InHand
<1>12. ASSUME NEW c \in Requests, PreCheck(c) \/ Conflict(c)
       PROVE  status' = status /\ InHand' = InHand
  BY <1>12 DEF PreCheck, Conflict, jobVars, procVars, InHand, Executing
<1>13. ASSUME LeaseExpires \/ UNCHANGED vars PROVE status' = status /\ InHand' = InHand
  BY <1>13 DEF LeaseExpires, vars, jobVars, procVars, InHand, Executing
<1> QED
  <2>1. CASE \E c \in Requests : Insert(c)
    BY <1>2, <2>1
  <2>2. CASE \A c \in Requests : ~Insert(c)
    <3>1. Exclusive' = Exclusive
      BY <1>3, <2>2
    <3>2. ASSUME NEW w \in Workers, Fail(w) PROVE Goal
      BY <1>8, <1>9, <1>10, <1>14, <3>1, <3>2 DEF Fail
    <3> QED
      BY <1>4, <1>5, <1>6, <1>7, <1>9, <1>11, <1>12, <1>13, <2>2, <3>1, <3>2
      DEF Next, Web, Work
  <2> QED BY <2>1, <2>2

(* The queue keeps the promise of JobExecution: a job is begun at most once, *)
(* a lost one is only closed, and exclusive jobs run one at a time.          *)
THEOREM ExecutionIsKept ==
  ASSUME TimelyHeartbeats
  PROVE  Spec => ImplementsExecution
<1>1. Init => Execution!Init
  <2> SUFFICES ASSUME Init PROVE Execution!Init
    OBVIOUS
  <2>1. \A j \in JobIds : status[j] = "ABSENT" /\ PhaseOf(j) = "absent"
    BY Phases DEF Init
  <2> QED BY <2>1 DEF Execution!Init
<1> QED
  BY <1>1, StepExecution, LeaseInvCorrect, PTL DEF Spec, ImplementsExecution, Execution!Spec
=============================================================================
