---------------------------- MODULE LocalBackupProofs ----------------------------
(***************************************************************************)
(* Theorems of LocalBackup for every number of backups, retention setting,   *)
(* exceptions and deaths of the worker: which archives and records there may  *)
(* be, and what they are removed by.                                         *)
(***************************************************************************)
EXTENDS LocalBackup, FiniteSetTheorems, WellFoundedInduction, TLAPS

(* Ids are handed out in order and only the last one may be unfinished.      *)
RowInv ==
  /\ TypeOK
  /\ \A j \in JobIds : /\ j > lastId => status[j] = "ABSENT"
                       /\ Active(j) => j = lastId

(* The job in hand is RUNNING; between jobs and during recovery there is none. *)
PlaceInv ==
  /\ step \in {"idle", "down", "cleaning"} <=> current = NoJob
  /\ current # NoJob => status[current] = "RUNNING"
  /\ interrupted # {} => step = "cleaning"
  /\ step = "cleaning" => \A j \in JobIds : status[j] # "RUNNING"
  /\ \A j \in interrupted : status[j] = "INTERRUPTED"

(* Only successes have records, and retention has dropped no newer one.      *)
RecordInv ==
  /\ \A r \in records : status[r] = "SUCCEEDED"
  /\ NewestAreKept

(* What retention has selected reaches no further up than what it keeps, and  *)
(* what is yet to be unlinked is part of it.                                 *)
DoomedInv ==
  /\ step = "retaining" =>
       \A r \in (records \cup {current}) \ doomed, j \in records \cup {current} :
         j > r => j \notin doomed
  /\ doomed \cap files \subseteq pending
  /\ doomed # {} => step = "retaining"

(* An archive is left behind by a job that has failed or is about to.        *)
LeftInv ==
  /\ \A f \in left : status[f] \in {"RUNNING", "FAILED", "INTERRUPTED"}
  /\ current \in left => step = "failed"

(* A file without a record belongs to the job in hand, or to one that was    *)
(* interrupted or is about to be, or it was left behind.                     *)
FileInv ==
  \A f \in files \ records :
    \/ status[f] = "INTERRUPTED"
    \/ step = "down" /\ status[f] = "RUNNING"
    \/ f = current /\ step \in {"placed", "validating", "registering", "retaining"}
    \/ f \in left /\ status[f] \in {"FAILED", "RUNNING"}

IInv == RowInv /\ PlaceInv /\ RecordInv /\ DoomedInv /\ LeftInv /\ FileInv
-----------------------------------------------------------------------------
(* The largest member of a set of ids. *)
LEMMA MaxOfIds ==
  ASSUME NEW n \in Nat, NEW S \in SUBSET (1..n), S # {}
  PROVE  Max(S) \in S
<1> DEFINE Above(x) == {q \in S : q > x}
<1>1. IsFiniteSet(S)
  <2>1. IsFiniteSet(1..n)
    BY FS_Interval, 1 \in Int, n \in Int
  <2> QED
    BY <2>1, FS_Subset
<1>2. \A x \in S : Above(x) \in SUBSET S /\ IsFiniteSet(Above(x))
  BY <1>1, FS_Subset
<1>3. ASSUME NEW x \in S, NEW y \in S, y > x
      PROVE  Above(y) \subseteq Above(x) /\ y \in Above(x) /\ y \notin Above(y)
  <2>1. \A q \in S : q > y => q > x
    BY <1>3
  <2>2. ~(y > y)
    BY <1>3
  <2> QED
    BY <1>3, <2>1, <2>2
<1> HIDE DEF Above
<1> DEFINE T == {Above(x) : x \in S}
           Smaller == StrictSubsetOrdering(S)
<1>4. T \subseteq FiniteSubsetsOf(S) /\ T # {}
  BY <1>2 DEF FiniteSubsetsOf
<1>5. PICK t \in T : \A u \in T : ~(<<u, t>> \in Smaller)
  BY <1>4, FS_StrictSubsetOrderingWellFounded, WFMin
<1>6. PICK x \in S : t = Above(x)
  OBVIOUS
<1>7. \A y \in S : x >= y
  <2> SUFFICES ASSUME NEW y \in S, y > x PROVE FALSE
    OBVIOUS
  <2>1. <<Above(y), Above(x)>> \in Smaller
    BY <1>2, <1>3 DEF StrictSubsetOrdering
  <2> QED
    BY <1>5, <1>6, <2>1
<1> QED
  BY <1>7 DEF Max

(* Retention keeps whatever is newer than something it keeps.                *)
LEMMA NewestIsUpward ==
  ASSUME NEW n \in Nat, NEW S \in SUBSET (1..n), NEW k \in Nat,
         NEW r \in Newest(S, k), NEW j \in S, j > r
  PROVE  j \in Newest(S, k)
<1> DEFINE Above(x) == {q \in S : q > x}
<1>1. IsFiniteSet(S)
  <2>1. IsFiniteSet(1..n)
    BY FS_Interval, 1 \in Int, n \in Int
  <2> QED
    BY <2>1, FS_Subset
<1>2. IsFiniteSet(Above(r)) /\ Above(r) \subseteq S
  BY <1>1, FS_Subset
<1>3. Above(j) \subseteq Above(r)
  <2>1. \A q \in S : q > j => q > r
    BY DEF Newest
  <2> QED
    BY <2>1
<1>4. Cardinality(Above(j)) <= Cardinality(Above(r))
  BY <1>2, <1>3, FS_Subset
<1>5. Cardinality(Above(j)) \in Nat /\ Cardinality(Above(r)) \in Nat
  BY <1>1, <1>2, FS_Subset, FS_CardinalityType
<1>6. Cardinality(Above(r)) < k
  BY DEF Newest
<1> QED
  BY <1>4, <1>5, <1>6 DEF Newest

-----------------------------------------------------------------------------
LEMMA InitInv == Init => IInv
<1> SUFFICES ASSUME Init PROVE IInv
  OBVIOUS
<1> USE BackupAssumption DEF Init, JobIds, NoJob, Status, Terminal
<1>1. TypeOK
  BY DEF TypeOK
<1> QED
  BY <1>1 DEF IInv, RowInv, PlaceInv, RecordInv, DoomedInv, LeftInv, FileInv, Active,
              NewestAreKept

LEMMA StepInv == IInv /\ [Next]_vars => IInv'
<1> SUFFICES ASSUME IInv, [Next]_vars PROVE IInv'
  OBVIOUS
<1>0. /\ RowInv /\ PlaceInv /\ RecordInv /\ DoomedInv /\ LeftInv /\ FileInv /\ TypeOK
      /\ NewestAreKept
  BY DEF IInv, RowInv, RecordInv
<1>a. current # NoJob => current \in JobIds /\ current = lastId
  BY <1>0 DEF RowInv, TypeOK, PlaceInv, Active, NoJob
<1>b. /\ status \in [JobIds -> Status] /\ cancellable \in [JobIds -> BOOLEAN]
      /\ cancel \in [JobIds -> BOOLEAN] /\ lastId \in 0..MaxJobs
  BY <1>0 DEF TypeOK
<1>c. /\ records \subseteq JobIds /\ files \subseteq JobIds /\ doomed \subseteq JobIds
      /\ interrupted \subseteq JobIds /\ left \subseteq JobIds
  BY <1>0 DEF TypeOK
<1> USE BackupAssumption DEF At, txnVars, rowVars, faultVars
<1>1. CASE UNCHANGED vars
  BY <1>0, <1>1 DEF vars, IInv, RowInv, TypeOK, PlaceInv, RecordInv, NewestAreKept, DoomedInv,
       LeftInv, FileInv, Active
<1>2. CASE Enqueue
  <2> USE <1>2 DEF Enqueue
  <2>1. TypeOK'
    BY <1>0 DEF TypeOK, JobIds, Status
  <2>2. \A j \in JobIds : status'[j] = IF j = lastId + 1 THEN "PENDING" ELSE status[j]
    BY <1>b
  <2>3. status[lastId + 1] = "ABSENT" /\ lastId + 1 \in JobIds
    BY <1>0, <1>b DEF RowInv, JobIds
  <2>4. current = NoJob
    BY <1>0, <1>a DEF PlaceInv, Active
  <2>5. RowInv'
    BY <1>0, <1>b, <2>1, <2>2 DEF RowInv, Active, JobIds
  <2>6. PlaceInv'
    BY <1>0, <1>c, <2>2, <2>3, <2>4 DEF PlaceInv
  <2>7. RecordInv'
    BY <1>0, <1>c, <2>2, <2>3 DEF RecordInv, NewestAreKept
  <2>8. DoomedInv' /\ LeftInv' /\ FileInv'
    BY <1>0, <1>c, <2>2, <2>3, <2>4 DEF DoomedInv, LeftInv, FileInv
  <2> QED
    BY <2>5, <2>6, <2>7, <2>8 DEF IInv
(* Steps that leave the columns, the records and the files alone.            *)
<1>3. CASE \/ \E j \in JobIds : RequestCancel(j)
           \/ ChangeRetention \/ CheckpointCancels \/ ReadLastCheckpoint \/ WriteLastCheckpoint
           \/ MarkPublished \/ Validated \/ Strand
  <2> USE <1>3 DEF RequestCancel, ChangeRetention, CheckpointCancels, ReadLastCheckpoint,
                   WriteLastCheckpoint, MarkPublished, Validated, Strand, Fault
  <2>1. TypeOK'
    <3>1. CASE \E j \in JobIds : RequestCancel(j)
      BY <1>0, <3>1 DEF TypeOK
    <3>2. CASE ChangeRetention \/ CheckpointCancels \/ ReadLastCheckpoint \/ MarkPublished
               \/ Validated
      BY <1>0, <3>2 DEF TypeOK
    <3>3. CASE WriteLastCheckpoint
      BY <1>0, <3>3 DEF TypeOK
    <3>4. CASE Strand
      BY <1>0, <3>4 DEF TypeOK, NoJob
    <3> QED
      BY <1>3, <3>1, <3>2, <3>3, <3>4
  <2>2. UNCHANGED <<status, lastId, records, files, doomed, pending, interrupted, left>>
    OBVIOUS
  <2>3. RowInv' /\ RecordInv'
    BY <1>0, <2>1, <2>2 DEF RowInv, RecordInv, NewestAreKept, Active
  <2>4. PlaceInv'
    BY <1>0, <2>2 DEF PlaceInv
  <2>5. DoomedInv'
    BY <1>0, <2>2 DEF DoomedInv
  <2>6. LeftInv' /\ FileInv'
    <3>1. CASE Strand
      BY <1>0, <1>c, <2>2, <3>1 DEF LeftInv, FileInv, NoJob, JobIds
    <3>2. CASE ~Strand
      BY <1>0, <2>2, <3>2 DEF LeftInv, FileInv, PlaceInv
    <3> QED
      BY <3>1, <3>2
  <2> QED
    BY <2>3, <2>4, <2>5, <2>6 DEF IInv
<1>4. CASE Claim
  <2> PICK j \in JobIds :
        /\ status[j] = "PENDING" /\ current' = j
        /\ status' = [status EXCEPT ![j] = "RUNNING"] /\ staging' = staging \cup {j}
    BY <1>4 DEF Claim
  <2> USE <1>4 DEF Claim
  <2>1. TypeOK'
    BY <1>0 DEF TypeOK, Status
  <2>2. \A i \in JobIds : status'[i] = IF i = j THEN "RUNNING" ELSE status[i]
    BY <1>b
  <2>3. RowInv'
    BY <1>0, <2>1, <2>2 DEF RowInv, Active
  <2>4. PlaceInv'
    BY <1>0, <1>c, <2>2 DEF PlaceInv, NoJob, JobIds
  <2>5. RecordInv'
    BY <1>0, <1>c, <2>2 DEF RecordInv, NewestAreKept
  <2>6. DoomedInv' /\ LeftInv' /\ FileInv'
    BY <1>0, <1>c, <2>2 DEF DoomedInv, LeftInv, FileInv, PlaceInv
  <2> QED
    BY <2>3, <2>4, <2>5, <2>6 DEF IInv
<1>5. CASE Publish
  <2> USE <1>5 DEF Publish
  <2>0. current # NoJob
    BY <1>0 DEF PlaceInv
  <2>1. TypeOK'
    BY <1>0, <1>a, <2>0 DEF TypeOK
  <2>2. RowInv' /\ RecordInv' /\ PlaceInv'
    BY <1>0, <2>1 DEF RowInv, RecordInv, NewestAreKept, PlaceInv, Active
  <2>3. DoomedInv' /\ LeftInv' /\ FileInv'
    BY <1>0 DEF DoomedInv, LeftInv, FileInv
  <2> QED
    BY <2>2, <2>3 DEF IInv
<1>6. CASE Register
  <2> USE <1>6 DEF Register
  <2>0. current # NoJob
    BY <1>0 DEF PlaceInv
  <2> DEFINE all == records \cup {current}
  <2>1. all \in SUBSET (1..MaxJobs) /\ retention \in Nat /\ MaxJobs \in Nat
    BY <1>0, <1>a, <2>0 DEF TypeOK, JobIds
  <2>2. \A r \in Newest(all, retention), j \in all : j > r => j \in Newest(all, retention)
    BY <2>1, NewestIsUpward
  <2>3. /\ doomed' = all \ Newest(all, retention) /\ pending' = doomed' /\ step' = "retaining"
        /\ UNCHANGED <<records, files, current, status, lastId, left>>
    OBVIOUS
  <2> HIDE DEF all
  <2>4. TypeOK'
    BY <1>0, <2>1, <2>3 DEF TypeOK, JobIds
  <2>5. RowInv' /\ RecordInv' /\ PlaceInv'
    BY <1>0, <2>4 DEF RowInv, RecordInv, NewestAreKept, PlaceInv, Active
  <2>6. DoomedInv'
    <3>1. \A r \in all \ doomed', j \in all : j > r => j \notin doomed'
      BY <2>2, <2>3
    <3> QED
      BY <2>3, <3>1 DEF DoomedInv, all
  <2>7. LeftInv' /\ FileInv'
    BY <1>0, <2>3 DEF LeftInv, FileInv
  <2> QED
    BY <2>5, <2>6, <2>7 DEF IInv
<1>7. CASE Unlink
  <2> USE <1>7 DEF Unlink
  <2>1. TypeOK'
    BY <1>0 DEF TypeOK
  <2>2. /\ files' = files \ {Max(pending)} /\ pending' = pending \ {Max(pending)}
        /\ UNCHANGED <<status, lastId, records, step, current, doomed, interrupted, left>>
    OBVIOUS
  <2>3. RowInv' /\ RecordInv' /\ PlaceInv'
    BY <1>0, <2>1, <2>2 DEF RowInv, RecordInv, NewestAreKept, PlaceInv, Active
  <2>4. DoomedInv' /\ LeftInv' /\ FileInv'
    BY <1>0, <2>2 DEF DoomedInv, LeftInv, FileInv
  <2> QED
    BY <2>3, <2>4 DEF IInv
(* An outcome of the job in hand.                                            *)
<1>8. CASE Commit \/ FinishCancelled \/ FinishFailed
  <2>0. current # NoJob /\ current \in JobIds /\ current = lastId
    BY <1>0, <1>8, <1>a DEF PlaceInv, Commit, FinishCancelled, FinishFailed
  <2> PICK result \in Terminal :
        /\ Finish(result) /\ (result = "SUCCEEDED" <=> Commit)
        /\ (result = "FAILED" <=> FinishFailed)
    BY <1>8 DEF Commit, FinishCancelled, FinishFailed, Terminal
  <2>1. \A j \in JobIds : status'[j] = IF j = current THEN result ELSE status[j]
    BY <1>b DEF Finish
  <2>2. /\ step' = "idle" /\ current' = NoJob /\ files' = files /\ interrupted' = interrupted
        /\ lastId' = lastId /\ doomed' = {} /\ left' = left
    BY <1>0, <1>8 DEF Commit, FinishCancelled, FinishFailed, Finish, DoomedInv
  <2>3. TypeOK'
    <3>1. status' \in [JobIds -> Status] /\ cancellable' \in [JobIds -> BOOLEAN]
      BY <1>b DEF Finish, Status
    <3>2. /\ records' \subseteq JobIds /\ pending' \subseteq doomed'
          /\ UNCHANGED <<cancel, lastId, retention, staging, faults, crashes>>
      BY <1>0, <1>8, <1>c, <2>0 DEF TypeOK, Commit, FinishCancelled, FinishFailed
    <3> QED
      BY <1>0, <2>2, <3>1, <3>2 DEF TypeOK
  <2>4. RowInv'
    <3>1. \A j \in JobIds : /\ j > lastId' => status'[j] = "ABSENT"
                            /\ status'[j] \in {"PENDING", "RUNNING"} => j = lastId'
      BY <1>0, <1>b, <2>0, <2>1, <2>2 DEF RowInv, Active, Terminal, JobIds
    <3> QED
      BY <2>3, <3>1 DEF RowInv, Active
  <2>5. PlaceInv'
    BY <1>0, <1>8, <2>1, <2>2 DEF PlaceInv, Commit, FinishCancelled, FinishFailed
  <2>9. LeftInv'
    <3>1. current \in left => result = "FAILED"
      BY <1>0, <1>8 DEF LeftInv, Commit, FinishCancelled, FinishFailed
    <3>2. NoJob \notin left
      BY <1>c DEF NoJob, JobIds
    <3> QED
      BY <1>0, <1>c, <2>1, <2>2, <3>1, <3>2 DEF LeftInv
  <2>6. CASE Commit
    <3>1. step = "retaining" /\ pending = {} /\ records' = (records \cup {current}) \ doomed
          /\ result = "SUCCEEDED"
      BY <2>6 DEF Commit
    <3>2. RecordInv'
      <4>1. \A r \in records' : status'[r] = "SUCCEEDED"
        BY <1>0, <1>c, <2>0, <2>1, <3>1 DEF RecordInv
      <4>2. ASSUME NEW r \in records', NEW j \in JobIds, j > r, status'[j] = "SUCCEEDED"
            PROVE  j \in records'
        <5>1. r \in (records \cup {current}) \ doomed /\ r \in JobIds
          BY <1>c, <2>0, <3>1, <4>2
        <5>2. j \in records \cup {current}
          <6>1. CASE j = current
            BY <6>1
          <6>2. CASE j # current
            <7>1. status[j] = "SUCCEEDED"
              BY <2>1, <4>2, <6>2
            <7>2. j <= lastId
              BY <1>0, <1>b, <7>1 DEF RowInv, JobIds
            <7>3. r # current
              BY <1>b, <2>0, <4>2, <7>2 DEF JobIds
            <7> QED
              BY <1>0, <4>2, <5>1, <7>1, <7>3 DEF NewestAreKept
          <6> QED
            BY <6>1, <6>2
        <5> QED
          BY <1>0, <3>1, <4>2, <5>1, <5>2 DEF DoomedInv
      <4> QED
        BY <2>2, <4>1, <4>2 DEF RecordInv, NewestAreKept
    <3>3. FileInv'
      <4>1. ASSUME NEW f \in files' \ records'
            PROVE  \/ status'[f] = "INTERRUPTED"
                   \/ f \in left' /\ status'[f] \in {"FAILED", "RUNNING"}
        <5>1. f \in files \ records /\ f # current /\ f \in JobIds
          BY <1>0, <1>c, <2>2, <3>1 DEF DoomedInv
        <5> QED
          BY <1>0, <2>1, <2>2, <3>1, <5>1 DEF FileInv
      <4> QED
        BY <4>1 DEF FileInv
    <3>4. DoomedInv'
      BY <2>2 DEF DoomedInv
    <3> QED
      BY <2>4, <2>5, <2>9, <3>2, <3>3, <3>4 DEF IInv
  <2>7. CASE ~Commit
    <3>1. records' = records /\ step \in {"cancelled", "failed"} /\ result # "SUCCEEDED"
      BY <1>8, <2>7 DEF FinishCancelled, FinishFailed
    <3>2. RecordInv'
      BY <1>0, <1>c, <2>1, <3>1 DEF RecordInv, NewestAreKept, PlaceInv
    <3>3. FileInv'
      <4>1. current \in left => step = "failed" /\ result = "FAILED"
        BY <1>0, <1>8, <2>7 DEF LeftInv, FinishCancelled, FinishFailed
      <4> QED
        BY <1>0, <1>c, <2>1, <2>2, <3>1, <4>1 DEF FileInv, PlaceInv
    <3>4. DoomedInv'
      BY <2>2 DEF DoomedInv
    <3> QED
      BY <2>4, <2>5, <2>9, <3>2, <3>3, <3>4 DEF IInv
  <2> QED
    BY <2>6, <2>7
<1>9. CASE Raise \/ LeaveArchive \/ StrandInRemoval
  <2> USE DEF Abandon, Fault
  <2>0. current # NoJob /\ status[current] = "RUNNING" /\ current \in JobIds
    BY <1>0, <1>9, <1>a DEF PlaceInv, Raise, LeaveArchive, StrandInRemoval
  <2>1. TypeOK'
    <3>1. CASE Raise
      BY <1>0, <3>1 DEF TypeOK, Raise
    <3>2. CASE LeaveArchive
      BY <1>0, <2>0, <3>2 DEF TypeOK, LeaveArchive
    <3>3. CASE StrandInRemoval
      BY <1>0, <2>0, <3>3 DEF TypeOK, StrandInRemoval
    <3> QED
      BY <1>9, <3>1, <3>2, <3>3
  <2>2. UNCHANGED <<status, lastId, records, interrupted>> /\ doomed' = {}
    BY <1>9 DEF Raise, LeaveArchive, StrandInRemoval
  <2>3. RowInv' /\ RecordInv'
    BY <1>0, <2>1, <2>2 DEF RowInv, RecordInv, NewestAreKept, Active
  <2>4. PlaceInv'
    BY <1>0, <1>9, <2>2 DEF PlaceInv, Raise, LeaveArchive, StrandInRemoval
  <2>5. DoomedInv'
    BY <1>9, <2>2 DEF DoomedInv, Raise, LeaveArchive, StrandInRemoval
  <2>6. LeftInv' /\ FileInv'
    <3>1. CASE Raise
      BY <1>0, <2>0, <2>2, <3>1 DEF LeftInv, FileInv, Raise
    <3>2. CASE LeaveArchive
      BY <1>0, <2>0, <2>2, <3>2 DEF LeftInv, FileInv, LeaveArchive
    <3>3. CASE StrandInRemoval
      BY <1>0, <1>c, <2>0, <2>2, <3>3 DEF LeftInv, FileInv, StrandInRemoval, NoJob, JobIds
    <3> QED
      BY <1>9, <3>1, <3>2, <3>3
  <2> QED
    BY <2>3, <2>4, <2>5, <2>6 DEF IInv
<1>10. CASE Crash
  <2> USE <1>10 DEF Crash
  <2>1. TypeOK'
    BY <1>0 DEF TypeOK, NoJob
  <2>2. RowInv' /\ RecordInv' /\ PlaceInv'
    BY <1>0, <2>1 DEF RowInv, RecordInv, NewestAreKept, PlaceInv, Active
  <2>3. DoomedInv' /\ LeftInv' /\ FileInv'
    BY <1>0, <1>c DEF DoomedInv, LeftInv, FileInv, PlaceInv, NoJob, JobIds
  <2> QED
    BY <2>2, <2>3 DEF IInv
<1>11. CASE Recover
  <2> USE <1>11 DEF Recover
  <2>1. \A j \in JobIds : status'[j] = IF status[j] = "RUNNING" THEN "INTERRUPTED" ELSE status[j]
    OBVIOUS
  <2>2. TypeOK'
    BY <1>0 DEF TypeOK, Status, Terminal
  <2>3. RowInv'
    BY <1>0, <2>1, <2>2 DEF RowInv, Active
  <2>4. RecordInv'
    BY <1>0, <1>c, <2>1 DEF RecordInv, NewestAreKept
  <2>5. PlaceInv'
    BY <1>0, <2>1 DEF PlaceInv
  <2>6. DoomedInv' /\ LeftInv' /\ FileInv'
    BY <1>0, <1>c, <2>1 DEF DoomedInv, LeftInv, FileInv
  <2> QED
    BY <2>3, <2>4, <2>5, <2>6 DEF IInv
<1>12. CASE CleanUp
  <2> USE <1>12 DEF CleanUp
  <2>1. TypeOK'
    BY <1>0 DEF TypeOK
  <2>2. RowInv' /\ RecordInv' /\ PlaceInv'
    BY <1>0, <2>1 DEF RowInv, RecordInv, NewestAreKept, PlaceInv, Active
  <2>3. DoomedInv' /\ LeftInv' /\ FileInv'
    BY <1>0 DEF DoomedInv, LeftInv, FileInv
  <2> QED
    BY <2>2, <2>3 DEF IInv
<1> QED
  BY <1>1, <1>2, <1>3, <1>4, <1>5, <1>6, <1>7, <1>8, <1>9, <1>10, <1>11, <1>12
     DEF Next, Web, Worker, Failure

LEMMA Inductive == Spec => []IInv
BY InitInv, StepInv, PTL DEF Spec

(* Retention only ever drops the oldest: a success newer than a kept record  *)
(* has its record too, through rollbacks, crashes and changes of the setting  *)
(* (backups/jobs.py:329, apply_local_retention).                              *)
THEOREM NewestSurvive == Spec => []NewestAreKept
<1>1. IInv => NewestAreKept
  BY DEF IInv, RecordInv
<1> QED
  BY <1>1, Inductive, PTL

(* Between jobs an archive without a record is that of an INTERRUPTED job, or *)
(* of one whose own removal of it failed: no cancel and no other failure      *)
(* leaves one (backups/service.py:149 and 162, LocalBackupService.create).    *)
THEOREM FilesAreAccountedFor == Spec => []UnrecordedFilesAreExplained
<1>1. IInv => UnrecordedFilesAreExplained
  BY DEF IInv, PlaceInv, FileInv, UnrecordedFilesAreExplained
<1> QED
  BY <1>1, Inductive, PTL

(* The archive of a committed record goes only to retention, never with a    *)
(* failed attempt or the clean-up of a restart (worker.py:84).                *)
THEOREM OnlyRetentionDeletes == Spec => RecordedFilesGoToRetention
<1> DEFINE Kept == \A r \in records : r \in files /\ r \notin files' => r \in doomed
<1>1. ASSUME IInv, Next PROVE Kept
  <2>0. /\ TypeOK /\ PlaceInv
        /\ \A r \in records : r \in JobIds /\ status[r] = "SUCCEEDED"
    BY <1>1 DEF IInv, RowInv, RecordInv, TypeOK
  <2>1. CASE Unlink
    <3>1. pending \in SUBSET (1..MaxJobs) /\ pending # {} /\ MaxJobs \in Nat
      BY <2>0, <2>1, BackupAssumption DEF Unlink, TypeOK, JobIds
    <3>2. Max(pending) \in doomed
      BY <2>0, <3>1, MaxOfIds DEF TypeOK
    <3> QED
      BY <2>1, <3>2 DEF Unlink
  <2>2. CASE Raise
    <3>1. current \notin records
      BY <2>0, <2>2 DEF Raise, PlaceInv
    <3> QED
      BY <2>2, <3>1 DEF Raise
  <2>3. CASE CleanUp
    BY <2>0, <2>3 DEF CleanUp, PlaceInv
  <2>4. CASE files \subseteq files'
    BY <2>4
  <2>5. \/ Unlink \/ Raise \/ CleanUp \/ files \subseteq files'
    BY <1>1 DEF Next, Web, Worker, Failure, LeaveArchive, StrandInRemoval, Abandon, Enqueue,
       RequestCancel, ChangeRetention, Claim, CheckpointCancels, ReadLastCheckpoint,
       WriteLastCheckpoint, Publish, MarkPublished, Validated, Register,
       Commit, FinishCancelled, FinishFailed, Recover, Strand, Crash
  <2> QED
    BY <2>1, <2>2, <2>3, <2>4, <2>5
<1>2. IInv /\ [Next]_vars => [Kept]_vars
  BY <1>1
<1> QED
  BY <1>2, Inductive, PTL DEF Spec, RecordedFilesGoToRetention
=============================================================================
