---------------------------- MODULE BackupSchedule ----------------------------
(***************************************************************************)
(* The daily backup.  At the top of its loop the worker reads the clock and *)
(* then, one SELECT at a time outside any transaction, the settings, the    *)
(* marker of the last scheduled date and the active backup; it inserts the  *)
(* job and the marker in one commit.  Meanwhile administrators save         *)
(* settings and request backups, time passes and the worker dies.           *)
(***************************************************************************)
EXTENDS ManagerSettings

CONSTANTS
  TicksPerDay,   \* resolution of the clock
  LastTick,      \* bound: the clock
  NoDate,        \* no date was scheduled yet
  MaxRequests,   \* bound: backups requested by hand
  MaxSetBacks,   \* bound: times the clock is set back
  MaxCrashes     \* bound: crashes of the worker

ASSUME ScheduleAssumption ==
  /\ TicksPerDay \in Nat \ {0}
  /\ LastTick \in Nat
  /\ NoDate \notin Int
  /\ MaxRequests \in Nat
  /\ MaxSetBacks \in Nat
  /\ MaxCrashes \in Nat

Date(tick, zone) == (tick + zone) \div TicksPerDay
TimeOfDay(tick, zone) == (tick + zone) % TicksPerDay
Dates == {Date(t, z) : t \in 0..LastTick, z \in Zones}

VARIABLES
  now,        \* UTC, in ticks
  marker,     \* backup_last_scheduled_local_date
  active,     \* the PENDING or RUNNING job with the key LOCAL_BACKUP
  phase,      \* where the worker is in its loop
  view,       \* what the scheduler has read: its clock, timezone and date
  made,       \* history: automatic jobs per local date
  westward,   \* history: moves of the local clock back, by zone or clock
  requests,   \* backups requested by hand so far
  setBacks,   \* times the clock was set back so far
  crashes     \* crashes so far

workerVars == <<marker, active, phase, view, made>>
countVars == <<requests, setBacks, crashes>>
vars == <<settingsVars, workerVars, now, westward, countVars>>

Phases == {"enabled", "zone", "time", "conflict", "insert", "process", "execute", "down"}

TypeOK ==
  /\ SettingsTypeOK
  /\ now \in 0..LastTick
  /\ marker \in Dates \cup {NoDate}
  /\ active \in {"none", "PENDING", "RUNNING"}
  /\ phase \in Phases
  /\ view \in [now : 0..LastTick, zone : Zones, date : Dates \cup {NoDate}]
  /\ made \in [Dates -> Nat]
  /\ westward \in Nat
  /\ requests \in 0..MaxRequests
  /\ setBacks \in 0..MaxSetBacks
  /\ crashes \in 0..MaxCrashes

NothingSeen == [now |-> 0, zone |-> Default.zone, date |-> NoDate]

Init ==
  /\ SettingsInit
  /\ now = 0
  /\ marker = NoDate
  /\ active = "none"
  /\ phase = "down"
  /\ view = NothingSeen
  /\ made = [d \in Dates |-> 0]
  /\ westward = 0
  /\ requests = 0
  /\ setBacks = 0
  /\ crashes = 0

-----------------------------------------------------------------------------
(* schedule_daily_backup *)

ReadEnabled ==
  /\ phase = "enabled"
  /\ phase' = IF settings.enabled THEN "zone" ELSE "process"
  /\ view' = [NothingSeen EXCEPT !.now = now]
  /\ UNCHANGED <<settingsVars, marker, active, made, now, westward, countVars>>

ReadZone ==
  /\ phase = "zone"
  /\ phase' = "time"
  /\ view' = [view EXCEPT !.zone = settings.zone]
  /\ UNCHANGED <<settingsVars, marker, active, made, now, westward, countVars>>

(* Mutant of Fresh: a date the marker has passed counts as scheduled.        *)
FreshLater(date) == marker = NoDate \/ marker < date

(* Only this worker writes the marker; it is compared for equality.         *)
Fresh(date) == marker # date

ReadTime ==
  /\ phase = "time"
  /\ LET date == Date(view.now, view.zone)
         due == TimeOfDay(view.now, view.zone) >= settings.time /\ Fresh(date)
     IN  /\ phase' = IF due THEN "conflict" ELSE "process"
         /\ view' = IF due THEN [view EXCEPT !.date = date] ELSE NothingSeen
  /\ UNCHANGED <<settingsVars, marker, active, made, now, westward, countVars>>

(* The SELECT of enqueue_local_backup: the date is tried again next time.   *)
ReadActive ==
  /\ phase = "conflict"
  /\ phase' = IF active = "none" THEN "insert" ELSE "process"
  /\ view' = IF active = "none" THEN view ELSE NothingSeen
  /\ UNCHANGED <<settingsVars, marker, active, made, now, westward, countVars>>

(* Mutant of InsertAutomatic: the commit leaves the marker behind.           *)
InsertUnmarked ==
  /\ phase = "insert"
  /\ active = "none"
  /\ active' = "PENDING"
  /\ made' = [made EXCEPT ![view.date] = @ + 1]
  /\ phase' = "process"
  /\ view' = NothingSeen
  /\ UNCHANGED <<settingsVars, marker, now, westward, countVars>>

(* The job, its audit event and the marker, in one commit.                  *)
InsertAutomatic ==
  /\ phase = "insert"
  /\ active = "none"
  /\ active' = "PENDING"
  /\ marker' = view.date
  /\ made' = [made EXCEPT ![view.date] = @ + 1]
  /\ phase' = "process"
  /\ view' = NothingSeen
  /\ UNCHANGED <<settingsVars, now, westward, countVars>>

(* A manual backup came between the SELECT and the INSERT.  The conflict is *)
(* caught, but the commit of the session whose flush failed raises, and the *)
(* worker leaves its loop.                                                  *)
InsertFails ==
  /\ phase = "insert"
  /\ active # "none"
  /\ phase' = "down"
  /\ view' = NothingSeen
  /\ UNCHANGED <<settingsVars, marker, active, made, now, westward, countVars>>

-----------------------------------------------------------------------------
(* The rest of the loop, and the worker's life. *)

(* process_next claims the backup, or has nothing to do with backups.       *)
Process ==
  /\ phase = "process"
  /\ IF active = "PENDING"
     THEN phase' = "execute" /\ active' = "RUNNING"
     ELSE phase' = "enabled" /\ UNCHANGED active
  /\ UNCHANGED <<settingsVars, marker, view, made, now, westward, countVars>>

(* The backup ends, with whatever status; a cancel is only looked at here.  *)
Finish ==
  /\ phase = "execute"
  /\ phase' = "enabled"
  /\ active' = "none"
  /\ UNCHANGED <<settingsVars, marker, view, made, now, westward, countVars>>

Crash ==
  /\ phase # "down"
  /\ crashes < MaxCrashes
  /\ crashes' = crashes + 1
  /\ phase' = "down"
  /\ view' = NothingSeen
  /\ UNCHANGED <<settingsVars, marker, active, made, now, westward, requests, setBacks>>

(* Mutant of Restart: the job a dead worker left RUNNING stays active.       *)
RestartWithoutRecovery ==
  /\ phase = "down"
  /\ phase' = "enabled"
  /\ UNCHANGED <<settingsVars, marker, active, view, made, now, westward, countVars>>

(* The supervisor starts the worker; recovery interrupts a RUNNING job.     *)
Restart ==
  /\ phase = "down"
  /\ phase' = "enabled"
  /\ active' = IF active = "RUNNING" THEN "none" ELSE active
  /\ UNCHANGED <<settingsVars, marker, view, made, now, westward, countVars>>

-----------------------------------------------------------------------------
(* The web process and the clock. *)

RequestManual ==
  /\ active = "none"
  /\ requests < MaxRequests
  /\ requests' = requests + 1
  /\ active' = "PENDING"
  /\ UNCHANGED <<settingsVars, marker, phase, view, made, now, westward, setBacks, crashes>>

Administer(a) ==
  /\ Open(a) \/ Save(a) \/ Conflict(a)
  /\ westward' = IF settings'.zone < settings.zone THEN westward + 1 ELSE westward
  /\ UNCHANGED <<workerVars, now, countVars>>

Tick ==
  /\ now < LastTick
  /\ now' = now + 1
  /\ UNCHANGED <<settingsVars, workerVars, westward, countVars>>

SetBack ==
  /\ setBacks < MaxSetBacks
  /\ setBacks' = setBacks + 1
  /\ now' \in 0..LastTick
  /\ now' < now
  /\ westward' = westward + 1
  /\ UNCHANGED <<settingsVars, workerVars, requests, crashes>>

Worker == \/ ReadEnabled \/ ReadZone \/ ReadTime \/ ReadActive
          \/ InsertAutomatic \/ InsertFails \/ Process \/ Finish \/ Restart

Next == \/ Worker \/ Crash \/ RequestManual \/ Tick \/ SetBack
        \/ \E a \in Admins : Administer(a)

Spec == Init /\ [][Next]_vars /\ WF_vars(Worker)

-----------------------------------------------------------------------------
(* A local date gets a second automatic job only after the local clock went *)
(* back, by a change of timezone or of the system clock: crashes, stale     *)
(* reads of the settings and manual backups do not repeat it.               *)
(* (app/backups/scheduler.py, schedule_daily_backup)                        *)
OncePerDate == \A d \in Dates : made[d] =< 1 + westward

Today == Date(now, settings.zone)

DueToday ==
  /\ settings.enabled
  /\ TimeOfDay(now, settings.zone) >= settings.time
  /\ made[Today] = 0

(* A due date does not stay without its job: a manual backup in the way, a  *)
(* failed insert, which ends the worker, and crashes only delay it.         *)
(* (app/backups/scheduler.py; app/worker.py, run)                           *)
DueIsScheduled == DueToday ~> ~DueToday
=============================================================================
