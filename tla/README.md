# Verification of Palworld Manager

Palworld Manager is a web panel for one Palworld server on one Ubuntu host. The
**web process** (FastAPI) only writes requests to a SQLite database; a single
**worker process** takes them from there and does everything that touches the
server, the backups, Google Drive and the host. The two share no memory: all
their interaction is rows that both read and write. This directory holds TLA+
models of that interaction, TLC configurations that check them on small
instances, and TLAPS proofs of what matters most for every instance.

Source references are `path:line` under the repository root; `PROJECT.json`
maps every definition to the lines it stands for.

## 1. Inventory

| Component (code) | State | Operations | Interacts with | What is hard | What makes it correct |
|---|---|---|---|---|---|
| Job queue (`app/jobs/service.py`, `app/db/models/jobs.py`) | `jobs`, `maintenance_locks` | enqueue (one function per kind), claim, release, recover | web inserts and cancels; worker claims and ends | two web threads checking then inserting; two worker identities; death at every point | one active job per coordination key; exclusive jobs one at a time; executed at most once; nothing stuck |
| Worker lease (`app/jobs/heartbeat.py`) | the `PRIMARY` row of `worker_heartbeats` | start, beat, release | decides who may run the recovery | a live worker that stalls | a live worker's job is never recovered |
| Worker loop (`app/worker.py`, `app/lifecycle/worker.py`) | its current job | start-up recovery and clean-up, poll, dispatch, failure handling | all executors | exceptions inside the failure handler | every job gets an outcome |
| Lifecycle (`app/lifecycle`) | none of its own | Start, Stop, Restart and wait for health | systemd, REST port | timeouts against a slow server | success means the target state was observed |
| Assisted and forced shutdown (`app/shutdown`) | flags and `result` of the job row | request, cancel, execute now, force; countdown, warnings, Stop | web writes flags while the worker counts down | cancel against the last second; escalation over several jobs | an accepted cancel excludes the Stop; players are warned; signals follow real failures |
| Local backup (`app/backups/jobs.py`, `service.py`) | `backup_records`, `backups/`, temporary area | create with checkpoints, publish, register, retention, clean-up | scheduler, settings, restore and update (preventive backups) | files are not transactional, rows are | records, files and outcomes agree after every crash |
| Drive transfers (`app/backups/drive_*`) | `backup_records` (remote), remote directory | check, upload, download, delete, remote retention | rclone | as above, with a network in between | a valid record has a remote copy |
| Restore (`app/restores`) | world directory, settings files | preventive backup, Stop, replace, Start | local backup, Drive, lifecycle | a multi-step operation that stops half way | never both worlds lost; ambiguity is reported |
| Update (`app/updates`) | installed build | check, preventive backup, countdown, Stop, SteamCMD, Start | as Restore, with cancel points | cancel rules that change from stage to stage | cancel excludes the Stop; preventive backup kept |
| Host power (`app/host_power`) | the request file | prepare, stop, request reboot or power-off | assisted shutdown | the host goes down while rows are written | never with the server running |
| Notifications (`app/notifications`) | `notification_events` | enqueue, claim, deliver, retry, reconcile | every other part enqueues | delivery repeated after a crash | at most three attempts, none lost |
| Scheduler (`app/backups/scheduler.py`) | date marker | enqueue the daily backup | local backup, manager settings | settings read one by one while they change; a manual backup between its SELECT and its INSERT | once per local date, and every due date |
| Authentication, users, account (`app/auth`, `app/users`, `app/account`) | `users`, `sessions`, `login_attempts` | login, block, revoke, change role, password | middleware before every request | principal resolved before the handler runs | revoked sessions stop working; one administrator stays |
| Manager settings (`app/manager_settings`) | `app_settings` | versioned read and write | read by scheduler and executors | two pages of different ages | no save undoes another |
| Palworld settings (`app/palworld_settings`, `merge_*` in `app/restores/service.py`) | the two INI files | versioned edit, backup without secrets, merge by a Restore | web process and worker write the same file, the host edits it | comparison and replacement are two steps | secrets, unknown keys and other people's edits survive |
| Privileged host control (`app/system/host_control.py`, `ops/`) | request files | write a request, serve it as root | lifecycle, host power, systemd | requests served late and out of order | the server is down when it has to be |
| Health (`app/health`, `app/jobs/health.py`) | none | decision tables | dashboard, executors | combinations of partial evidence | OFFLINE only when it is |
| Audit, logs, players, diagnostics, dashboard, configuration, deploy | append-only rows, text files, pages | - | - | little | - |

`PROJECT.json` lists all of them with their status, and under `hazards` the
places in the code that a test would hardly reach.

### The database as the code uses it

`session_scope` (`app/db/engine.py:42`) is one transaction. SQLite opens the
write transaction at the first write statement, not at the first `SELECT`.
The models therefore make one step of

* an `UPDATE ... WHERE ... RETURNING` and what follows it up to the commit
  (claim, cancel requests, `mark_irreversible`, lease), and
* a whole transaction that begins by writing,

and **two** steps of a `SELECT` whose answer decides a later write (enqueue
pre-checks, backup checkpoints). The ORM writes only the columns that changed,
so a flag raised by the web in between is not overwritten, only overlooked.
`recover_interrupted_jobs` also reads before it writes; it is one step here
because only a worker that lost its lease could write between the two.

## 2. Plan

| # | Modules | What | State |
|---|---|---|---|
| 1 | `JobKinds`, `JobQueue`, `JobExecution`, `JobQueueProofs` | the queue, its lock and lease; abstract promise; proofs | done |
| 2 | `AssistedShutdown`, `CancellationPoint` | countdown, cancellation point, escalation | done |
| 3 | `LocalBackup` | rows against files | done |
| 4 | `AssistedShutdownProofs`, `LocalBackupProofs` | inductive invariants of 2 and 3, refinement of `CancellationPoint` | done |
| 5 | `DriveTransfers` | upload, download, delete, remote retention and quota, failures, clean-up | done |
| 6 | `PreventiveBackup`, `Restore`, `Update` | the long operations with preventive backups, on top of lifecycle and local backup | done |
| 7 | `PalworldHealth`, `GameHost`, `ServerLifecycle`, `HostPower`, `Maintenance` | the server and the host, Start and Restart with health polling, host commands; composition of 6 and 7 | done |
| 8 | `Notifications` | at most three attempts, reconciliation, late results, liveness of delivery | done |
| 9 | `LoginProtection`, `Accounts` | login blocking; sessions, users and the terminal's reset | done |
| 10 | `ManagerSettings`, `BackupSchedule`, `BackupScheduleProofs` | versioned settings, marker and clock; proofs | done |
| 11 | `SettingsContent`, `PalworldSettings`, `PalworldSettingsProofs` | the INI merge as operators; the settings files between page, Restore and host; proofs | done |
| 12 | `MaintenanceProofs`, `AccessProofs`, `ExternalServicesProofs` | every safety property of 6 and 7, of 9, and of 5 and 8, for every instance | done |
| 13 | `Retention`, `WorkerHealth` | retention by `created_at` under a clock that goes backwards; the health table of the worker | open |

Composition: every executor module shares the row life cycle of `JobQueue` and
assumes its two results: at most one active job per key (`UniqueActiveKey`) and
at most one exclusive executor (`LockGuardsExecution`). `CancellationPoint` is
the abstract promise of every cancellable kind, `JobExecution` that of the
queue. `Maintenance` composes the jobs that
touch server and host by extension: each module adds its variables and steps to
the one before it (`GameHost`, `ServerLifecycle`, `PreventiveBackup`, `Restore`,
`Update`, `HostPower`). `BackupSchedule` extends `ManagerSettings`, and
`PalworldSettings` extends the operators of `SettingsContent`.

Every safety property, action property and refinement that a passing run checks
is proved. Open are row 13 and, for the parts it adds, their proofs.

## 3. Modules

### JobKinds
The table of kinds: coordination key, which active jobs refuse a request,
which kinds take the lock, can be withdrawn while PENDING, may end CANCELLED,
or record their own failure (the worker then swallows the exception).

### JobQueue
`status`, `kind`, `key` are columns of `jobs`; ids stand for the order of
`created_at, id`. `lock` is the `GLOBAL` row; `holder` and `fresh` the heartbeat
row, with time reduced to "less than 30 seconds old". `request` holds what a web
thread decided between its `SELECT` and its `INSERT`. `proc` is where a worker is:
`off`, `recovering` (between lease and recovery), `idle`, `executing`, `noting` (the success
of an update job is committed, its last log line is not yet written), `settled`
(outcome committed, lock not yet released).

| Action | Code |
|---|---|
| `PreCheck`, `Insert`, `Conflict`, `Withdraw` | the `enqueue_*` functions and the cancel of a PENDING job |
| `Start`, `Beat`, `LeaseExpires` | `record_worker_start`, `record_worker_heartbeat`, time |
| `Recover`, `Claim`, `PollEmpty`, `Settle`, `Note`, `Release` | start-up recovery, `process_next` |
| `NoteFails` | `_append_log` raises after the commit and `_fail` overwrites the success |
| `Strand`, `Abort`, `ReleaseFails`, `Exit`, `Crash` | a failed write at the end of a job, and the ways a worker ends |

`Settle` writes an outcome whatever the row holds, as the executors do.
`claim_next_job` has a branch that gives the job back when the lock insert is
ignored (`service.py:111`); the claim has just tested the lock in the same
transaction, so that branch cannot be taken and is not modelled.

`JobExecution` is what a requester is promised; `PhaseOf` maps a row to it: a
RUNNING row is *executing* while some process is in its executor and *lost* when
nobody is.

### AssistedShutdown
The row flags (`cancellable`, `cancel`, `now`), the recorded failure, and the
worker's place in the executor: `consult`, `countdown`, `warn`, `command`,
`await`, `complete`. Each second of the countdown is a `Tick`; the web acts
between any two. `attempted` and `notices` record what was handed to systemd
and announced. `Raise` is the worker's `except Exception`, which records
`unexpected_failure`. `ServerChanges` is the environment: the server goes down by itself
or after a command, and comes back only when no command was given.
Start and Restart are in `ServerLifecycle`, and a countdown of 1, 5 or 10 minutes
is `Countdown` seconds.

### LocalBackup
An archive, its file and its record carry the id of the job that made them.
`doomed` and `pending` are the state of the open transaction: records selected
by retention, and those of them whose file is still to be unlinked. The order
newest-first, and that files go before the commit, is the code's. Checkpoints
before the last one leave the row cancellable and are one action; the last one is
two, `ReadLastCheckpoint` and `WriteLastCheckpoint`. `os.replace` (`Publish`) and the
`chmod` that precedes `published = True` (`MarkPublished`) are two steps. `left` is a
history variable: archives that stayed because the `chmod` or their removal failed
(`LeaveArchive`, `StrandInRemoval`). Retention orders by job id, that is, the clock does not go backwards.

### DriveTransfers
A backup stands for its file name; `records` are the VALID rows of
`backup_records` of both places, with an id, a place and a backup. A new row gets
the highest id plus one, as in SQLite without `AUTOINCREMENT`, so an id comes
back after the deletion of the newest row. `localFiles` and `remoteFiles` are
what is really there, `partials` and `staging` what unfinished transfers left.
An upload validates the local archive, retires old copies for the retention and
the quota (the remote delete and the commit of the record are two steps),
transfers, publishes, passes the last checkpoint and registers; a download
imports the copy and applies the local retention. `Raise` is a failed call of
`rclone`, of the disk or of the database at any step, and what the `except`
blocks undo. `torn` is a history of copies deleted by a transaction that never
committed, `bereft` one of jobs that lost the record they name while they were
requested, queued or running. The clean-up of a start may find the Drive unreachable.
Both retention settings may be saved at any time, so a read of one gives any value:
`limit` is what the upload in hand read before its first removal. `requests` are what web
threads have read of a record; the insert of the job is a later step (`Read`, `Enqueue`).
`blind` is a history of copies whose taken name a failed `lsjson --stat` reported as free
(`StartUploadBlind`), `stranded` one of jobs whose last write failed (`Strand`).

### Notifications
`status`, `attempts` and `wait` are columns of `notification_events`, with the
time to `next_attempt_at` counted down in ticks of five seconds. A worker claims
(attempt counted first), sends outside any transaction, loads the event back into
`loaded` and, when that says SENDING, writes the result by primary key in a second
step. `Start` reconciles what was SENDING, also an event
another worker is still delivering; it is one step because the recovery of the jobs
took the write lock before. `deliveries`, `lost` and `overtaken` record what Discord accepted,
whose answer got lost and which events were in hand at an overtaking start.

### Accounts
`user` holds per name the role, whether the account is active, whether its
password is temporary, and who chose that password; `session` the rows of
`sessions`, with the two time limits reduced to `Expire`. `request` is the
principal a thread resolved in the middleware: the handler acts with it in a later
transaction, whatever happened to the session or the role meanwhile. The
handlers of `/users` write under `BEGIN IMMEDIATE` and are one step, as are a
login with the session issued in the same transaction, and a change of the own
password. `reset_administrator_password` is two steps, because it reads the user
and the open sessions (the session factory has no autoflush) before its first write,
and writes only columns that differ from what it read. `outdated` and `missed`
are histories: what a session was issued for no longer holds, and a session was
issued between the two steps of such a reset. Whether a password is right is a choice of
`Login` and `UpdateOwnPassword`; which paths a role may use is reduced to `/users`.

### LoginProtection
The rows of `login_attempts` of one name, in the order of their ids, each with
the time it was taken, success, and `blocked_until`. `Arrive` takes the time of an
attempt before it waits for the write lock, for at most `MaxWait`; `Refuse`,
`Succeed`, `FailOnce` and `Block` are the four ends of the transaction. So attempts
may commit in another order than their times, by which the code orders them.
`streak`, `lastFailure` and `reordered` are histories of what was committed.

### PalworldHealth, GameHost, ServerLifecycle
`Evaluate` is the decision table of `evaluate_palworld_health` over the state of
the unit, the process and the REST port. `GameHost` is what these probes look at:
`server` is the phase of the unit (`exited` has no process but is still
deactivating), `requests` the request files the worker leaves for the root
helpers, each served later and in any order, `saves` what SaveGames holds. The
unit restarts after a crash, not after a Stop, and a server that finds no world
makes a fresh one. A power action ends the worker and all processes; `Boot`
brings them back.

`ServerLifecycle` has the rows of the jobs (`jobs`), the job in the worker's hands
(`current`), its `step`, and whether it is past its point of no return
(`critical`). `Await` starts a call of the lifecycle executor: ask, then read unit,
process and REST API, each by a step of its own (`seen`), and for a Stop knock at the port
last, until the target is observed or the time is up; `call` is where that stands, and the
host goes on between any two probes. `overtaken` is a history: a start that an earlier job
asked for was underway when the last check read the unit.

| Action | Code |
|---|---|
| `RequestLifecycle`, `ClaimLifecycle`, `FinishLifecycle` | `enqueue_lifecycle_job`, `process_next`, `execute_lifecycle_job` |
| `Ask`, `Poll`, `Look` | `PalworldLifecycleExecutor.execute`, the check before a backup or a host command |
| `ReadUnit`, `ReadProcess`, `Judge`, `QueryFails`, `Knock` | the probes of `PalworldHealthCheck.check` and of `_reached_target` |
| `Progress`, `Trouble`, `Serve`, `ServePower`, `Boot` | systemd, the root helper, the host |
| `Recover`, `Crash` | `recover_interrupted_jobs`; a worker dies at any step |

### PreventiveBackup, Restore, Update, HostPower, Maintenance
The backup that a Restore and an Update make first is `staging`, `closing`,
`registering` and `retaining`; `safety` is its id before the commit, `doomed` what
the open transaction has chosen to drop; `stray` is a history of the archives that stayed
because `chmod`, after the replacement, or the removal itself raised. `Restore` replaces SaveGames by two
renames (`newDir`, `prevDir` are the directories beside it) and the two settings
files after them; `review` is the flag that asks for a manual review. `Update`
adds the version check, the countdown an administrator may cancel, and SteamCMD,
during which the installation is `broken`. `HostPower` stops a server that is not
OFFLINE with a warning, then leaves the request for the helper. `Maintenance` is
the composition of all of them with one worker; the checkpoints, failures and
crashes of each are steps of their own.

Taken from how the code uses it and not from its source: a unit whose start failed
stays `failed` and counts as FAILURE; helpers serve a request once; two requests
of one action do not coexist because the file is created with `O_EXCL`.

### SettingsContent, PalworldSettings
A content maps each key to its entries in the order of the file, none or
more than one included. Keys fall into five classes: editable, read-only,
sensitive by definition, unknown with the name of a secret, unknown. `Render`,
`Redact`, `Merge` and `RelatedMerge` are `ParsedIni.render`, the redaction of a
backup and the two merges of a Restore. `PalworldSettings` lets two pages, a
worker that backs up and restores, and the host write the two files. A version is
a hash, so it stands for the content. `save` and `merge` hold what was read
(`basis`) and what was compared last (`saw`); the comparison and the replacement
are two steps, the backup copy and the rename one. `archive` is what the
published file holds now, `record` what it held when its hash was stored: `Intact`
stands for the hash with the validation of the structure behind it, `Complete` for
what a Restore demands of the payload.

### ManagerSettings, BackupSchedule
A save and a conflict of the settings page are one step each, under
`BEGIN IMMEDIATE`; the digest of a page stands for the values it shows. Of the
twelve fields the three that the scheduler reads are kept. A timezone is its
offset in ticks, so daylight saving is a change of zone. `phase` is where the worker
stands: the SELECTs `enabled`, `zone`, `time`, `conflict`, the transaction
`insert`, then `process` and `execute`. A manual backup between `conflict` and
`insert` makes the flush fail; the code catches that, but the commit of the session
raises and the worker leaves its loop (`InsertFails`). `made` counts
the automatic jobs of each date, `westward` how often the local clock went back.

## 4. Runs

| Run | Shows | Properties | Bounds |
|---|---|---|---|
| `queue` | lock held, nothing left behind, outcomes final, refinement of `JobExecution`, every queued job served, every job taken up resolved or stranded | `LockGuardsExecution`, `NothingLeftBehind`, `OutcomeIsFinal`, `ImplementsExecution`, `PendingIsServed`, `RunningIsResolved` | 3 jobs of 4 kinds, 1 web thread, 2 worker identities, 2 restarts, 1 failed write, timely heartbeats |
| `queue_stalled` | unique keys, no double execution when a live worker is overtaken | `UniqueActiveKey`, `ExecutedAtMostOnce` | 3 jobs of 4 kinds, 2 web threads, 2 worker identities, 1 restart, 1 failed write |
| `shutdown` | warnings, escalation, refinement of `CancellationPoint` (a cancel excludes the Stop), every job ends | `StopIsAnnounced`, `EscalationChain`, `ImplementsCancellation`, `EveryJobEnds` | 3 jobs (the length of the escalation chain), 2 seconds, 1 exception or crash |
| `backup` | records, files and outcomes stay related | `NewestAreKept`, `UnrecordedFilesAreExplained`, `RecordedFilesGoToRetention` | 4 backups, retention up to 2, 2 exceptions (of a removal too), 2 crashes |
| `backup_retention` | counterexample, section 6 | `RecordsHaveFiles` | 2 backups |
| `drive` | remote retention, records and copies, which copy a job works on, what may be removed, every transfer ends | `RemoteRetention`, `RecordsHaveCopies`, `WrongCopiesFollowRemovals`, `UnrecordedCopiesAreKept`, `EveryTransferEnds` | 2 backups, 3 jobs, 1 request in flight, retentions up to 2, 1 failure or crash |
| `notify` | attempts bound deliveries, outcomes final, duplicates have a cause, every event ends | `DeliveriesAreCounted`, `DuplicatesFollowLostAnswers`, `OutcomeIsFinal`, `EveryEventEnds` | 2 events, 2 workers, 1 crash, 1 overtaking start |
| `accounts` | an active administrator remains, open sessions follow role, status and password | `AdministratorRemains`, `SessionsFollowAccounts` | 2 users, 2 threads, 3 sessions |
| `login` | no success inside a block, blocks not prolonged, exact count while the order of times is kept | `BlocksAreNotProlonged`, `NoSuccessDuringBlock`, `CountIsExact` | 2 threads, 6 attempts, blocks after 3 failures and for 2 ticks, time up to 5 |
| `maintenance` | worlds survive, server down while files change, half-done work under review, preventive backups kept, cancel excludes the Stop, orphaned archives named | `WorldsSurvive`, `DownWhileChanged`, `HalfDoneIsReviewed`, `PreventiveProtects`, `CancelExcludesStop`, `OrphansAreNamed` | 2 jobs of 9 kinds, 2 failed calls, 1 crash, 1 trouble of the unit, retention of 1 |
| `settings` | secrets and foreign edits survive saves and Restores; a Restore works on what was recorded | `SettingsArePreserved`, `RestoresWhatWasRecorded` | 5 keys (one of each class), 2 pages, 2 saves, 1 edit on the host, 2 changes of the archive |
| `schedule` | one automatic backup per date, every due date served, no save undoes another | `OncePerDate`, `EditsAreNotReverted`, `DueIsScheduled` | 2 zones, 2 pages, 2 saves, 3 dates of 2 ticks, 1 manual backup, 1 crash, the clock set back once |

Why the bounds are enough: the queue properties relate at most two jobs and two
processes (two web threads can race an insert, two workers the lease), and a third job
lets one wait behind a held lock while another is recovered. Two restarts give a crash during the work of the process that is
recovering an earlier crash. The escalation needs three jobs; calls that systemd
or the server refuse are not counted as faults, so every level of it can fail. In `LocalBackup`
retention 1 and 2 with four backups gives transactions that drop two records,
two exceptions a rollback followed by another failure, two crashes a death
between recovery and clean-up. Two uploads of which the second reads a retention of one make it erase a copy, and a local
retention of one drops the record of an upload still in flight; a third job,
a deletion queued before the second upload retires the only copy, meets an id given out again.
Each exception of the properties (torn, blind, bereft, stranded) needs one failure at most.
A notification fails three times without any crash, and one crash reaches each of its three attempts. Two administrators who act on
each other with requests resolved before are what can lose the last one; a third
user adds no new pair. Six attempts make a block, refuse one, expire and make another,
with one of them late; a block after three failures instead of five changes only
how many of the same step come first. In `maintenance` a first job leaves something behind (a
request not yet served, a half-replaced world, a preventive backup at a retention of
one) that the second one meets; two failed calls are a failure and one in its
handling. In `settings` a second alteration puts a damaged archive right again
between two looks at it, and two saves race with one Restore. In `schedule` two
saves move the timezone away and back, and three dates let the marker go forward,
back and forward again. Deadlock is not checked: requests are bounded
and a system without requests rightly idles. Symmetry (web threads, worker
identities, users) is used in `queue_stalled`, `accounts`, `login` and `settings`, which check no liveness.

### Fairness
* `JobQueue`: `WF(Start)` because the unit has `Restart=on-failure`
  (`ops/systemd/palworld-manager-worker.service:19`); an orderly exit is
  assumed to be followed by a start as well, the unit is not left stopped.
  `WF(LeaseExpires)` is the passing of time. `WF(Work(w))`: the loop polls
  forever and every executor ends, since each of its waits has a timeout.
  Requests, cancels, crashes and failed writes are never fair. A self-failing
  kind whose outcome cannot be written stays RUNNING until the next restart
  (`Strand`), which the code never owes: `RunningIsResolved` excepts it.
* `AssistedShutdown`, `DriveTransfers`: `WF` of the worker for the same reasons. A Drive job
  whose last write fails stays RUNNING until the next restart, which nothing obliges to
  come: `EveryTransferEnds` excepts it (`Strand`).
  Nothing obliges the web, the server or a failure to happen.
* `BackupSchedule`: `WF(Worker)`, the loop and its restart. Saves, requests by
  hand, time and crashes are not fair; `DueIsScheduled` says that a due date
  is served or stops being due.
* `Notifications`: `WF` of each worker's loop, of time, and of a start when no
  worker lives. A second worker that starts while the first lives is never
  assumed. `EveryEventEnds` therefore excepts behaviours with such a start: when
  the overtaken worker then dies while it sends, the one that lives on does not
  look at the event, which waits in SENDING for the next start.
  The second delay of 30 seconds is cut to two ticks; both delays differ as they do in the
  code in whether the call itself may have used them up.

### Mutants
Definitions whose comment begins with "Mutant of" are variants of the one that
follows them, with a plausible mistake. For every checked property
`PROJECT.json` names the variant under which TLC finds it violated. The type
invariants (`TypeOK` of each module) are not among the checked properties; those of
`JobQueue`, `BackupSchedule` and `Accounts` are proved, of the others what the
proofs need.

## 5. Proofs

`JobQueueProofs` proves, for every set of workers and web threads and every
number of jobs:

* without further assumption: `TypeOK`, `UniqueActiveKey`, `ExecutedAtMostOnce`.
  The inductive invariant `KeyInv` adds to the property that rows beyond `lastId`
  do not exist and that a job some worker holds was taken from the queue: without it a step of
  that worker might return to a job that is still PENDING.
* under `TimelyHeartbeats` (without it TLC finds `OutcomeIsFinal` violated, see section 6):
  `LockGuardsExecution`, `NothingLeftBehind`, `OutcomeIsFinal`, and the reason of the last one,
  `LiveWorkerNotRecovered`: nobody recovers a job its worker is executing. Their invariant `LeaseInv` says that every process
  that is not off holds a fresh lease, hence that there is at most one
  (`OneLiveWorker`), and describes per place of that worker what the lock row
  and the RUNNING rows may be.

`BackupScheduleProofs` proves, for every calendar, set of timezones, number of
administrators, saves, crashes and manual backups: `TypeOK`,
`EditsAreNotReverted`, and `OncePerDate`. The last one is not inductive. Its
invariant `Paid` looks at the chain *date of the marker, date the scheduler has read
so far, date of today*: a link of it goes down only after the local clock went back
(`Behind`, `Moved`), one move turns at most one link, and for each link that
is down every date has one repetition left (`Slack`). The insert turns
the first link and uses up what it paid. The arithmetic it needs is that later
ticks and more eastern zones have later dates (`DateRises`).

`PalworldSettingsProofs` proves `SettingsArePreserved` for all sets of keys and any
number of pages, saves, Restores, edits on the host and changes of the archive.
The property speaks of the moment of a write, which only puts in place what was
rendered earlier; the invariant `KeptInv` therefore says of every rendered content
that it agrees with its basis wherever it was not told to change (`SaveKept`,
`MergeKept`), and that the basis is what was compared last. What `Render`, `Merge` and
`RelatedMerge` leave alone are lemmas of their own (`RenderKeeps`, `MergeKeeps`,
`RelatedMergeKeeps`).

A second invariant, `RecordInv`, proves `RestoresWhatWasRecorded`: once the validation
has passed, the worker's own copy is what the hash was stored for, whatever happens
to the published archive (`ArchiveInv`), and what is ready to replace the file
holds the recorded entries of every key a Restore brings back (`MergeInv`). Between
comparison and replacement it is the copy that has to be right, hence the invariant
speaks of it and not of the archive.

`JobQueueProofs` also proves, under `TimelyHeartbeats`, that `JobQueue` implements
`JobExecution` (`ImplementsExecution`). With `LeaseInv` at most one job is in hand, so
a step of the queue changes the phase of one job, or recovers the lost ones; the
lemmas `Phases`, `PhasesAfter` and `PhaseKept` reduce the mapped phase to the row and
the job in hand, and each action is matched with one abstract step or a stutter.

`AssistedShutdownProofs` proves `StopIsAnnounced`, `EscalationChain` and the refinement
`ImplementsCancellation` for any number of jobs, faults and seconds. `SentInv` says
that no command was sent and nobody was warned for a job that has not been taken
up; job rows are never deleted, so no job inherits the notice of an earlier one.
`ForcedInv` carries the reason of a signal from the row it was requested for,
which stays terminal, to the attempt. `ClosedInv` holds the cancellation point shut
from its `UPDATE` to the end of the job, which is where the abstract
`CancellationPoint` needs it.

`LocalBackupProofs` proves `NewestAreKept`, `UnrecordedFilesAreExplained` and
`RecordedFilesGoToRetention`. The transaction of a retention is what makes the
invariant larger than the properties: `DoomedInv` says that what it has chosen is
older than all it keeps and that a chosen archive whose file is there is still
to be unlinked, so both the commit and a rollback half way leave the newest. `LeftInv`
says that only a job that has failed or is about to leaves an archive behind.

`MaintenanceProofs` proves the six properties of `Maintenance` for any number of jobs,
faults, crashes and troubles of the unit, and any retention. `PlaceInv` ties every place of
the worker to the kinds of job that reach it, their status and `critical`; it is what
separates the jobs that share steps. On top of it each property has its own part:
`DownInv` (from the confirmed Stop on no process runs and no start is underway, unless
`overtaken`; its part `SightInv` says what a half-made check already knows: when no start was
underway at the reading of a unit at rest, none can come before the worker asks, so the later
probes cannot be outrun), `WorldInv` (a displaced world belongs to the job that displaced it, in the
phase it is in, or to one that is lost or under review), `BuildInv` (the same of an
installation), `KeptInv` (the preventive backup and the one to restore are never chosen
by the retention of the job that needs them) and `OrphanInv` (an archive without a record
names its job, or is `stray`). The parts that concern a RUNNING job nobody holds are needed because
recovery turns exactly those into INTERRUPTED and asks for their review.

`AccessProofs` proves the properties of `Accounts` and `LoginProtection` for any number of
users, threads, sessions and attempts. `AccountsStep` classifies the steps of `Accounts`
by what they do to users and sessions; `ResetSees` says that the terminal's reset still
holds the user and the open sessions of its first step, except those opened
since, which is why `SessionsFollowAccounts` has to except them. `NoSuccessDuringBlock` looks at
every block ever made although the code looks at the newest only: `NewestInv` says that the newest
by time and id also ends last, also when a late attempt is put between older ones.
`CountIsExact` rests on `StreakInv`: while times are in order, the last rows are exactly
the failures counted since the last success or block.

`ExternalServicesProofs` holds the proofs of `Notifications` and `DriveTransfers`, which have
a remote party in common that may have done what it did not confirm.
For `Notifications`: `DeliveriesAreCounted` needs that a call still on its way is counted too
(`CountInv`); `DuplicatesFollowLostAnswers` that, as long as no answer to an event was lost, one
worker at most has it in hand (`HeldInv`), and a delivery is recorded or in the hands of the
one who will record it (`Traced`). `OutcomeIsFinal` rests on `HeldInv` too: an event nobody was
overtaken with stays SENDING from the claim to the write, so what was loaded is still so.
For `DriveTransfers`: `RemoteRetention`, `RecordsHaveCopies` and `UnrecordedCopiesAreKept`
follow from `DriveInv`. `RoomInv` carries the room made before the transfer, by the limit
that was read, to the registration, during which only removals are possible. `CopyInv` excepts, besides
torn transactions and blind lookups, the copy a transaction under way has deleted (`InHand`).
`PublishInv` is the least obvious part: an upload may meet a record of its own backup only
when that record's copy had been torn away, because it found no file of that name, or when
the lookup of the name had failed, so that
taking the published copy away again leaves no other record without its copy. Ids of
records are reused, so `RecordInv` has to keep them unique, and the record a job works
on is found by its place (`TargetInv`), not taken from the request.
`WrongCopiesFollowRemovals` needs `NamedInv`: a queued or running job names a record of the
backup it was requested for, as long as that record was not removed meanwhile; so does a
request between its read and its insert. This too is
disturbed by every action that inserts a row, whose id must not be one a job still names.

The assumptions are the named `ASSUME`s on the constants, which TLC evaluates in
the runs, and `TimelyHeartbeats` where it is named. Only model-checked are the
liveness properties `PendingIsServed`, `RunningIsResolved`, `EveryJobEnds`,
`EveryTransferEnds`, `EveryEventEnds` and `DueIsScheduled`: liveness under fairness is
outside the prover's reach.

## 6. Where code and documents disagree

One run expects a violation, `backup_retention`: a failure after retention has
unlinked archives rolls their records back, and other backups' records stay
without files. The finding in `PROJECT.json` quotes the document.

The models show more, for which no run is kept:

* a `PALWORLD_STOP` that failed before it asked systemd for anything releases SIGTERM
  all the same (`shutdown/jobs.py:163`; `SPECIFICATION.md:386`);
* a queued Drive deletion names its record by id, and SQLite hands the id of a removed
  newest row out again. When an upload queued before it removed that record for the
  quota and its own copy got the id, the deletion erases the new copy. The same happens
  when the record goes between the request's read and its insert. That a record
  went after its request had read it is the only way to it (`WrongCopiesFollowRemovals`;
  `drive_jobs.py:394`; `app/templates/backups/_drive_list.html:78`);
* failures from before a block are counted again after it has expired, when the
  attempt that made the block had waited for the write lock
  (`login_protection.py:103`; `SPECIFICATION.md:288`);
* a Restart concludes from a health query that failed, or a verdict that is not ONLINE, that
  the server was seen going down; the old server can then conclude it
  (`Poll`; `SPECIFICATION.md:374`);
* a timezone or a clock that goes back lets one date get two automatic backups, since the
  marker is compared for equality (`OncePerDate` counts them;
  `docs/operations/backup-restore.md:9`);
* an update of the settings file between comparison and replacement is lost, and
  `GameUserSettings.ini` is replaced without a comparison from what was read before
  the Stop; a conflict is noticed only after the world was replaced
  (`CompareSave`, `CompareMerge`, `ReplaceRelated`;
  `docs/integrations/palworld-settings-ini.md:39`);
* secrets of `GameUserSettings.ini` that the backup lacks are dropped by the merge
  (`RelatedMerge`);
* a backup of a world without players, or of settings with repeated keys or values out of
  their format, is recorded as valid although every Restore refuses it (`Complete`,
  `Mergeable`);
* a server start that a job gave up waiting for may be served later, after another job's
  Stop was confirmed, or between the probes that confirm it: the server then runs while its
  files are replaced. This is the `overtaken` exception of `DownWhileChanged`, which is violated without it;
* a crash between the two renames of a Restore leaves no SaveGames. Later backups and
  Restores fail, and a server started meanwhile makes a fresh world (`WorldsSurvive`
  keeps the old one beside it);
* a Restore whose Stop is not confirmed ends without a review, although the server may
  still go down; an Update in the same place asks for one (`StopMissed`, `critical`);
* a failed commit of a preventive backup leaves its archive, and the job names the id of a
  record that was rolled back (`RaiseInBackup`); a `chmod` that fails after the archive is in
  place, or a removal that fails, leaves one that no result names (`LeaveArchive`); the clean-up of a start looks at
  LOCAL_BACKUP jobs only. A later job's retention may drop the preventive backup that a
  job under review names;
* an Update or update check that succeeded becomes FAILED when the session for the last line
  of its log fails after the commit (`NoteFails`; `Compare` and `RaiseInUpdate` in
  `Maintenance`). It is the one exception of `OutcomeIsFinal`;
* a host power job whose last write fails is recorded as one that requested nothing
  (`RaiseInHostPower`);
* the lease does not stop a worker whose heartbeat thread stalls for 30 seconds:
  another one recovers the job it is still executing (`LeaseExpires` without
  `TimelyHeartbeats`; `docs/architecture/jobs-and-locks.md:40`). What still
  holds then is the subject of `queue_stalled`;
* a transfer that sees a cancel at its last checkpoint ends CANCELLED although
  it has published its copy, and leaves it without a record
  (`DriveTransfers`; `docs/architecture/jobs-and-locks.md:62`);
* a lookup of a remote name that fails counts as a free name: a second upload of a backup whose
  first one is registered meanwhile publishes over the copy, meets the record and removes the copy
  (`StartUploadBlind`; `google_drive.py:349`; `google-drive-rclone.md:175`);
* after the remote retention is lowered the Drive holds more copies than configured until the
  next upload, also when an upload had read the old value (`ValidateLocal`;
  `google-drive-rclone.md:134`);
* a Drive job whose last write fails, or whose first read does, stays RUNNING until the next
  restart (`Strand`; `lifecycle/worker.py:149`);
* a cancel in the last second of a countdown, or after execute-now, is not
  announced to the players (`MarkIrreversible`; `SPECIFICATION.md:396`);
* a `chmod` that fails after `os.replace`, or a removal that fails, leaves the archive of a
  FAILED backup for good, and a removal that fails outside `create` leaves the job RUNNING
  (`LeaveArchive`, `StrandInRemoval`; `docs/operations/backup-restore.md:63`);
* a cancel accepted while a local backup is at its last checkpoint is lost and
  the backup published (`WriteLastCheckpoint`; `docs/operations/backup-restore.md:65`);
* a worker that dies between recovery and clean-up leaves the archive of an
  interrupted backup for good (`Recover`, `CleanUp`; same line);
* an overtaken worker frozen between loading an event and its commit writes over what the
  other one recorded, SENT or FAILED; when it makes the event PENDING at its third
  attempt, nothing takes it up again (`ReadBack`, `LateWrite`; `SPECIFICATION.md:626`);
* the delay of a retry is counted from the claim, so a call that timed out is
  repeated at once (`FinishFailure`; `SPECIFICATION.md:626`).

## 7. Not modelled

* Formats: paths and tar entries of an archive, manifest fields, number and string
  syntax of the INI files, HTML, HTTP and messages are reduced to being accepted
  or not. Cryptography, cookies and CSRF tokens have no state of their own.
* Read-only parts: dashboard, diagnostics, server logs, metrics, the worker's health
  page. Nothing they compute is stored or decides a job.
* Append-only parts: audit rows are written in the transaction they describe and pruned by
  age; job logs are text files. Writing them is taken as always possible, except where
  an Update notes its end. In the recovery transaction of a start a failing log
  write rolls the recovery back (`app/worker.py:88`), which no model has.
* Players: one call to the game server and one history row per command.
* The fake environment of development, deployment and configuration beyond the restart
  policy of the worker unit.
* A clock that goes backwards in the retention of backups (`app/backups/jobs.py:340`
  orders by `created_at`; the models order by job).
