------------------------------ MODULE JobKinds ------------------------------
(***************************************************************************)
(* The job kinds the web enqueues and the worker executes: the coordination *)
(* key each one is inserted with, the jobs that make its request refused,   *)
(* whether it takes the GLOBAL maintenance lock, and what the worker does   *)
(* when its executor raises.  A key is a pair: the prefix and, for the      *)
(* Drive transfers, the backup record it names (0 elsewhere).               *)
(***************************************************************************)
EXTENDS Naturals

CONSTANT Records    \* ids of backup records a Drive transfer may name

ASSUME RecordsAssumption == Records \subseteq Nat

LifecycleKinds == {"PALWORLD_START", "PALWORLD_STOP", "PALWORLD_RESTART"}

ShutdownKinds ==
  {"PALWORLD_ASSISTED_SHUTDOWN", "PALWORLD_FORCE_SIGTERM", "PALWORLD_FORCE_SIGKILL"}

UpdateKinds == {"PALWORLD_UPDATE_CHECK", "PALWORLD_UPDATE"}

RestoreKinds == {"LOCAL_RESTORE", "REMOTE_RESTORE"}

DriveKinds == {"DRIVE_CHECK", "DRIVE_UPLOAD", "DRIVE_DOWNLOAD", "DRIVE_DELETE"}

HostPowerKinds == {"HOST_REBOOT", "HOST_SHUTDOWN"}

PalworldKinds == LifecycleKinds \cup ShutdownKinds \cup UpdateKinds

JobKind == PalworldKinds \cup {"LOCAL_BACKUP"} \cup RestoreKinds
             \cup DriveKinds \cup HostPowerKinds

Lifecycle   == <<"PALWORLD_LIFECYCLE", 0>>
UpdateCheck == <<"PALWORLD_UPDATE_CHECK", 0>>

(* The keys a job of kind k may be inserted with. *)
CoordinationKeys(k) ==
  CASE k = "PALWORLD_UPDATE_CHECK"               -> {UpdateCheck}
    [] k \in PalworldKinds \ {"PALWORLD_UPDATE_CHECK"} -> {Lifecycle}
    [] k = "LOCAL_BACKUP"                        -> {<<"LOCAL_BACKUP", 0>>}
    [] k \in RestoreKinds                        -> {<<"LOCAL_RESTORE", 0>>}
    [] k = "DRIVE_CHECK"                         -> {<<"DRIVE_CHECK", 0>>}
    [] k = "DRIVE_UPLOAD"                        -> {"DRIVE_LOCAL"} \X Records
    [] k \in {"DRIVE_DOWNLOAD", "DRIVE_DELETE"}  -> {"DRIVE_REMOTE"} \X Records
    [] OTHER                                     -> {<<"HOST_POWER", 0>>}

CoordinationKey == UNION {CoordinationKeys(k) : k \in JobKind}

RequiresMaintenanceLock(k) == k \notin {"DRIVE_CHECK", "PALWORLD_UPDATE_CHECK"}

(* A request for kind k under key x is refused while a job of kind a under  *)
(* key y is active.  Lifecycle requests look at the kind prefix, the two    *)
(* update requests at both Palworld keys, every other one at its own key.   *)
Refuses(k, x, a, y) ==
  CASE k \in LifecycleKinds -> a \in PalworldKinds
    [] k \in UpdateKinds    -> y \in {UpdateCheck, Lifecycle}
    [] OTHER                -> y = x

(* Kinds whose cancel request ends a PENDING job at once; the others only   *)
(* raise cancel_requested for the executor to see.                          *)
WithdrawableKinds == {"PALWORLD_ASSISTED_SHUTDOWN", "PALWORLD_UPDATE"}

(* Kinds whose executor may end the job as CANCELLED.                       *)
CancellableKinds ==
  WithdrawableKinds \cup {"LOCAL_BACKUP", "DRIVE_UPLOAD", "DRIVE_DOWNLOAD"}

(* Kinds whose executor records its own failure; for them the worker        *)
(* swallows an exception and goes on to the next job.                       *)
SelfFailingKinds == {"LOCAL_BACKUP"} \cup RestoreKinds \cup DriveKinds
=============================================================================
