-------------------------------- MODULE GameHost --------------------------------
(***************************************************************************)
(* The host around the Manager: the Palworld unit, the directory of          *)
(* privileged requests the worker writes to, the root helpers that serve     *)
(* them, and the power of the machine.  A request is one file per action; it *)
(* is served later and in any order, because every action has a path unit    *)
(* of its own.  The unit restarts after a crash and not after a Stop.        *)
(***************************************************************************)
EXTENDS Naturals, PalworldHealth

CONSTANT MaxTroubles    \* bound: crashes and failed starts or stops of the server

ASSUME HostAssumption == MaxTroubles \in Nat

ServerActions == {"PALWORLD_START", "PALWORLD_STOP", "PALWORLD_RESTART"}
PowerActions  == {"HOST_REBOOT", "HOST_SHUTDOWN"}
Actions == ServerActions \cup PowerActions

VARIABLES
  server,        \* phase of the Palworld unit
  again,         \* a start is queued behind a stop in progress
  requests,      \* request files present
  powered,       \* the machine is up
  saves,         \* what the SaveGames directory holds
  troubles

hostVars == <<server, again, requests, powered, saves, troubles>>

ServerPhase ==
  {"down", "starting", "booting", "serving", "stopping", "exited", "failed"}
Worlds == {"live", "restored", "fresh"}

HostTypeOK ==
  /\ server \in ServerPhase
  /\ again \in BOOLEAN
  /\ requests \subseteq Actions
  /\ powered \in BOOLEAN
  /\ saves \in Worlds \cup {"none"}
  /\ troubles \in 0..MaxTroubles

HostInit ==
  /\ server \in {"down", "serving"}
  /\ again = FALSE
  /\ requests = {}
  /\ powered = TRUE
  /\ saves = "live"
  /\ troubles = 0

-----------------------------------------------------------------------------
(* What the three probes see. *)

Unit ==
  CASE server = "down"                    -> "inactive"
    [] server = "starting"                -> "activating"
    [] server \in {"booting", "serving"}  -> "active"
    [] server \in {"stopping", "exited"}  -> "deactivating"
    [] server = "failed"                  -> "failed"

Process == server \in {"booting", "serving", "stopping"}
RestOpen == server = "serving"

(* A start or restart that was asked for and has not run its course.         *)
StartUnderway ==
  again \/ server = "starting"
        \/ requests \cap {"PALWORLD_START", "PALWORLD_RESTART"} # {}

-----------------------------------------------------------------------------
(* The unit.  A server that finds no world creates one.                      *)

Progress ==
  /\ CASE server = "starting" -> server' = "booting"
       [] server = "booting"  -> server' = "serving"
       [] server = "stopping" -> server' = "exited"
       [] server = "exited"   -> server' = IF again THEN "starting" ELSE "down"
       [] OTHER               -> FALSE
  /\ again' = (again /\ server # "exited")
  /\ saves' = IF server = "starting" /\ saves = "none" THEN "fresh" ELSE saves
  /\ UNCHANGED <<requests, powered, troubles>>

Trouble ==
  /\ troubles < MaxTroubles
  /\ \/ /\ server \in {"booting", "serving"}
        /\ server' \in {"starting", "failed"}
        /\ again' = again
     \/ /\ server \in {"starting", "stopping"}
        /\ server' = "failed"
        /\ again' = FALSE
  /\ troubles' = troubles + 1
  /\ UNCHANGED <<requests, powered, saves>>

(* systemctl --no-block start, stop, restart.                                *)
Systemctl(a) ==
  LET up == server \in {"starting", "booting", "serving"}
      stopping == server \in {"stopping", "exited"}
  IN CASE a = "PALWORLD_STOP" ->
            /\ server' = IF up THEN "stopping" ELSE server
            /\ again' = FALSE
       [] a = "PALWORLD_START" ->
            /\ server' = IF up \/ stopping THEN server ELSE "starting"
            /\ again' = (again \/ stopping)
       [] a = "PALWORLD_RESTART" ->
            /\ server' = IF up THEN "stopping" ELSE IF stopping THEN server ELSE "starting"
            /\ again' = (up \/ stopping)

(* A helper removes the file before it runs the command.                     *)
Serve ==
  \E a \in requests \cap ServerActions :
    /\ requests' = requests \ {a}
    /\ Systemctl(a)
    /\ UNCHANGED <<powered, saves, troubles>>

(* The machine goes down with everything under /run.                         *)
ServePower ==
  /\ requests \cap PowerActions # {}
  /\ requests' = {}
  /\ powered' = FALSE
  /\ server' = "down"
  /\ again' = FALSE
  /\ UNCHANGED <<saves, troubles>>

Boot ==
  /\ ~powered
  /\ powered' = TRUE
  /\ server' \in {"down", "starting"}
  /\ UNCHANGED <<again, requests, saves, troubles>>
=============================================================================
