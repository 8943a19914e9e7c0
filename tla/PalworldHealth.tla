----------------------------- MODULE PalworldHealth -----------------------------
(***************************************************************************)
(* The health of the Palworld server as the Manager derives it from the      *)
(* state of the systemd unit, its main process and its REST API.             *)
(***************************************************************************)

Health == {"ONLINE", "STARTING", "DEGRADED", "OFFLINE", "FAILURE"}

(* ActiveState as systemctl shows it; "reloading" stands for the others.     *)
UnitState == {"inactive", "activating", "active", "deactivating", "failed", "reloading"}

Evaluate(unit, process, rest) ==
  CASE unit = "failed"       -> "FAILURE"
    [] unit = "activating"   -> "STARTING"
    [] unit = "inactive"     -> IF process \/ rest THEN "FAILURE" ELSE "OFFLINE"
    [] unit = "deactivating" -> IF process \/ rest THEN "DEGRADED" ELSE "OFFLINE"
    [] unit = "active"       -> IF ~process THEN "FAILURE"
                                ELSE IF rest THEN "ONLINE" ELSE "DEGRADED"
    [] OTHER                 -> IF process /\ rest THEN "DEGRADED" ELSE "FAILURE"
=============================================================================
