-------------------------------- MODULE HostPower --------------------------------
(***************************************************************************)
(* HOST_REBOOT and HOST_SHUTDOWN jobs: a server that is not OFFLINE is        *)
(* stopped with a warning and without a countdown, then the root helper is    *)
(* asked for the reboot or the power-off.                                    *)
(***************************************************************************)
EXTENDS Update

HostPowerJob == Kind \in HostPowerKinds

RequestHostPower ==
  /\ \E k \in HostPowerKinds : Enqueue(k, 0)
  /\ UNCHANGED <<updateVars, OtherVars>>

ClaimHostPower ==
  /\ \E k \in HostPowerKinds : Claim(k, "host_check")
  /\ Await("host_check", "checking")
  /\ UNCHANGED <<updateVars, OtherVars>>

CheckPalworld ==
  /\ step = "host_check"
  /\ call \in {"online", "offline", "ambiguous"}
  /\ GoTo(IF call = "offline" THEN "requesting" ELSE "players")
  /\ UNCHANGED updateVars

HostStopped ==
  /\ HostPowerJob
  /\ step = "stop"
  /\ call \in {"reached", "missed"}
  /\ GoTo(IF call = "reached" THEN "requesting" ELSE "failing")
  /\ UNCHANGED updateVars

(* A request left by an earlier job refuses the new one.                     *)
RequestPower ==
  /\ step = "requesting"
  /\ Enter(IF Kind \in requests THEN "failing" ELSE "requested")
  /\ requests' = requests \cup {Kind}
  /\ UNCHANGED <<server, again, powered, saves, troubles, jobs, current, critical, seen,
                 observed, overtaken, faultVars, OtherVars, updateVars>>

FinishHostPower ==
  /\ HostPowerJob
  /\ \/ step = "requested" /\ Finish("SUCCEEDED", FALSE, 0)
     \/ step = "failing" /\ Finish("FAILED", FALSE, 0)
  /\ UNCHANGED <<faultVars, OtherVars, updateVars>>

(* fail_unexpected closes the job as one that asked for nothing, even when    *)
(* the helper has its request already.                                       *)
RaiseInHostPower ==
  /\ HostPowerJob
  /\ Fault
  /\ Finish("FAILED", FALSE, 0)
  /\ UNCHANGED <<OtherVars, updateVars>>

HostPowerStep ==
  \/ ClaimHostPower \/ CheckPalworld \/ HostStopped \/ RequestPower \/ FinishHostPower
  \/ RaiseInHostPower
=============================================================================
