--------------------------- MODULE CancellationPoint ---------------------------
(***************************************************************************)
(* The promise behind every cancellable job: the point where cancellation   *)
(* closes.  A cancel request is accepted only before the job commits to its *)
(* irreversible effect, and a job that accepted one never commits.          *)
(***************************************************************************)
CONSTANT Jobs

VARIABLES
  accepted,   \* jobs whose requester was told the cancel is accepted
  committed   \* jobs that went past their cancellation point

vars == <<accepted, committed>>

Init ==
  /\ accepted = {}
  /\ committed = {}

Accept(j) ==
  /\ j \notin committed
  /\ accepted' = accepted \cup {j}
  /\ UNCHANGED committed

Commit(j) ==
  /\ j \notin accepted
  /\ committed' = committed \cup {j}
  /\ UNCHANGED accepted

Next == \E j \in Jobs : Accept(j) \/ Commit(j)

Spec == Init /\ [][Next]_vars
=============================================================================
