---------------------------- MODULE JobExecution ----------------------------
(***************************************************************************)
(* What the queue promises to whoever requests a job: the job waits, is     *)
(* executed at most once, and ends; one lost to a dead worker is never      *)
(* taken up again, only closed for review; and of the jobs that need the    *)
(* server to themselves at most one is being executed.                      *)
(***************************************************************************)
CONSTANT Jobs

VARIABLES
  phase,      \* what became of each job
  exclusive   \* the submitted jobs that need the server to themselves

vars == <<phase, exclusive>>

Phase == {"absent", "waiting", "executing", "lost", "done"}

Init ==
  /\ phase = [j \in Jobs |-> "absent"]
  /\ exclusive = {}

Become(j, from, to) ==
  /\ phase[j] = from
  /\ phase' = [phase EXCEPT ![j] = to]

Submit(j) ==
  /\ Become(j, "absent", "waiting")
  /\ exclusive' \in {exclusive, exclusive \cup {j}}

Withdraw(j) == Become(j, "waiting", "done") /\ UNCHANGED exclusive

Begin(j) ==
  /\ Become(j, "waiting", "executing")
  /\ j \in exclusive => \A i \in exclusive : phase[i] # "executing"
  /\ UNCHANGED exclusive

End(j) == Become(j, "executing", "done") /\ UNCHANGED exclusive

Lose(j) == Become(j, "executing", "lost") /\ UNCHANGED exclusive

CloseLost ==
  /\ phase' = [j \in Jobs |-> IF phase[j] = "lost" THEN "done" ELSE phase[j]]
  /\ UNCHANGED exclusive

Next ==
  \/ CloseLost
  \/ \E j \in Jobs : Submit(j) \/ Withdraw(j) \/ Begin(j) \/ End(j) \/ Lose(j)

Spec == Init /\ [][Next]_vars
=============================================================================
