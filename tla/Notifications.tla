----------------------------- MODULE Notifications -----------------------------
(***************************************************************************)
(* notification_events and their delivery to the Discord webhook: claim,    *)
(* attempt, retry and what a restarted worker makes of interrupted          *)
(* attempts.  One tick is five seconds; waits are counted down.  Two        *)
(* workers may live at once when one stalled past its lease (JobQueue).     *)
(***************************************************************************)
EXTENDS Naturals, FiniteSetsExt

CONSTANTS
  Workers,         \* worker identities
  MaxEvents,       \* bound: notifications ever created
  MaxDeaths,       \* bound: deaths of a worker
  MaxOvertakes     \* bound: starts while another worker lives

ASSUME NotificationAssumption ==
  MaxEvents \in Nat /\ MaxDeaths \in Nat /\ MaxOvertakes \in Nat

Events == 1..MaxEvents
NoEvent == 0

MAX_NOTIFICATION_ATTEMPTS == 3
NOTIFICATION_RETRY_DELAYS == <<1, 2>>   \* 5 and 30 seconds, the latter cut to two ticks
DISCORD_TIMEOUT == 1

Outcomes == {"SENT", "FAILED"}
Results == {"accepted", "transient", "permanent"}

VARIABLES
  status,       \* notification_events.status
  attempts,     \* notification_events.attempts
  wait,         \* ticks until next_attempt_at
  lastEvent,    \* highest event id inserted
  pc,           \* where each worker is
  event,        \* the event it delivers
  age,          \* ticks since it claimed the event
  result,       \* what the webhook call came to
  loaded,       \* status and attempts of the event as read back after the call
  deliveries,   \* history: messages Discord accepted
  lost,         \* history: events with an attempt whose answer may have been lost
  overtaken,    \* history: events some worker had in hand when another one started
  deaths,
  overtakes

rows    == <<status, attempts, wait, lastEvent>>
procs   == <<pc, event, age, result, loaded>>
discord == <<deliveries, lost, overtaken>>
bounds  == <<deaths, overtakes>>
vars == <<status, attempts, wait, lastEvent, pc, event, age, result, loaded, deliveries, lost,
          overtaken, deaths, overtakes>>

NoResult == "none"
NotLoaded == [status |-> "ABSENT", attempts |-> 0]

Init ==
  /\ status = [e \in Events |-> "ABSENT"]
  /\ attempts = [e \in Events |-> 0]
  /\ wait = [e \in Events |-> 0]
  /\ lastEvent = 0
  /\ pc = [w \in Workers |-> "down"]
  /\ event = [w \in Workers |-> NoEvent]
  /\ age = [w \in Workers |-> 0]
  /\ result = [w \in Workers |-> NoResult]
  /\ loaded = [w \in Workers |-> NotLoaded]
  /\ deliveries = [e \in Events |-> 0]
  /\ lost = {} /\ overtaken = {}
  /\ deaths = 0 /\ overtakes = 0

-----------------------------------------------------------------------------
(* Any process may create an event. *)
EnqueueNotification ==
  /\ lastEvent < MaxEvents
  /\ lastEvent' = lastEvent + 1
  /\ status' = [status EXCEPT ![lastEvent'] = "PENDING"]
  /\ UNCHANGED <<attempts, wait, procs, discord, bounds>>

(* Mutant of Reconciled: requeued whatever the number of attempts.           *)
ReconciledAlways(e) == "PENDING"

(* An attempt of a dead worker counts; the third was the last.               *)
Reconciled(e) == IF attempts[e] < MAX_NOTIFICATION_ATTEMPTS THEN "PENDING" ELSE "FAILED"

Alive == {w \in Workers : pc[w] # "down"}

OutForDelivery == {event[v] : v \in Alive} \ {NoEvent}

(* A start reconciles every SENDING event, also one that a stalled worker is *)
(* still delivering; it holds the write lock since the recovery of the jobs. *)
Start(w) ==
  /\ pc[w] = "down"
  /\ \/ Alive = {} /\ UNCHANGED overtakes
     \/ Alive # {} /\ overtakes < MaxOvertakes /\ overtakes' = overtakes + 1
  /\ pc' = [pc EXCEPT ![w] = "idle"]
  /\ status' = [e \in Events |-> IF status[e] = "SENDING" THEN Reconciled(e) ELSE status[e]]
  /\ wait' = [e \in Events |-> IF status[e] = "SENDING" THEN 0 ELSE wait[e]]
  /\ lost' = lost \cup OutForDelivery
  /\ overtaken' = overtaken \cup OutForDelivery
  /\ UNCHANGED <<attempts, lastEvent, event, age, result, loaded, deliveries, deaths>>

(* Mutant of Eligible: an event being sent is taken as well.                 *)
EligibleUnlessDone ==
  {e \in Events : /\ status[e] \in {"PENDING", "SENDING"}
                  /\ attempts[e] < MAX_NOTIFICATION_ATTEMPTS
                  /\ wait[e] = 0}

Eligible ==
  {e \in Events : /\ status[e] = "PENDING"
                  /\ attempts[e] < MAX_NOTIFICATION_ATTEMPTS
                  /\ wait[e] = 0}

(* Mutant of Claim: the attempt is not counted. *)
ClaimUncounted(w) ==
  /\ pc[w] = "idle"
  /\ Eligible # {}
  /\ LET e == Min(Eligible) IN
       /\ status' = [status EXCEPT ![e] = "SENDING"]
       /\ event' = [event EXCEPT ![w] = e]
  /\ age' = [age EXCEPT ![w] = 0]
  /\ pc' = [pc EXCEPT ![w] = "sending"]
  /\ UNCHANGED <<attempts, wait, lastEvent, result, loaded, discord, bounds>>

(* The oldest eligible event; the attempt is counted before the call.        *)
Claim(w) ==
  /\ pc[w] = "idle"
  /\ Eligible # {}
  /\ LET e == Min(Eligible) IN
       /\ status' = [status EXCEPT ![e] = "SENDING"]
       /\ attempts' = [attempts EXCEPT ![e] = @ + 1]
       /\ event' = [event EXCEPT ![w] = e]
  /\ age' = [age EXCEPT ![w] = 0]
  /\ pc' = [pc EXCEPT ![w] = "sending"]
  /\ UNCHANGED <<wait, lastEvent, result, loaded, discord, bounds>>

(* The answer of a call may be lost after Discord accepted the message.      *)
Send(w) ==
  /\ pc[w] = "sending"
  /\ pc' = [pc EXCEPT ![w] = "finishing"]
  /\ \E r \in Results, accepted \in BOOLEAN :
       /\ r = "accepted" => accepted
       /\ result' = [result EXCEPT ![w] = r]
       /\ deliveries' = [deliveries EXCEPT ![event[w]] = @ + IF accepted THEN 1 ELSE 0]
       /\ lost' = IF accepted /\ r # "accepted" THEN lost \cup {event[w]} ELSE lost
  /\ UNCHANGED <<rows, event, age, loaded, overtaken, bounds>>

(* The event is loaded in a new transaction. The check and the result look at *)
(* what was loaded, and the commit writes by primary key: an overtaken worker *)
(* may be frozen in between.                                                  *)
ReadBack(w) ==
  /\ pc[w] = "finishing"
  /\ pc' = [pc EXCEPT ![w] = "writing"]
  /\ loaded' = [loaded EXCEPT ![w] = [status |-> status[event[w]], attempts |-> attempts[event[w]]]]
  /\ UNCHANGED <<rows, event, age, result, discord, bounds>>

Finish(w) ==
  /\ pc' = [pc EXCEPT ![w] = "idle"]
  /\ event' = [event EXCEPT ![w] = NoEvent]
  /\ age' = [age EXCEPT ![w] = 0]
  /\ result' = [result EXCEPT ![w] = NoResult]
  /\ loaded' = [loaded EXCEPT ![w] = NotLoaded]
  /\ UNCHANGED <<lastEvent, attempts, discord, bounds>>

(* The event was taken over meanwhile: what became of the attempt is dropped. *)
FinishStale(w) ==
  /\ pc[w] = "writing"
  /\ loaded[w].status # "SENDING"
  /\ UNCHANGED <<status, wait>>
  /\ Finish(w)

FinishSuccess(w) ==
  /\ pc[w] = "writing" /\ result[w] = "accepted"
  /\ loaded[w].status = "SENDING"
  /\ status' = [status EXCEPT ![event[w]] = "SENT"]
  /\ UNCHANGED wait
  /\ Finish(w)

Retries(w) == result[w] = "transient" /\ loaded[w].attempts < MAX_NOTIFICATION_ATTEMPTS

Delay(w) == NOTIFICATION_RETRY_DELAYS[loaded[w].attempts]

(* Mutant of FinishFailure: the status is not looked at again.               *)
FinishFailureBlindly(w) ==
  /\ pc[w] = "writing" /\ result[w] # "accepted"
  /\ status' = [status EXCEPT ![event[w]] = IF Retries(w) THEN "PENDING" ELSE "FAILED"]
  /\ UNCHANGED wait
  /\ Finish(w)

(* The delay runs from the claim, so the time the call took counts as well.  *)
FinishFailure(w) ==
  /\ pc[w] = "writing" /\ result[w] # "accepted"
  /\ loaded[w].status = "SENDING"
  /\ LET e == event[w] IN
       IF Retries(w)
         THEN /\ status' = [status EXCEPT ![e] = "PENDING"]
              /\ wait' = [wait EXCEPT ![e] = Delay(w) - Min({age[w], Delay(w)})]
         ELSE /\ status' = [status EXCEPT ![e] = "FAILED"]
              /\ UNCHANGED wait
  /\ Finish(w)

(* Five seconds pass; a call ends with its timeout.                          *)
Tick ==
  /\ \A w \in Workers : pc[w] = "sending" => age[w] < DISCORD_TIMEOUT
  /\ \/ \E w \in Workers : pc[w] = "sending"
     \/ \E e \in Events : wait[e] > 0
  /\ age' = [w \in Workers |-> IF pc[w] = "sending" THEN age[w] + 1 ELSE age[w]]
  /\ wait' = [e \in Events |-> IF wait[e] > 0 THEN wait[e] - 1 ELSE 0]
  /\ UNCHANGED <<status, attempts, lastEvent, pc, event, result, loaded, discord, bounds>>

(* A crash, or an exception of the last write that ends the process.  Before *)
(* the answer the message may or may not have been accepted.                 *)
Die(w) ==
  /\ pc[w] # "down"
  /\ deaths < MaxDeaths
  /\ deaths' = deaths + 1
  /\ pc' = [pc EXCEPT ![w] = "down"]
  /\ event' = [event EXCEPT ![w] = NoEvent]
  /\ age' = [age EXCEPT ![w] = 0]
  /\ result' = [result EXCEPT ![w] = NoResult]
  /\ loaded' = [loaded EXCEPT ![w] = NotLoaded]
  /\ \/ pc[w] = "sending"
        /\ deliveries' = [deliveries EXCEPT ![event[w]] = @ + 1]
        /\ lost' = lost \cup {event[w]}
     \/ UNCHANGED deliveries
        /\ lost' = IF pc[w] \in {"finishing", "writing"} /\ result[w] = "accepted"
                     THEN lost \cup {event[w]} ELSE lost
  /\ UNCHANGED <<rows, overtaken, overtakes>>

-----------------------------------------------------------------------------
Work(w) ==
  \/ Claim(w) \/ Send(w)
  \/ ReadBack(w) \/ FinishStale(w) \/ FinishSuccess(w) \/ FinishFailure(w)

Next ==
  \/ EnqueueNotification \/ Tick
  \/ \E w \in Workers : Start(w) \/ Work(w) \/ Die(w)

Spec == Init /\ [][Next]_vars

(* systemd restarts the worker, a live one goes on, time passes.             *)
FairSpec ==
  /\ Spec
  /\ WF_vars(Tick)
  /\ \A w \in Workers : WF_vars(Work(w)) /\ WF_vars(Alive = {} /\ Start(w))
-----------------------------------------------------------------------------
(* Every variable has its type. *)
TypeOK ==
  /\ status \in [Events -> {"ABSENT", "PENDING", "SENDING"} \cup Outcomes]
  /\ attempts \in [Events -> 0..MAX_NOTIFICATION_ATTEMPTS]
  /\ wait \in [Events -> 0..2]
  /\ lastEvent \in 0..MaxEvents
  /\ pc \in [Workers -> {"down", "idle", "sending", "finishing", "writing"}]
  /\ event \in [Workers -> Events \cup {NoEvent}]
  /\ age \in [Workers -> 0..DISCORD_TIMEOUT]
  /\ result \in [Workers -> Results \cup {NoResult}]
  /\ loaded \in [Workers -> [status : {"ABSENT", "PENDING", "SENDING"} \cup Outcomes,
                             attempts : 0..MAX_NOTIFICATION_ATTEMPTS]]
  /\ deliveries \in [Events -> Nat]
  /\ lost \subseteq Events /\ overtaken \subseteq lost
  /\ deaths \in 0..MaxDeaths /\ overtakes \in 0..MaxOvertakes

(* Discord never gets a notification more often than it was counted, so      *)
(* never more than three times, whoever died or was overtaken while sending  *)
(* (discord.md:95).                                                          *)
DeliveriesAreCounted ==
  \A e \in Events : deliveries[e] <= attempts[e] /\ attempts[e] <= MAX_NOTIFICATION_ATTEMPTS

(* Discord gets a message twice only after the answer to an attempt was lost: *)
(* its worker died or was overtaken, or the call failed after acceptance.    *)
DuplicatesFollowLostAnswers == \A e \in Events : deliveries[e] > 1 => e \in lost

(* The write of a worker that had loaded event e while it was SENDING.       *)
LateWrite(w, e) ==
  /\ pc[w] = "writing" /\ pc'[w] = "idle"
  /\ event[w] = e /\ loaded[w].status = "SENDING"

(* SENT and FAILED are final, for late results and later starts too. Only a  *)
(* worker that had loaded the event before it got its outcome may write over *)
(* it, and only if a worker was overtaken with that event in hand.           *)
OutcomeIsFinal ==
  [][\A e \in Events :
       /\ status[e] \in Outcomes
       /\ status'[e] # status[e]
       => e \in overtaken /\ \E w \in Workers : LateWrite(w, e)]_vars

(* Every notification ends as SENT or FAILED: no infinite retry, none        *)
(* forgotten.  Only the event of an overtaken worker that dies may have to   *)
(* wait for the next start: the worker that lives on never looks at it.      *)
EveryEventEnds ==
  \A e \in Events : status[e] = "PENDING" ~> status[e] \in Outcomes \/ overtakes > 0

=============================================================================
