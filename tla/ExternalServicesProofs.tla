------------------------ MODULE ExternalServicesProofs ------------------------
(***************************************************************************)
(* Proofs about what the Manager keeps outside its host.  Notifications, for *)
(* any number of workers, events, deaths and overtakings: how often one      *)
(* reaches Discord, when it does so twice, and that its outcome is final.    *)
(* DriveTransfers, for any number of backups, jobs, failures and crashes:    *)
(* remote retention, the copies the records name, that a copy without record *)
(* is left alone, and which copy a job works on.                             *)
(***************************************************************************)
EXTENDS Notifications, DriveTransfers, FiniteSetTheorems, WellFoundedInduction, TLAPS

(* Sets of numbers have a least and a greatest member.                       *)
LEMMA Least ==
  ASSUME NEW n \in Nat, NEW S \in SUBSET (0..n), S # {}
  PROVE  \E x \in S : \A y \in S : x <= y
<1> DEFINE Below(x) == {q \in S : q < x}
<1>1. IsFiniteSet(S) /\ S \subseteq Nat
  <2>0. 0 \in Int /\ n \in Int
    OBVIOUS
  <2>1. IsFiniteSet(0..n)
    BY <2>0, FS_Interval
  <2>2. S \subseteq Nat
    OBVIOUS
  <2> QED BY <2>1, <2>2, FS_Subset
<1>2. \A x \in S : Below(x) \in SUBSET S /\ IsFiniteSet(Below(x))
  BY <1>1, FS_Subset
<1>3. ASSUME NEW x \in S, NEW y \in S, y < x
      PROVE  Below(y) \subseteq Below(x) /\ y \in Below(x) /\ y \notin Below(y)
  <2>1. \A q \in S : q < y => q < x
    BY <1>1, <1>3
  <2>2. ~(y < y)
    BY <1>1
  <2> QED BY <1>3, <2>1, <2>2
<1> HIDE DEF Below
<1> DEFINE T == {Below(x) : x \in S}
           Smaller == StrictSubsetOrdering(S)
<1>4. T \subseteq FiniteSubsetsOf(S) /\ T # {}
  BY <1>2 DEF FiniteSubsetsOf
<1>5. PICK t \in T : \A u \in T : ~(<<u, t>> \in Smaller)
  BY <1>4, FS_StrictSubsetOrderingWellFounded, WFMin
<1>6. PICK x \in S : t = Below(x)
  OBVIOUS
<1>7. \A y \in S : x <= y
  <2> SUFFICES ASSUME NEW y \in S, y < x PROVE FALSE
    BY <1>1
  <2>1. <<Below(y), Below(x)>> \in Smaller
    BY <1>2, <1>3 DEF StrictSubsetOrdering
  <2> QED BY <1>5, <1>6, <2>1
<1> QED BY <1>7

LEMMA Greatest ==
  ASSUME NEW n \in Nat, NEW S \in SUBSET (0..n), S # {}
  PROVE  Max(S) \in S /\ \A x \in S : x <= Max(S)
<1> DEFINE Bounds == {m \in 0..n : \A x \in S : x <= m}
<1>1. Bounds \in SUBSET (0..n) /\ Bounds # {}
  <2>1. n \in Bounds
    OBVIOUS
  <2> QED BY <2>1
<1>2. PICK m \in Bounds : \A k \in Bounds : m <= k
  <2> HIDE DEF Bounds
  <2> QED BY <1>1, Least
<1>3. m \in S
  <2> SUFFICES ASSUME m \notin S PROVE FALSE
    OBVIOUS
  <2>1. m \in Nat /\ \A x \in S : x \in Nat /\ x <= m - 1
    OBVIOUS
  <2>2. m - 1 \in 0..n
    <3> PICK x \in S : TRUE
      OBVIOUS
    <3> QED BY <2>1
  <2>3. m - 1 \in Bounds
    BY <2>1, <2>2
  <2> QED BY <1>2, <2>1, <2>3
<1> QED BY <1>3 DEF Max

-----------------------------------------------------------------------------
(***************************************************************************)
(* Notifications.                                                            *)
(***************************************************************************)

LEMMA EventsArePositive == Events \subseteq Nat /\ NoEvent \notin Events
  BY NotificationAssumption DEF Events, NoEvent

-----------------------------------------------------------------------------
(* The smallest element of a set of events. *)

LEMMA MinIsElement ==
  ASSUME NEW S \in SUBSET Events, S # {}
  PROVE  Min(S) \in S
<1>1. MaxEvents \in Nat /\ S \in SUBSET (0..MaxEvents)
  BY NotificationAssumption DEF Events
<1> QED BY <1>1, Least DEF Min

-----------------------------------------------------------------------------
(* A worker with an attempt in hand. *)
Engaged(w) == pc[w] \in {"sending", "finishing", "writing"}

Has(w, e) == Engaged(w) /\ event[w] = e

(* The calls that may still reach Discord. *)
Sending(e) == {w \in Workers : pc[w] = "sending" /\ event[w] = e}

Typed ==
  /\ status \in [Events -> {"ABSENT", "PENDING", "SENDING"} \cup Outcomes]
  /\ attempts \in [Events -> Nat]
  /\ lastEvent \in Nat
  /\ pc \in [Workers -> {"down", "idle", "sending", "finishing", "writing"}]
  /\ event \in [Workers -> Events \cup {NoEvent}]
  /\ result \in [Workers -> Results \cup {NoResult}]
  /\ DOMAIN loaded = Workers
  /\ overtaken \subseteq lost
  /\ deliveries \in [Events -> Nat]
  /\ \A w \in Workers : Engaged(w) => event[w] \in Events

(* Beyond lastEvent there is no event, in the hands of a worker either. *)
FreshIds ==
  /\ \A e \in Events : e > lastEvent => status[e] = "ABSENT"
  /\ \A w \in Workers : Engaged(w) => event[w] <= lastEvent

(* An attempt is counted before its call is made. *)
CountInv ==
  \A e \in Events :
    /\ IsFiniteSet(Sending(e))
    /\ deliveries[e] + Cardinality(Sending(e)) <= attempts[e]
    /\ attempts[e] <= MAX_NOTIFICATION_ATTEMPTS

(* As long as no worker was overtaken with it, an event has one attempt in    *)
(* hand at most, and is SENDING from the claim to the write.                 *)
Held(e) ==
  \A w \in Workers :
    Has(w, e) =>
      /\ status[e] = "SENDING"
      /\ \A v \in Workers : Has(v, e) => v = w
      /\ pc[w] = "writing" => loaded[w].status = "SENDING"

HeldInv == \A e \in Events \ overtaken : Held(e)

(* As long as no answer was lost either, a delivery is either recorded or in  *)
(* the hands of the worker that will.                                        *)
Traced(e) ==
  /\ deliveries[e] <= 1
  /\ deliveries[e] > 0 =>
       \/ status[e] = "SENT"
       \/ \E w \in Workers :
            pc[w] \in {"finishing", "writing"} /\ event[w] = e /\ result[w] = "accepted"

TraceInv == \A e \in Events \ lost : Traced(e)

NotifyInv == Typed /\ FreshIds /\ CountInv /\ HeldInv /\ TraceInv

-----------------------------------------------------------------------------
(* The steps. *)

(* Adding to a count leaves a count. *)
LEMMA StillCounts ==
  ASSUME NEW S, NEW f \in [S -> Nat], NEW x \in S, NEW n \in Nat
  PROVE  [f EXCEPT ![x] = @ + n] \in [S -> Nat]
<1>1. f[x] + n \in Nat
  OBVIOUS
<1> QED BY <1>1

(* A claim takes a PENDING event with an attempt to spare.                   *)
LEMMA ClaimStep ==
  ASSUME Typed, NEW w \in Workers, Claim(w)
  PROVE  \E e \in Events :
           /\ pc[w] = "idle" /\ status[e] = "PENDING"
           /\ attempts[e] < MAX_NOTIFICATION_ATTEMPTS
           /\ status' = [status EXCEPT ![e] = "SENDING"]
           /\ attempts' = [attempts EXCEPT ![e] = @ + 1]
           /\ event' = [event EXCEPT ![w] = e]
           /\ pc' = [pc EXCEPT ![w] = "sending"]
           /\ UNCHANGED <<lastEvent, result, loaded, deliveries, lost, overtaken>>
<1> DEFINE e == Min(Eligible)
<1>1. Eligible \in SUBSET Events /\ Eligible # {}
  BY DEF Claim, Eligible
<1>2. e \in Eligible
  BY <1>1, MinIsElement
<1>3. e \in Events /\ status[e] = "PENDING" /\ attempts[e] < MAX_NOTIFICATION_ATTEMPTS
  BY <1>2 DEF Eligible
<1>4. /\ pc[w] = "idle"
      /\ status' = [status EXCEPT ![e] = "SENDING"]
      /\ attempts' = [attempts EXCEPT ![e] = @ + 1]
      /\ event' = [event EXCEPT ![w] = e]
      /\ pc' = [pc EXCEPT ![w] = "sending"]
      /\ UNCHANGED <<lastEvent, result, loaded, deliveries, lost, overtaken>>
  BY DEF Claim, discord
<1> HIDE DEF e
<1> QED BY <1>3, <1>4

(* A worker that finishes leaves its event; it changes it only when it had    *)
(* loaded it as SENDING, to PENDING or an outcome, and to SENT only after an  *)
(* accepted call.                                                            *)
FinishStep(w) ==
  /\ pc[w] = "writing"
  /\ pc' = [pc EXCEPT ![w] = "idle"]
  /\ event' = [event EXCEPT ![w] = NoEvent]
  /\ result' = [result EXCEPT ![w] = NoResult]
  /\ loaded' = [loaded EXCEPT ![w] = NotLoaded]
  /\ UNCHANGED <<attempts, lastEvent, deliveries, lost, overtaken>>
  /\ \/ status' = status /\ loaded[w].status # "SENDING"
     \/ /\ loaded[w].status = "SENDING" /\ result[w] = "accepted"
        /\ status' = [status EXCEPT ![event[w]] = "SENT"]
     \/ /\ loaded[w].status = "SENDING" /\ result[w] # "accepted"
        /\ \E s \in {"PENDING", "FAILED"} : status' = [status EXCEPT ![event[w]] = s]

LEMMA Finishing ==
  ASSUME NEW w \in Workers, FinishStale(w) \/ FinishSuccess(w) \/ FinishFailure(w)
  PROVE  FinishStep(w)
<1>1. CASE FinishStale(w)
  BY <1>1 DEF FinishStale, Finish, FinishStep, discord
<1>2. CASE FinishSuccess(w)
  BY <1>2 DEF FinishSuccess, Finish, FinishStep, discord
<1>3. CASE FinishFailure(w)
  BY <1>3 DEF FinishFailure, Finish, FinishStep, discord
<1> QED BY <1>1, <1>2, <1>3

-----------------------------------------------------------------------------
(* Types and fresh ids. *)

LEMMA TypedStep ==
  ASSUME Typed, FreshIds, [Next]_vars
  PROVE  Typed' /\ FreshIds'
<1> USE EventsArePositive DEF Typed, FreshIds, Engaged, Outcomes, Results
<1>1. CASE EnqueueNotification
  <2>1. lastEvent + 1 \in Events
    BY <1>1, NotificationAssumption DEF EnqueueNotification, Events
  <2>2. /\ lastEvent' = lastEvent + 1 /\ status' = [status EXCEPT ![lastEvent + 1] = "PENDING"]
        /\ UNCHANGED <<attempts, procs, discord>>
    BY <1>1 DEF EnqueueNotification
  <2>3. Typed'
    BY <2>1, <2>2 DEF procs, discord
  <2>4. /\ \A w \in Workers : Engaged(w)' => Engaged(w) /\ event'[w] = event[w]
        /\ \A e \in Events : e > lastEvent' => e > lastEvent /\ status'[e] = status[e]
    BY <2>1, <2>2 DEF procs
  <2>5. ASSUME NEW w \in Workers, Engaged(w) PROVE event[w] <= lastEvent + 1
    <3> PICK e \in Events : e = event[w]
      BY <2>5
    <3>1. e \in Nat /\ e <= lastEvent
      BY <2>5
    <3> QED BY <3>1
  <2>6. FreshIds'
    BY <2>2, <2>4, <2>5
  <2> QED BY <2>3, <2>6
<1>2. ASSUME NEW w \in Workers, Start(w) PROVE Typed' /\ FreshIds'
  <2>1. \A e \in Events : Reconciled(e) \in {"PENDING", "FAILED"}
    BY DEF Reconciled
  <2> QED BY <1>2, <2>1 DEF Start
<1>3. ASSUME NEW w \in Workers, Claim(w) PROVE Typed' /\ FreshIds'
  <2> PICK e \in Events :
           /\ pc[w] = "idle" /\ status[e] = "PENDING"
           /\ status' = [status EXCEPT ![e] = "SENDING"]
           /\ attempts' = [attempts EXCEPT ![e] = @ + 1]
           /\ event' = [event EXCEPT ![w] = e]
           /\ pc' = [pc EXCEPT ![w] = "sending"]
           /\ UNCHANGED <<lastEvent, result, loaded, deliveries, lost, overtaken>>
    BY <1>3, ClaimStep
  <2>1. Typed'
    OBVIOUS
  <2>2. FreshIds'
    OBVIOUS
  <2> QED BY <2>1, <2>2
<1>4. ASSUME NEW w \in Workers, Send(w) PROVE Typed' /\ FreshIds'
  <2>1. event[w] \in Events
    BY <1>4 DEF Send
  <2>2. deliveries' \in [Events -> Nat]
    <3>1. \A n \in Nat : [deliveries EXCEPT ![event[w]] = @ + n] \in [Events -> Nat]
      BY <2>1, StillCounts
    <3>2. \E n \in Nat : deliveries' = [deliveries EXCEPT ![event[w]] = @ + n]
      BY <1>4 DEF Send
    <3> QED BY <3>1, <3>2
  <2>3. result' \in [Workers -> Results \cup {NoResult}] /\ overtaken' \subseteq lost'
    BY <1>4 DEF Send
  <2>4. /\ pc' = [pc EXCEPT ![w] = "finishing"]
        /\ UNCHANGED <<status, attempts, lastEvent, event, loaded>>
    BY <1>4 DEF Send, rows
  <2>5. \A v \in Workers : Engaged(v)' => Engaged(v)
    BY <1>4, <2>4 DEF Send
  <2>6. Typed'
    BY <2>1, <2>2, <2>3, <2>4
  <2> QED BY <2>4, <2>5, <2>6
<1>5. ASSUME NEW w \in Workers, FinishStep(w) PROVE Typed' /\ FreshIds'
  <2>1. event[w] \in Events
    BY <1>5 DEF FinishStep
  <2>2. status' \in [Events -> {"ABSENT", "PENDING", "SENDING"} \cup Outcomes] /\ FreshIds'
    <3>1. \E s \in {"SENT", "PENDING", "FAILED"} :
            status' = status \/ status' = [status EXCEPT ![event[w]] = s]
      BY <1>5 DEF FinishStep
    <3>2. status' \in [Events -> {"ABSENT", "PENDING", "SENDING"} \cup Outcomes]
      BY <2>1, <3>1
    <3>3. event[w] <= lastEvent
      BY <1>5 DEF FinishStep
    <3>4. \A e \in Events : e > lastEvent => status'[e] = "ABSENT"
      BY <2>1, <3>1, <3>3
    <3>5. \A v \in Workers : Engaged(v)' => Engaged(v) /\ event'[v] = event[v]
      BY <1>5 DEF FinishStep
    <3> QED BY <1>5, <3>2, <3>4, <3>5 DEF FinishStep
  <2>3. /\ pc' = [pc EXCEPT ![w] = "idle"] /\ event' = [event EXCEPT ![w] = NoEvent]
        /\ result' = [result EXCEPT ![w] = NoResult] /\ loaded' = [loaded EXCEPT ![w] = NotLoaded]
        /\ UNCHANGED <<attempts, lastEvent, deliveries, lost, overtaken>>
    BY <1>5 DEF FinishStep
  <2> QED BY <2>2, <2>3
<1>6. CASE Tick
  BY <1>6 DEF Tick, discord
<1>7. ASSUME NEW w \in Workers, Die(w) PROVE Typed' /\ FreshIds'
  <2>1. deliveries' \in [Events -> Nat]
    BY <1>7 DEF Die
  <2>2. /\ UNCHANGED <<status, attempts, lastEvent>>
        /\ pc' = [pc EXCEPT ![w] = "down"] /\ event' = [event EXCEPT ![w] = NoEvent]
        /\ result' = [result EXCEPT ![w] = NoResult] /\ loaded' = [loaded EXCEPT ![w] = NotLoaded]
    BY <1>7 DEF Die, rows
  <2>3. overtaken' \subseteq lost'
    BY <1>7 DEF Die
  <2> QED BY <2>1, <2>2, <2>3
<1>8. CASE UNCHANGED vars
  BY <1>8 DEF vars
<1>9. ASSUME NEW w \in Workers, ReadBack(w) PROVE Typed' /\ FreshIds'
  BY <1>9 DEF ReadBack, rows, discord
<1> QED
  BY <1>1, <1>2, <1>3, <1>4, <1>5, <1>6, <1>7, <1>8, <1>9, Finishing DEF Next, Work

-----------------------------------------------------------------------------
(* Counting. *)

LEMMA CountStep ==
  ASSUME Typed, CountInv, [Next]_vars
  PROVE  CountInv'
<1> USE EventsArePositive DEF Typed
<1>1. ASSUME UNCHANGED <<attempts, deliveries>>, \A e \in Events : Sending(e)' = Sending(e)
      PROVE  CountInv'
  BY <1>1 DEF CountInv
<1>2. ASSUME NEW w \in Workers, Claim(w) PROVE CountInv'
  <2> PICK e \in Events :
           /\ pc[w] = "idle" /\ status[e] = "PENDING"
           /\ attempts[e] < MAX_NOTIFICATION_ATTEMPTS
           /\ attempts' = [attempts EXCEPT ![e] = @ + 1]
           /\ event' = [event EXCEPT ![w] = e]
           /\ pc' = [pc EXCEPT ![w] = "sending"]
           /\ deliveries' = deliveries
    BY <1>2, ClaimStep
  <2>1. w \notin Sending(e) /\ Sending(e)' = Sending(e) \cup {w}
    BY DEF Sending
  <2>2. \A d \in Events \ {e} : Sending(d)' = Sending(d)
    BY DEF Sending
  <2>3. IsFiniteSet(Sending(e)') /\ Cardinality(Sending(e)') = Cardinality(Sending(e)) + 1
    BY <2>1, FS_AddElement DEF CountInv
  <2>4. Cardinality(Sending(e)) \in Nat
    BY FS_CardinalityType DEF CountInv
  <2>5. attempts[e] + 1 <= MAX_NOTIFICATION_ATTEMPTS
    BY DEF MAX_NOTIFICATION_ATTEMPTS
  <2> QED BY <2>2, <2>3, <2>4, <2>5 DEF CountInv
<1>3. ASSUME NEW w \in Workers, NEW e \in Events, pc[w] = "sending", event[w] = e,
             Sending(e)' = Sending(e) \ {w},
             \A d \in Events \ {e} : Sending(d)' = Sending(d),
             attempts' = attempts,
             deliveries' \in [Events -> Nat],
             deliveries'[e] <= deliveries[e] + 1,
             \A d \in Events \ {e} : deliveries'[d] = deliveries[d]
      PROVE  CountInv'
  <2>1. w \in Sending(e)
    BY <1>3 DEF Sending
  <2>2. IsFiniteSet(Sending(e)') /\ Cardinality(Sending(e)') = Cardinality(Sending(e)) - 1
    BY <1>3, <2>1, FS_RemoveElement DEF CountInv
  <2>3. Cardinality(Sending(e)) \in Nat
    BY FS_CardinalityType DEF CountInv
  <2> QED BY <1>3, <2>2, <2>3 DEF CountInv
<1>4. ASSUME NEW w \in Workers, Send(w) PROVE CountInv'
  <2> PICK e \in Events : event[w] = e
    BY <1>4 DEF Send, Engaged
  <2>1. /\ pc[w] = "sending" /\ pc' = [pc EXCEPT ![w] = "finishing"] /\ event' = event
        /\ attempts' = attempts
    BY <1>4 DEF Send, rows
  <2>2. /\ deliveries' \in [Events -> Nat] /\ deliveries'[e] <= deliveries[e] + 1
        /\ \A d \in Events \ {e} : deliveries'[d] = deliveries[d]
    BY <1>4 DEF Send
  <2>3. Sending(e)' = Sending(e) \ {w} /\ \A d \in Events \ {e} : Sending(d)' = Sending(d)
    BY <2>1 DEF Sending
  <2> QED BY <1>3, <2>1, <2>2, <2>3
<1>5. ASSUME NEW w \in Workers, FinishStep(w)
      PROVE  /\ UNCHANGED <<attempts, deliveries>>
             /\ \A e \in Events : Sending(e)' = Sending(e)
  BY <1>5 DEF FinishStep, Sending
<1>6. ASSUME NEW w \in Workers, Start(w)
      PROVE  /\ UNCHANGED <<attempts, deliveries>>
             /\ \A e \in Events : Sending(e)' = Sending(e)
  BY <1>6 DEF Start, Sending
<1>7. ASSUME NEW w \in Workers, Die(w) PROVE CountInv'
  <2>1. /\ attempts' = attempts
        /\ pc' = [pc EXCEPT ![w] = "down"] /\ event' = [event EXCEPT ![w] = NoEvent]
    BY <1>7 DEF Die, rows
  <2>2. CASE pc[w] = "sending"
    <3> PICK e \in Events : event[w] = e
      BY <2>2 DEF Engaged
    <3>0. deliveries' = deliveries \/ deliveries' = [deliveries EXCEPT ![e] = @ + 1]
      BY <1>7 DEF Die
    <3>1. /\ deliveries' \in [Events -> Nat] /\ deliveries'[e] <= deliveries[e] + 1
          /\ \A d \in Events \ {e} : deliveries'[d] = deliveries[d]
      BY <3>0
    <3>2. Sending(e)' = Sending(e) \ {w} /\ \A d \in Events \ {e} : Sending(d)' = Sending(d)
      BY <2>1 DEF Sending
    <3> QED BY <1>3, <2>1, <2>2, <3>1, <3>2
  <2>3. CASE pc[w] # "sending"
    <3>1. deliveries' = deliveries
      BY <1>7, <2>3 DEF Die
    <3>2. \A e \in Events : Sending(e)' = Sending(e)
      BY <2>1, <2>3 DEF Sending
    <3> QED BY <1>1, <2>1, <3>1, <3>2
  <2> QED BY <2>2, <2>3
<1>8. ASSUME EnqueueNotification \/ Tick \/ UNCHANGED vars
      PROVE  UNCHANGED <<attempts, deliveries, pc, event>>
  BY <1>8 DEF EnqueueNotification, Tick, vars, procs, discord
<1>9. ASSUME UNCHANGED <<attempts, deliveries, pc, event>>
      PROVE  /\ UNCHANGED <<attempts, deliveries>>
             /\ \A e \in Events : Sending(e)' = Sending(e)
  BY <1>9 DEF Sending
<1>10. ASSUME NEW w \in Workers, ReadBack(w)
       PROVE  /\ UNCHANGED <<attempts, deliveries>>
              /\ \A e \in Events : Sending(e)' = Sending(e)
  BY <1>10 DEF ReadBack, Sending, rows, discord
<1> QED
  BY <1>1, <1>2, <1>4, <1>5, <1>6, <1>7, <1>8, <1>9, <1>10, Finishing DEF Next, Work

-----------------------------------------------------------------------------
(* Who has an event in hand. *)

(* Steps that give nobody the event and leave those who have it where they    *)
(* are.                                                                      *)
LEMMA HeldUnchanged ==
  ASSUME NEW e \in Events, Held(e), status'[e] = status[e],
         \A v \in Workers : Has(v, e)' => Has(v, e) /\ pc'[v] = pc[v] /\ loaded'[v] = loaded[v]
  PROVE  Held(e)'
BY DEF Held

LEMMA HeldStep ==
  ASSUME Typed, FreshIds, HeldInv, [Next]_vars
  PROVE  HeldInv'
<1> USE EventsArePositive DEF Typed
<1>1. ASSUME NEW e \in Events \ overtaken', EnqueueNotification PROVE Held(e)'
  <2>1. e \notin overtaken /\ lastEvent + 1 \in Events /\ status[lastEvent + 1] = "ABSENT"
    BY <1>1, NotificationAssumption DEF EnqueueNotification, discord, Events, FreshIds
  <2>2. /\ status' = [status EXCEPT ![lastEvent + 1] = "PENDING"]
        /\ UNCHANGED <<pc, event, loaded>>
    BY <1>1 DEF EnqueueNotification, procs
  <2>3. Held(e)
    BY <2>1 DEF HeldInv
  <2> QED BY <2>1, <2>2, <2>3 DEF Held, Has, Engaged
<1>2. ASSUME NEW w \in Workers, Start(w), NEW e \in Events \ overtaken' PROVE Held(e)'
  <2>1. /\ \A v \in Workers : ~Has(v, e)
        /\ pc' = [pc EXCEPT ![w] = "idle"] /\ UNCHANGED event
    BY <1>2 DEF Start, OutForDelivery, Alive, Has, Engaged
  <2>2. \A v \in Workers : ~Has(v, e)'
    BY <2>1 DEF Has, Engaged
  <2> QED BY <2>2 DEF Held
<1>3. ASSUME NEW w \in Workers, Claim(w), NEW e \in Events \ overtaken' PROVE Held(e)'
  <2> PICK d \in Events :
           /\ pc[w] = "idle" /\ status[d] = "PENDING"
           /\ status' = [status EXCEPT ![d] = "SENDING"]
           /\ event' = [event EXCEPT ![w] = d]
           /\ pc' = [pc EXCEPT ![w] = "sending"]
           /\ UNCHANGED <<loaded, overtaken>>
    BY <1>3, ClaimStep
  <2>1. Held(e)
    BY DEF HeldInv
  <2>2. CASE d = e
    <3>1. \A v \in Workers : ~Has(v, e)
      BY <2>1, <2>2 DEF Held
    <3>2. \A v \in Workers : Has(v, e)' => v = w
      BY <3>1 DEF Has, Engaged
    <3> QED BY <2>2, <3>2 DEF Held
  <2>3. CASE d # e
    <3>1. \A v \in Workers : Has(v, e)' => v # w /\ Has(v, e)
      BY <2>3 DEF Has, Engaged
    <3> QED BY <2>1, <2>3, <3>1, HeldUnchanged
  <2> QED BY <2>2, <2>3
<1>4. ASSUME NEW w \in Workers, Send(w), NEW e \in Events \ overtaken' PROVE Held(e)'
  <2>1. /\ pc[w] = "sending" /\ pc' = [pc EXCEPT ![w] = "finishing"]
        /\ UNCHANGED <<status, event, loaded, overtaken>>
    BY <1>4 DEF Send, rows
  <2>2. Held(e)
    BY <2>1 DEF HeldInv
  <2>3. \A v \in Workers : Has(v, e)' => Has(v, e) /\ (v # w => pc'[v] = pc[v])
    BY <2>1 DEF Has, Engaged
  <2>4. pc'[w] # "writing"
    BY <2>1
  <2> QED BY <2>1, <2>2, <2>3, <2>4 DEF Held
<1>5. ASSUME NEW w \in Workers, ReadBack(w), NEW e \in Events \ overtaken' PROVE Held(e)'
  <2>1. /\ pc[w] = "finishing" /\ pc' = [pc EXCEPT ![w] = "writing"]
        /\ UNCHANGED <<status, event, overtaken>>
    BY <1>5 DEF ReadBack, rows, discord
  <2>2. \A v \in Workers : v # w => loaded'[v] = loaded[v]
    BY <1>5 DEF ReadBack
  <2>3. event[w] = e => loaded'[w].status = status[e]
    BY <1>5 DEF ReadBack
  <2>4. Held(e)
    BY <2>1 DEF HeldInv
  <2>5. \A v \in Workers : Has(v, e)' => Has(v, e) /\ (v # w => pc'[v] = pc[v])
    BY <2>1 DEF Has, Engaged
  <2>6. ASSUME NEW v \in Workers, Has(v, e)', pc'[v] = "writing"
        PROVE  loaded'[v].status = "SENDING"
    <3>1. CASE v = w
      <4>1. event[w] = e
        BY <2>1, <2>6, <3>1 DEF Has
      <4> QED BY <2>3, <2>4, <2>5, <2>6, <3>1, <4>1 DEF Held
    <3>2. CASE v # w
      BY <2>2, <2>4, <2>5, <2>6, <3>2 DEF Held
    <3> QED BY <3>1, <3>2
  <2> QED BY <2>1, <2>4, <2>5, <2>6 DEF Held
<1>6. ASSUME NEW w \in Workers, FinishStep(w), NEW e \in Events \ overtaken' PROVE Held(e)'
  <2>1. /\ pc[w] = "writing" /\ pc' = [pc EXCEPT ![w] = "idle"]
        /\ event' = [event EXCEPT ![w] = NoEvent] /\ event[w] \in Events
        /\ loaded' = [loaded EXCEPT ![w] = NotLoaded] /\ overtaken' = overtaken
    BY <1>6 DEF FinishStep, Engaged
  <2>2. Held(e)
    BY <2>1 DEF HeldInv
  <2>3. \A v \in Workers : Has(v, e)' => v # w /\ Has(v, e)
    BY <2>1 DEF Has, Engaged
  <2>4. CASE event[w] = e
    <3>1. Has(w, e)
      BY <2>1, <2>4 DEF Has, Engaged
    <3>2. \A v \in Workers : ~Has(v, e)'
      BY <2>2, <2>3, <3>1 DEF Held
    <3> QED BY <3>2 DEF Held
  <2>5. CASE event[w] # e
    <3>1. status'[e] = status[e]
      BY <1>6, <2>5 DEF FinishStep
    <3> QED BY <2>1, <2>2, <2>3, <3>1, HeldUnchanged
  <2> QED BY <2>4, <2>5
<1>7. ASSUME NEW w \in Workers, Die(w), NEW e \in Events \ overtaken' PROVE Held(e)'
  <2>1. /\ pc' = [pc EXCEPT ![w] = "down"] /\ event' = [event EXCEPT ![w] = NoEvent]
        /\ loaded' = [loaded EXCEPT ![w] = NotLoaded] /\ UNCHANGED <<status, overtaken>>
    BY <1>7 DEF Die, rows
  <2>2. Held(e)
    BY <2>1 DEF HeldInv
  <2>3. \A v \in Workers : Has(v, e)' => v # w /\ Has(v, e)
    BY <2>1 DEF Has, Engaged
  <2> QED BY <2>1, <2>2, <2>3, HeldUnchanged
<1>8. ASSUME Tick \/ UNCHANGED vars, NEW e \in Events \ overtaken' PROVE Held(e)'
  <2>1. UNCHANGED <<status, pc, event, loaded, overtaken>>
    BY <1>8 DEF Tick, vars, discord
  <2> QED BY <2>1 DEF HeldInv, Held, Has, Engaged
<1> QED
  BY <1>1, <1>2, <1>3, <1>4, <1>5, <1>6, <1>7, <1>8, Finishing DEF Next, Work, HeldInv

-----------------------------------------------------------------------------
(* Tracing a delivery. *)

(* Steps that leave an event, the attempts on it and its deliveries alone.   *)
LEMMA TracedUnchanged ==
  ASSUME NEW e \in Events, Traced(e), status'[e] = status[e], deliveries'[e] = deliveries[e],
         \A v \in Workers : Has(v, e) => pc'[v] = pc[v] /\ event'[v] = e /\ result'[v] = result[v]
  PROVE  Traced(e)'
<1>1. ASSUME NEW v \in Workers, pc[v] \in {"finishing", "writing"}, event[v] = e PROVE Has(v, e)
  BY <1>1 DEF Has, Engaged
<1> QED BY <1>1 DEF Traced

LEMMA TraceStep ==
  ASSUME Typed, FreshIds, HeldInv, TraceInv, [Next]_vars
  PROVE  TraceInv'
<1> USE EventsArePositive DEF Typed
<1>0. ASSUME NEW e \in Events \ lost PROVE Traced(e) /\ Held(e)
  BY <1>0 DEF TraceInv, HeldInv
<1>1. ASSUME NEW e \in Events \ lost', EnqueueNotification PROVE Traced(e)'
  <2>1. e \notin lost /\ lastEvent + 1 \in Events /\ status[lastEvent + 1] = "ABSENT"
    BY <1>1, NotificationAssumption DEF EnqueueNotification, discord, Events, FreshIds
  <2>2. /\ status' = [status EXCEPT ![lastEvent + 1] = "PENDING"]
        /\ UNCHANGED <<pc, event, result, deliveries>>
    BY <1>1 DEF EnqueueNotification, procs, discord
  <2>3. Traced(e)
    BY <1>0, <2>1
  <2> QED BY <2>1, <2>2, <2>3 DEF Traced
<1>2. ASSUME NEW w \in Workers, Start(w), NEW e \in Events \ lost' PROVE Traced(e)'
  <2>1. e \notin lost /\ (\A v \in Workers : ~Has(v, e)) /\ deliveries' = deliveries
    BY <1>2 DEF Start, OutForDelivery, Alive, Has, Engaged
  <2>2. status[e] = "SENT" => status'[e] = "SENT"
    BY <1>2 DEF Start
  <2>3. Traced(e)
    BY <1>0, <2>1
  <2>4. deliveries[e] > 0 => status[e] = "SENT"
    BY <2>1, <2>3 DEF Traced, Has, Engaged
  <2> QED BY <2>1, <2>2, <2>3, <2>4 DEF Traced
<1>3. ASSUME NEW w \in Workers, Claim(w), NEW e \in Events \ lost' PROVE Traced(e)'
  <2> PICK d \in Events :
           /\ pc[w] = "idle" /\ status[d] = "PENDING"
           /\ status' = [status EXCEPT ![d] = "SENDING"]
           /\ event' = [event EXCEPT ![w] = d]
           /\ pc' = [pc EXCEPT ![w] = "sending"]
           /\ UNCHANGED <<result, deliveries, lost>>
    BY <1>3, ClaimStep
  <2>1. Traced(e) /\ Held(e)
    BY <1>0
  <2>2. CASE d = e
    <3>1. \A v \in Workers : ~Has(v, e)
      BY <2>1, <2>2 DEF Held
    <3>2. deliveries[e] = 0
      BY <2>1, <2>2, <3>1 DEF Traced, Has, Engaged
    <3> QED BY <3>2 DEF Traced
  <2>3. CASE d # e
    <3>1. \A v \in Workers : Has(v, e) => v # w /\ event[v] = e
      BY DEF Has, Engaged
    <3> QED BY <2>1, <2>3, <3>1, TracedUnchanged
  <2> QED BY <2>2, <2>3
<1>4. ASSUME NEW w \in Workers, Send(w), NEW e \in Events \ lost' PROVE Traced(e)'
  <2> PICK r \in Results, accepted \in BOOLEAN :
         /\ r = "accepted" => accepted
         /\ result' = [result EXCEPT ![w] = r]
         /\ deliveries' = [deliveries EXCEPT ![event[w]] = @ + IF accepted THEN 1 ELSE 0]
         /\ lost' = IF accepted /\ r # "accepted" THEN lost \cup {event[w]} ELSE lost
    BY <1>4 DEF Send
  <2>1. /\ pc[w] = "sending" /\ pc' = [pc EXCEPT ![w] = "finishing"]
        /\ UNCHANGED <<status, event>> /\ event[w] \in Events
    BY <1>4 DEF Send, rows, Engaged
  <2>2. Traced(e) /\ Held(e)
    BY <1>0
  <2>4. CASE event[w] = e
    <3>1. Has(w, e) /\ status[e] = "SENDING" /\ \A v \in Workers : Has(v, e) => v = w
      BY <2>1, <2>2, <2>4 DEF Held, Has, Engaged
    <3>2. deliveries[e] = 0
      BY <2>1, <2>2, <3>1 DEF Traced, Has, Engaged
    <3>3. CASE ~accepted
      BY <2>4, <3>2, <3>3 DEF Traced
    <3>4. CASE accepted
      <4>1. r = "accepted"
        BY <2>4, <3>4
      <4>2. deliveries'[e] = 1
        BY <2>4, <3>2, <3>4
      <4>3. pc'[w] = "finishing" /\ event'[w] = e /\ result'[w] = "accepted"
        BY <2>1, <2>4, <4>1
      <4> QED BY <4>2, <4>3 DEF Traced
    <3> QED BY <3>3, <3>4
  <2>5. CASE event[w] # e
    <3>1. \A v \in Workers : Has(v, e) => v # w /\ event[v] = e
      BY <2>5 DEF Has
    <3> QED BY <2>1, <2>2, <2>5, <3>1, TracedUnchanged
  <2> QED BY <2>4, <2>5
<1>5. ASSUME NEW w \in Workers, ReadBack(w), NEW e \in Events \ lost' PROVE Traced(e)'
  <2>1. /\ pc[w] = "finishing" /\ pc' = [pc EXCEPT ![w] = "writing"]
        /\ UNCHANGED <<status, event, result, deliveries, lost>>
    BY <1>5 DEF ReadBack, rows, discord
  <2>2. Traced(e)
    BY <1>0, <2>1
  <2>3. \A v \in Workers : pc[v] \in {"finishing", "writing"} => pc'[v] \in {"finishing", "writing"}
    BY <2>1
  <2> QED BY <2>1, <2>2, <2>3 DEF Traced
<1>6. ASSUME NEW w \in Workers, FinishStep(w), NEW e \in Events \ lost' PROVE Traced(e)'
  <2>1. /\ pc[w] = "writing" /\ pc' = [pc EXCEPT ![w] = "idle"]
        /\ event' = [event EXCEPT ![w] = NoEvent] /\ event[w] \in Events
        /\ result' = [result EXCEPT ![w] = NoResult]
        /\ UNCHANGED <<deliveries, lost>>
    BY <1>6 DEF FinishStep, Engaged
  <2>2. Traced(e) /\ Held(e)
    BY <1>0, <2>1
  <2>4. CASE event[w] = e
    <3>1. /\ status[e] = "SENDING" /\ loaded[w].status = "SENDING"
          /\ \A v \in Workers : Has(v, e) => v = w
      BY <2>1, <2>2, <2>4 DEF Held, Has, Engaged
    <3>3. deliveries[e] > 0 => result[w] = "accepted"
      BY <2>2, <3>1 DEF Traced, Has, Engaged
    <3>4. deliveries[e] > 0 => status'[e] = "SENT"
      BY <1>6, <2>4, <3>1, <3>3 DEF FinishStep
    <3> QED BY <2>1, <2>2, <3>4 DEF Traced
  <2>5. CASE event[w] # e
    <3>1. status'[e] = status[e]
      BY <1>6, <2>5 DEF FinishStep
    <3>2. \A v \in Workers : Has(v, e) => v # w /\ event[v] = e
      BY <2>5 DEF Has
    <3> QED BY <2>1, <2>2, <3>1, <3>2, TracedUnchanged
  <2> QED BY <2>4, <2>5
<1>7. ASSUME NEW w \in Workers, Die(w), NEW e \in Events \ lost' PROVE Traced(e)'
  <2>1. /\ pc' = [pc EXCEPT ![w] = "down"] /\ event' = [event EXCEPT ![w] = NoEvent]
        /\ result' = [result EXCEPT ![w] = NoResult]
        /\ status' = status /\ e \notin lost
    BY <1>7 DEF Die, rows
  <2>2. Traced(e) /\ Held(e)
    BY <1>0, <2>1
  <2>3. deliveries'[e] = deliveries[e]
    BY <1>7, <2>1 DEF Die, Engaged
  <2>5. CASE Has(w, e)
    <3>1. status[e] = "SENDING" /\ \A v \in Workers : Has(v, e) => v = w
      BY <2>2, <2>5 DEF Held
    <3>2. ~(pc[w] \in {"finishing", "writing"} /\ result[w] = "accepted")
      BY <1>7, <2>5 DEF Die, Has
    <3>3. deliveries[e] = 0
      BY <2>2, <3>1, <3>2 DEF Traced, Has, Engaged
    <3> QED BY <2>3, <3>3 DEF Traced
  <2>6. CASE ~Has(w, e)
    <3>1. \A v \in Workers : Has(v, e) => v # w /\ event[v] = e
      BY <2>6 DEF Has
    <3> QED BY <2>1, <2>2, <2>3, <3>1, TracedUnchanged
  <2> QED BY <2>5, <2>6
<1>8. ASSUME Tick \/ UNCHANGED vars, NEW e \in Events \ lost' PROVE Traced(e)'
  <2>1. UNCHANGED <<status, pc, event, result, deliveries, lost>>
    BY <1>8 DEF Tick, vars, discord
  <2> QED BY <2>1 DEF TraceInv, Traced
<1> QED
  BY <1>1, <1>2, <1>3, <1>4, <1>5, <1>6, <1>7, <1>8, Finishing DEF Next, Work, TraceInv

-----------------------------------------------------------------------------
(* The theorems. *)

LEMMA NotifyStarts == Init => NotifyInv
<1> SUFFICES ASSUME Init PROVE NotifyInv
  OBVIOUS
<1>1. \A e \in Events : Sending(e) = {}
  BY DEF Init, Sending
<1>2. \A e \in Events : IsFiniteSet(Sending(e)) /\ Cardinality(Sending(e)) = 0
  BY <1>1, FS_EmptySet
<1>3. Typed /\ FreshIds /\ HeldInv /\ TraceInv
  BY EventsArePositive
  DEF Init, Typed, FreshIds, HeldInv, Held, TraceInv, Traced, Has, Engaged, Results
<1>4. CountInv
  BY <1>2 DEF Init, CountInv, MAX_NOTIFICATION_ATTEMPTS
<1> QED BY <1>3, <1>4 DEF NotifyInv

LEMMA NotifyInvariant == Spec => []NotifyInv
<1>1. NotifyInv /\ [Next]_vars => NotifyInv'
  BY TypedStep, CountStep, HeldStep, TraceStep DEF NotifyInv
<1> QED BY NotifyStarts, <1>1, PTL DEF Spec

(* A notification reaches Discord at most as often as it was counted, three   *)
(* times at the most: the count is written before the call, and a call in     *)
(* progress is one of those counted (notifications/service.py:140).          *)
THEOREM AttemptsAreCounted == Spec => []DeliveriesAreCounted
<1>1. NotifyInv => DeliveriesAreCounted
  <2> SUFFICES ASSUME NotifyInv, NEW e \in Events
               PROVE  deliveries[e] <= attempts[e] /\ attempts[e] <= MAX_NOTIFICATION_ATTEMPTS
    BY DEF DeliveriesAreCounted
  <2>1. Cardinality(Sending(e)) \in Nat
    BY FS_CardinalityType DEF NotifyInv, CountInv
  <2>2. deliveries[e] \in Nat /\ attempts[e] \in Nat
    BY DEF NotifyInv, Typed
  <2> QED BY <2>1, <2>2 DEF NotifyInv, CountInv
<1> QED BY NotifyInvariant, <1>1, PTL

(* Discord gets a notification twice only when an answer may have been lost:  *)
(* otherwise one worker at a time has it in hand, and what it delivered it   *)
(* records.                                                                  *)
THEOREM DuplicatesAreExplained == Spec => []DuplicatesFollowLostAnswers
<1>1. NotifyInv => DuplicatesFollowLostAnswers
  BY DEF NotifyInv, TraceInv, Traced, Typed, DuplicatesFollowLostAnswers
<1> QED BY NotifyInvariant, <1>1, PTL

(* SENT and FAILED are final: only a SENDING event is reconciled, and a worker *)
(* writes an event only when it had loaded it as SENDING. An outcome is       *)
(* changed only by a worker that had loaded the event before it got it, and   *)
(* only when a worker was overtaken with that event in hand: otherwise the    *)
(* event stays SENDING from the claim to the write                            *)
(* (notifications/service.py:233, :249).                                     *)
THEOREM OutcomesAreFinal == Spec => OutcomeIsFinal
<1>1. ASSUME NotifyInv, [Next]_vars, NEW e \in Events, status[e] \in Outcomes,
             status'[e] # status[e]
      PROVE  e \in overtaken /\ \E w \in Workers : LateWrite(w, e)
  <2> USE <1>1 DEF NotifyInv, Typed, Outcomes
  <2>1. CASE EnqueueNotification
    BY <2>1, NotificationAssumption DEF EnqueueNotification, FreshIds, Events
  <2>2. ASSUME NEW w \in Workers, Start(w) PROVE FALSE
    BY <2>2 DEF Start
  <2>3. ASSUME NEW w \in Workers, Claim(w) PROVE FALSE
    <3> PICK d \in Events : status[d] = "PENDING" /\ status' = [status EXCEPT ![d] = "SENDING"]
      BY <2>3, ClaimStep
    <3> QED OBVIOUS
  <2>4. ASSUME NEW w \in Workers, FinishStep(w)
        PROVE  e \in overtaken /\ \E v \in Workers : LateWrite(v, e)
    <3>1. loaded[w].status = "SENDING" /\ event[w] = e
      BY <2>4 DEF FinishStep
    <3>2. Has(w, e) /\ LateWrite(w, e)
      BY <2>4, <3>1 DEF FinishStep, Has, Engaged, LateWrite
    <3>3. e \in overtaken
      BY <3>2 DEF HeldInv, Held
    <3> QED BY <3>2, <3>3
  <2>5. ASSUME NEW w \in Workers, Send(w) \/ ReadBack(w) \/ Die(w) PROVE FALSE
    BY <2>5 DEF Send, ReadBack, Die, rows
  <2>6. ASSUME Tick \/ UNCHANGED vars PROVE FALSE
    BY <2>6 DEF Tick, vars
  <2> QED
    BY <2>1, <2>2, <2>3, <2>4, <2>5, <2>6, Finishing DEF Next, Work
<1>2. NotifyInv /\ [Next]_vars =>
        \A e \in Events :
          /\ status[e] \in Outcomes
          /\ status'[e] # status[e]
          => e \in overtaken /\ \E w \in Workers : LateWrite(w, e)
  BY <1>1
<1> QED BY NotifyInvariant, <1>2, PTL DEF Spec, OutcomeIsFinal

-----------------------------------------------------------------------------
(***************************************************************************)
(* Drive transfers.                                                          *)
(***************************************************************************)
(* Records, rows and where the worker is. *)

RecordType == [id : Nat, location : {"LOCAL", "DRIVE"}, backup : 1..MaxBackups]
RowType == [kind : Kinds, record : Nat, backup : Nat,
            status : {"PENDING", "RUNNING"} \cup Terminal,
            cancellable : BOOLEAN, cancel : BOOLEAN]

(* Records are identified by their id, the copies in the Drive by the backup  *)
(* as well; the ids are bounded.                                             *)
RecordInv ==
  /\ records \subseteq RecordType /\ IsFiniteSet(records)
  /\ \E n \in Nat : \A r \in records : r.id <= n
  /\ \A r, q \in records : r.id = q.id => r = q
  /\ \A r, q \in On("DRIVE") : r.backup = q.backup => r = q

RequestInv == requests \subseteq [kind : Kinds, record : Nat, backup : Nat, bereft : BOOLEAN]

RowInv ==
  /\ job \in [JobIds -> RowType \cup {NoRow}]
  /\ lastId \in 0..MaxJobs
  /\ \A j \in JobIds : IF j <= lastId THEN job[j] \in RowType ELSE job[j] = NoRow

(* Files have backups that were made.                                        *)
MadeInv ==
  /\ made \in 0..MaxBackups
  /\ \A r \in records : r.backup <= made
  /\ localFiles \subseteq 1..made

Published == {"published", "closing", "registering"}
Uploading == {"capacity", "retiring", "quota", "uploading", "copying"}
Importing == {"fetching", "imported"}
Deleting  == {"deleting", "erasing", "erased"}

Uploads == step \in Uploading \cup {"published"} \/ (step \in Published /\ Kind = "UPLOAD")
Imports == step \in Importing \/ (step \in {"closing", "registering"} /\ Kind = "DOWNLOAD")

KindInv ==
  /\ step \notin {"idle", "down", "cleaning"} => current \in 1..lastId
  /\ step \in {"validating", "published"} \cup Uploading => Kind = "UPLOAD"
  /\ step \in {"downloading"} \cup Importing => Kind = "DOWNLOAD"
  /\ step \in Deleting => Kind = "DELETE"
  /\ step \in {"closing", "registering"} => Kind \in {"UPLOAD", "DOWNLOAD"}

(* The record of a job in hand is there.                                     *)
TargetInv ==
  /\ Uploads => TargetOn("LOCAL")
  /\ Imports \/ step = "erasing" => TargetOn("DRIVE")
  /\ step = "retiring" => On("DRIVE") # {}

(* An upload has the copy it published, and found its name free or was told so. *)
PublishInv ==
  /\ Uploads /\ step \in Published => Target.backup \in remoteFiles
  /\ Uploads /\ step \in Published \cup {"copying"} =>
       (Target.backup \in CopiesOn("DRIVE") => Target.backup \in torn \cup blind)

(* What a transaction under way has deleted but not yet taken off the record. *)
InHand ==
  CASE step = "retiring" -> {Oldest.backup}
    [] step = "erasing"  -> {Target.backup}
    [] OTHER             -> {}

CopyInv == CopiesOn("DRIVE") \subseteq remoteFiles \cup torn \cup blind \cup InHand

(* There is room for the copy an upload is to register, by the limit it read. *)
RoomInv ==
  /\ limit \in Nat
  /\ Uploads /\ step \notin {"capacity", "retiring"} => Cardinality(On("DRIVE")) < limit

DriveInv ==
  RecordInv /\ RowInv /\ MadeInv /\ KindInv /\ TargetInv /\ PublishInv /\ CopyInv /\ RoomInv

-----------------------------------------------------------------------------
(* What the records give. *)

LEMMA Places ==
  ASSUME RecordInv
  PROVE  /\ \A r \in records : /\ r.id \in Nat /\ r.backup \in 1..MaxBackups
                               /\ r.location \in {"LOCAL", "DRIVE"}
         /\ On("DRIVE") \subseteq records /\ On("LOCAL") \subseteq records
         /\ IsFiniteSet(On("DRIVE")) /\ Cardinality(On("DRIVE")) \in Nat
<1>1. \A r \in records : /\ r.id \in Nat /\ r.backup \in 1..MaxBackups
                         /\ r.location \in {"LOCAL", "DRIVE"}
  BY DEF RecordInv, RecordType
<1>2. On("DRIVE") \subseteq records /\ On("LOCAL") \subseteq records
  BY DEF On
<1>3. IsFiniteSet(On("DRIVE")) /\ Cardinality(On("DRIVE")) \in Nat
  BY <1>2, FS_Subset, FS_CardinalityType DEF RecordInv
<1> QED BY <1>1, <1>2, <1>3

LEMMA NewIds ==
  ASSUME RecordInv
  PROVE  NextRecordId \in Nat /\ \A r \in records : r.id < NextRecordId
<1> PICK n \in Nat : \A r \in records : r.id <= n
  BY DEF RecordInv
<1> DEFINE S == {0} \cup {r.id : r \in records}
<1>1. S \in SUBSET (0..n) /\ S # {}
  BY Places
<1>2. Max(S) \in S /\ \A x \in S : x <= Max(S)
  <2> HIDE DEF S
  <2> QED BY <1>1, Greatest
<1>3. NextRecordId = 1 + Max(S) /\ Max(S) \in Nat
  BY <1>1, <1>2 DEF NextRecordId
<1>4. \A r \in records : r.id \in Nat /\ r.id \in S
  BY Places
<1> HIDE DEF S
<1> QED BY <1>2, <1>3, <1>4

LEMMA OldestIs ==
  ASSUME RecordInv, On("DRIVE") # {}
  PROVE  Oldest \in On("DRIVE")
<1> DEFINE S == {r.backup : r \in On("DRIVE")}
<1>1. S \in SUBSET (0..MaxBackups) /\ S # {} /\ MaxBackups \in Nat
  BY Places, DriveAssumption
<1>2. PICK x \in S : \A y \in S : x <= y
  <2> HIDE DEF S
  <2> QED BY <1>1, Least
<1>3. PICK r \in On("DRIVE") : \A q \in On("DRIVE") : r.backup <= q.backup
  BY <1>2
<1> QED BY <1>3 DEF Oldest

LEMMA TargetIs ==
  ASSUME RecordInv, NEW location, TargetOn(location)
  PROVE  Target \in On(location) /\ Target.id = job[current].record
<1>1. PICK r \in On(location) : r.id = job[current].record
  BY DEF TargetOn
<1>2. r \in records /\ \A q \in records : q.id = job[current].record => q = r
  BY <1>1 DEF On, RecordInv
<1>3. Target = r
  BY <1>1, <1>2 DEF Target
<1> QED BY <1>1, <1>3

(* As long as records and job stay, so does what the job works on.           *)
LEMMA SameTarget ==
  ASSUME records' = records
  PROVE  /\ On("DRIVE")' = On("DRIVE") /\ On("LOCAL")' = On("LOCAL")
         /\ CopiesOn("DRIVE")' = CopiesOn("DRIVE") /\ Oldest' = Oldest
         /\ current' = current /\ job'[current].record = job[current].record =>
              /\ Target' = Target
              /\ TargetOn("LOCAL")' <=> TargetOn("LOCAL")
              /\ TargetOn("DRIVE")' <=> TargetOn("DRIVE")
<1>1. On("DRIVE")' = On("DRIVE") /\ On("LOCAL")' = On("LOCAL")
  BY DEF On
<1>2. CopiesOn("DRIVE")' = CopiesOn("DRIVE") /\ Oldest' = Oldest
  BY <1>1 DEF CopiesOn, Oldest
<1> QED BY <1>1, <1>2 DEF Target, TargetOn

-----------------------------------------------------------------------------
(* Rows of jobs. *)

LEMMA RowChanged ==
  ASSUME RowInv, NEW j \in JobIds, job[j] # NoRow, NEW row,
         job' = [job EXCEPT ![j] = row], lastId' = lastId,
         \E s \in {"PENDING", "RUNNING"} \cup Terminal, cancellable, cancel \in BOOLEAN :
           row = [job[j] EXCEPT !.status = s, !.cancellable = cancellable,
                                !.cancel = cancel]
  PROVE  /\ RowInv'
         /\ \A i \in JobIds : job'[i].kind = job[i].kind /\ job'[i].record = job[i].record
<1> PICK s \in {"PENDING", "RUNNING"} \cup Terminal,
         cancellable \in BOOLEAN, cancel \in BOOLEAN :
           row = [job[j] EXCEPT !.status = s, !.cancellable = cancellable,
                                !.cancel = cancel]
  OBVIOUS
<1>1. job[j] \in RowType
  BY DEF RowInv
<1>2. row \in RowType /\ row.kind = job[j].kind /\ row.record = job[j].record
  BY <1>1 DEF RowType
<1> QED BY <1>2 DEF RowInv

LEMMA Enqueued ==
  ASSUME RowInv, NEW kind \in Kinds, NEW id \in Nat, NEW b \in Nat, Insert(kind, id, b)
  PROVE  RowInv' /\ lastId' = lastId + 1 /\ \A i \in 1..lastId : job'[i] = job[i]
<1> DEFINE row == [kind |-> kind, record |-> id, backup |-> b, status |-> "PENDING",
                   cancellable |-> kind # "DELETE", cancel |-> FALSE]
<1>1. row \in RowType
  BY DEF RowType
<1>2. lastId' = lastId + 1 /\ lastId < MaxJobs /\ job' = [job EXCEPT ![lastId + 1] = row]
  BY DEF Insert
<1> HIDE DEF row
<1> QED BY <1>1, <1>2, DriveAssumption DEF RowInv, JobIds

-----------------------------------------------------------------------------
(* Records added and removed. *)

LEMMA RecordsRemoved ==
  ASSUME RecordInv, records' \subseteq records
  PROVE  RecordInv'
<1>1. On("DRIVE")' \subseteq On("DRIVE")
  BY DEF On
<1>2. IsFiniteSet(records')
  BY FS_Subset DEF RecordInv
<1>3. \E n \in Nat : \A r \in records' : r.id <= n
  BY DEF RecordInv
<1> QED BY <1>1, <1>2, <1>3 DEF RecordInv

LEMMA RecordAdded ==
  ASSUME RecordInv, NEW location \in {"LOCAL", "DRIVE"}, NEW b \in 1..MaxBackups,
         NEW new, new = Record(location, b), NEW gone,
         records' = (records \cup {new}) \ gone,
         location = "DRIVE" => b \notin CopiesOn("DRIVE")
  PROVE  RecordInv' /\ new.location = location /\ new.backup = b
<1>1. /\ new \in RecordType /\ new.location = location /\ new.backup = b
      /\ \A r \in records : r.id < new.id
  BY NewIds DEF Record, RecordType
<1>2. IsFiniteSet(records')
  <2>1. IsFiniteSet(records \cup {new})
    BY FS_AddElement DEF RecordInv
  <2> QED BY <2>1, FS_Difference
<1>3. \A r \in records' : r \in RecordType /\ r.id <= new.id /\ (r.id = new.id => r = new)
  BY <1>1, Places DEF RecordInv, RecordType
<1>4. \A r, q \in records' : r.id = q.id => r = q
  BY <1>1, <1>3, Places DEF RecordInv
<1>5. \A r, q \in On("DRIVE")' : r.backup = q.backup => r = q
  <2>1. \A r \in On("DRIVE")' : r = new \/ r \in On("DRIVE")
    BY DEF On
  <2>2. new \in On("DRIVE")' => \A r \in On("DRIVE") : r.backup # new.backup
    BY <1>1 DEF On, CopiesOn
  <2> QED BY <2>1, <2>2 DEF RecordInv
<1>6. new.id \in Nat
  BY <1>1 DEF RecordType
<1> QED BY <1>1, <1>2, <1>3, <1>4, <1>5, <1>6 DEF RecordInv

(* Retention looks at local records only. *)
LEMMA LocalRegistered ==
  ASSUME RecordInv, NEW b \in 1..MaxBackups, NEW protected \in BOOLEAN,
         NEW new, new = Record("LOCAL", b),
         NEW n, NEW gone, gone = DroppedBy(new, protected, n),
         records' = (records \cup {new}) \ gone
  PROVE  /\ RecordInv' /\ On("DRIVE")' = On("DRIVE")
         /\ gone \subseteq On("LOCAL") \cup {new} /\ new.backup = b
         /\ \A r \in records' : r \in records \/ r.backup = b
<1>1. RecordInv' /\ new.location = "LOCAL" /\ new.backup = b
  BY RecordAdded
<1>2. gone \subseteq On("LOCAL") \cup {new}
  BY DEF DroppedBy
<1>3. On("DRIVE")' = On("DRIVE")
  BY <1>1, <1>2 DEF On
<1> QED BY <1>1, <1>2, <1>3

(* Between the steps of a transfer all that matters is that copies have files. *)
LEMMA Settled ==
  ASSUME RecordInv', RowInv', MadeInv',
         step' \in {"idle", "failed", "cancelled", "down", "cleaning"},
         step' \in {"failed", "cancelled"} => current' \in 1..lastId',
         CopiesOn("DRIVE")' \subseteq remoteFiles' \cup torn' \cup blind',
         limit' \in Nat
  PROVE  DriveInv'
BY DEF DriveInv, KindInv, TargetInv, PublishInv, CopyInv, RoomInv, InHand, Uploads, Imports,
       Uploading, Published, Importing, Deleting

LEMMA FinishedRow ==
  ASSUME RowInv, current \in 1..lastId, NEW outcome \in Terminal,
         FinishTransfer(outcome), lastId' = lastId
  PROVE  RowInv' /\ step' = "idle"
<1>1. current \in JobIds /\ job[current] \in RowType
  BY DriveAssumption DEF RowInv, JobIds
<1>2. /\ job' = [job EXCEPT ![current] = [job[current] EXCEPT !.status = outcome,
                                                              !.cancellable = FALSE]]
      /\ step' = "idle"
  BY DEF FinishTransfer, Leave
<1>3. [job[current] EXCEPT !.status = outcome, !.cancellable = FALSE] \in RowType
  BY <1>1 DEF RowType
<1> QED BY <1>1, <1>2, <1>3 DEF RowInv

-----------------------------------------------------------------------------
(* Steps. *)

(* A transfer goes on, or the web process writes rows: records, published     *)
(* copies and the work of the job stay as they are.                          *)
LEMMA Advanced ==
  ASSUME DriveInv, UNCHANGED <<made, records, remoteFiles, torn, current>>,
         MadeInv', RowInv', lastId <= lastId', blind \subseteq blind',
         limit' = limit \/ (limit' \in Nat /\ step = "validating"),
         current \in 1..lastId =>
           job'[current].kind = job[current].kind /\ job'[current].record = job[current].record,
         \/ step' = step
         \/ step = "validating"  /\ step' = "capacity" /\ TargetOn("LOCAL")
         \/ step = "capacity"    /\ step' = "quota" /\ Cardinality(On("DRIVE")) < limit
         \/ step = "quota"       /\ step' = "uploading"
         \/ step = "uploading"   /\ step' = "copying" /\ Target.backup \notin remoteFiles \ blind'
         \/ step = "downloading" /\ step' = "fetching" /\ TargetOn("DRIVE")
         \/ step = "fetching"    /\ step' = "imported"
         \/ step \in {"published", "imported"} /\ step' = "closing"
         \/ step = "closing"     /\ step' = "registering"
  PROVE  DriveInv'
<1>1. /\ On("DRIVE")' = On("DRIVE") /\ CopiesOn("DRIVE")' = CopiesOn("DRIVE")
      /\ On("LOCAL")' = On("LOCAL") /\ Oldest' = Oldest
  BY SameTarget
<1>2. RecordInv'
  BY <1>1 DEF DriveInv, RecordInv
<1>3. lastId \in Nat /\ lastId' \in Nat
  BY DriveAssumption DEF DriveInv, RowInv
<1>4. CASE step \in {"idle", "down", "cleaning"}
  <2>1. step' = step /\ InHand = {}
    BY <1>4 DEF InHand
  <2>2. CopiesOn("DRIVE")' \subseteq remoteFiles' \cup torn' \cup blind' /\ limit' \in Nat
    BY <1>1, <2>1 DEF DriveInv, CopyInv, RoomInv
  <2> QED BY <1>2, <1>4, <2>1, <2>2, Settled
<1>5. CASE step \notin {"idle", "down", "cleaning"}
  <2>1. current \in 1..lastId
    BY <1>5 DEF DriveInv, KindInv
  <2>2. /\ Kind' = Kind /\ Target' = Target /\ current' \in 1..lastId'
        /\ TargetOn("LOCAL")' <=> TargetOn("LOCAL")
        /\ TargetOn("DRIVE")' <=> TargetOn("DRIVE")
    BY <1>3, <2>1, SameTarget DEF Kind
  <2>3. KindInv'
    BY <2>2 DEF DriveInv, KindInv, Uploading, Importing, Deleting
  <2>4. TargetInv'
    BY <1>1, <2>2 DEF DriveInv, KindInv, TargetInv, Uploads, Imports, Uploading, Published,
       Importing, Deleting
  <2>5. CopyInv'
    BY <1>1, <2>2 DEF DriveInv, CopyInv, InHand
  <2>6. PublishInv'
    <3>1. CASE /\ step = "uploading" /\ step' = "copying"
               /\ Target.backup \notin remoteFiles \ blind'
      <4>1. Target.backup \in CopiesOn("DRIVE") => Target.backup \in torn' \cup blind'
        BY <3>1 DEF DriveInv, CopyInv, InHand
      <4> QED BY <1>1, <2>2, <3>1, <4>1 DEF PublishInv, Published
    <3>2. CASE ~(step = "uploading" /\ step' = "copying")
      BY <1>1, <2>2, <3>2 DEF DriveInv, KindInv, PublishInv, Uploads, Uploading, Published,
         Importing
    <3> QED BY <3>1, <3>2
  <2>7. RoomInv'
    BY <1>1, <2>2 DEF DriveInv, KindInv, RoomInv, Uploads, Uploading, Published, Importing
  <2> QED BY <1>2, <2>3, <2>4, <2>5, <2>6, <2>7 DEF DriveInv
<1> QED BY <1>4, <1>5

(* The worker takes the copy of r from the Drive before it takes the record.  *)
LEMMA Taken ==
  ASSUME DriveInv,
         UNCHANGED <<made, records, localFiles, job, lastId, current, torn, blind, limit>>,
         \/ /\ step' = "retiring" /\ step \in {"capacity", "quota"} /\ On("DRIVE") # {}
            /\ remoteFiles' = remoteFiles \ {Oldest.backup}
         \/ /\ step' = "erasing" /\ step = "deleting" /\ TargetOn("DRIVE")
            /\ remoteFiles' = remoteFiles \ {Target.backup}
  PROVE  DriveInv'
<1>1. /\ On("DRIVE")' = On("DRIVE") /\ CopiesOn("DRIVE")' = CopiesOn("DRIVE")
      /\ On("LOCAL")' = On("LOCAL") /\ Oldest' = Oldest /\ Target' = Target
      /\ TargetOn("LOCAL")' <=> TargetOn("LOCAL")
      /\ TargetOn("DRIVE")' <=> TargetOn("DRIVE")
      /\ Kind' = Kind
  BY SameTarget DEF Kind
<1>2. RecordInv' /\ RowInv' /\ MadeInv'
  BY <1>1 DEF DriveInv, RecordInv, RowInv, MadeInv
<1>3. KindInv' /\ TargetInv' /\ PublishInv'
  BY <1>1 DEF DriveInv, KindInv, TargetInv, PublishInv, Uploads, Imports, Uploading, Published,
     Importing, Deleting
<1>4. CopyInv'
  <2>1. InHand = {}
    BY DEF InHand
  <2>2. InHand' = IF step' = "retiring" THEN {Oldest.backup} ELSE {Target.backup}
    BY <1>1 DEF InHand
  <2> QED BY <1>1, <2>1, <2>2 DEF DriveInv, CopyInv
<1>5. RoomInv'
  BY <1>1 DEF DriveInv, RoomInv, Uploads, Uploading, Published
<1> QED BY <1>2, <1>3, <1>4, <1>5 DEF DriveInv

(* The worker gives the job up: what it published stays or goes, and a copy   *)
(* that goes had no record, or one that has lost its copy before.             *)
LEMMA GivenUp ==
  ASSUME DriveInv, UNCHANGED <<made, records, job, lastId, current>>,
         limit' \in Nat \/ limit' = limit,
         localFiles' \subseteq localFiles,
         step \notin {"idle", "down", "cleaning"}, step' \in {"failed", "cancelled"},
         CopiesOn("DRIVE") \subseteq remoteFiles' \cup torn' \cup blind'
  PROVE  DriveInv'
<1>1. On("DRIVE")' = On("DRIVE") /\ CopiesOn("DRIVE")' = CopiesOn("DRIVE")
  BY SameTarget
<1>2. RecordInv' /\ RowInv' /\ MadeInv'
  BY <1>1 DEF DriveInv, RecordInv, RowInv, MadeInv
<1>3. current' \in 1..lastId'
  BY DEF DriveInv, KindInv
<1>4. limit' \in Nat
  BY DEF DriveInv, RoomInv
<1>5. CopiesOn("DRIVE")' \subseteq remoteFiles' \cup torn' \cup blind'
  BY <1>1
<1> QED BY <1>2, <1>3, <1>4, <1>5, Settled

(* Outside the two transactions that take a copy nothing is half done. *)
LEMMA CopiesSettled ==
  ASSUME DriveInv, step \notin {"retiring", "erasing"}
  PROVE  CopiesOn("DRIVE") \subseteq remoteFiles \cup torn \cup blind
BY DEF DriveInv, CopyInv, InHand

LEMMA TornInHand ==
  ASSUME DriveInv, Tear
  PROVE  CopiesOn("DRIVE") \subseteq remoteFiles \cup torn' \cup blind
<1>1. torn' = torn \cup InHand
  BY DEF Tear, InHand
<1> QED BY <1>1 DEF DriveInv, CopyInv

-----------------------------------------------------------------------------
(* The initial state and the actions. *)

LEMMA DriveStarts == DriveInit => DriveInv
<1> SUFFICES ASSUME DriveInit PROVE DriveInv
  OBVIOUS
<1>1. On("DRIVE") = {} /\ CopiesOn("DRIVE") = {}
  BY DEF DriveInit, On, CopiesOn
<1>2. IsFiniteSet({}) /\ Cardinality(On("DRIVE")) = 0
  BY <1>1, FS_EmptySet
<1>3. RecordInv
  BY <1>1, <1>2 DEF DriveInit, RecordInv
<1>4. RowInv /\ MadeInv
  BY DriveAssumption DEF DriveInit, RowInv, MadeInv, JobIds
<1>5. KindInv /\ TargetInv /\ PublishInv /\ CopyInv
  BY <1>1 DEF DriveInit, KindInv, TargetInv, PublishInv, CopyInv, Uploads, Imports, Uploading,
     Published, Importing, Deleting
<1>6. RoomInv
  BY <1>2 DEF DriveInit, RoomInv, Uploads, Uploading, Published
<1> QED BY <1>3, <1>4, <1>5, <1>6 DEF DriveInv

LEMMA WebStep == DriveInv /\ RequestInv /\ Web => DriveInv'
<1> SUFFICES ASSUME DriveInv, RequestInv, Web PROVE DriveInv'
  OBVIOUS
<1>1. lastId \in 0..MaxJobs /\ MaxJobs \in Nat /\ RecordInv /\ RowInv
  BY DriveAssumption DEF DriveInv, RowInv
<1>2. ASSUME NEW q \in requests, Enqueue(q) PROVE DriveInv'
  <2>1. /\ q.kind \in Kinds /\ q.record \in Nat /\ q.backup \in Nat
        /\ Insert(q.kind, q.record, q.backup)
    BY <1>2 DEF RequestInv, Enqueue
  <2>2. RowInv' /\ lastId' = lastId + 1 /\ \A i \in 1..lastId : job'[i] = job[i]
    BY <1>1, <2>1, Enqueued
  <2>3. MadeInv'
    BY <1>2 DEF DriveInv, MadeInv, Enqueue, files
  <2>4. UNCHANGED <<made, records, remoteFiles, torn, blind, limit, current, step>>
    BY <1>2 DEF Enqueue, files
  <2> QED BY <1>1, <2>2, <2>3, <2>4, Advanced
<1>3. ASSUME NEW j \in JobIds, RequestCancel(j) PROVE DriveInv'
  <2>1. job[j] # NoRow /\ job[j] \in RowType
    BY <1>1, <1>3 DEF RequestCancel, Active, NoRow, RowInv
  <2>2. job' = [job EXCEPT ![j] = [job[j] EXCEPT !.cancel = TRUE]] /\ lastId' = lastId
    BY <1>3 DEF RequestCancel
  <2>3. [job[j] EXCEPT !.cancel = TRUE] =
          [job[j] EXCEPT !.status = job[j].status, !.cancellable = job[j].cancellable,
                         !.cancel = TRUE]
    BY <2>1 DEF RowType
  <2>4. /\ job[j].status \in {"PENDING", "RUNNING"} \cup Terminal
        /\ job[j].cancellable \in BOOLEAN
    BY <2>1 DEF RowType
  <2>5. RowInv' /\ \A i \in JobIds : job'[i].kind = job[i].kind /\ job'[i].record = job[i].record
    BY <1>1, <2>1, <2>2, <2>3, <2>4, RowChanged
  <2>6. MadeInv'
    BY <1>3 DEF RequestCancel, DriveInv, MadeInv, files
  <2>7. UNCHANGED <<made, records, remoteFiles, torn, blind, limit, current, step>>
    BY <1>3 DEF RequestCancel, files, queue, history
  <2>8. 1..lastId \subseteq JobIds
    BY <1>1 DEF JobIds
  <2> QED BY <1>1, <2>2, <2>5, <2>6, <2>7, <2>8, Advanced
<1>4. CASE RequestUpload \/ RequestDownload \/ RequestDelete \/ \E q \in requests : Conflict(q)
  <2>1. UNCHANGED <<made, records, remoteFiles, localFiles, job, lastId, step, current, torn,
                    blind, limit>>
    BY <1>4 DEF RequestUpload, RequestDownload, RequestDelete, Read, Conflict, files, queue, history
  <2>2. MadeInv' /\ RowInv'
    BY <2>1 DEF DriveInv, MadeInv, RowInv
  <2> QED BY <1>1, <2>1, <2>2, Advanced
<1> QED BY <1>2, <1>3, <1>4 DEF Web

(* A backup that succeeds brings a local record, and retention may take others. *)
LEMMA MakeBackupStep == DriveInv /\ MakeBackup => DriveInv'
<1> SUFFICES ASSUME DriveInv, MakeBackup PROVE DriveInv'
  OBVIOUS
<1> DEFINE new == Record("LOCAL", made + 1)
<1>0. PICK k \in Retentions :
        LET gone == DroppedBy(new, FALSE, k)
        IN  /\ records' = (records \cup {new}) \ gone
            /\ localFiles' = (localFiles \cup {made + 1}) \ {r.backup : r \in gone}
            /\ Insert("UPLOAD", new.id, new.backup) \/ UNCHANGED <<job, lastId>>
  BY DEF MakeBackup
<1> DEFINE gone == DroppedBy(new, FALSE, k)
<1>1. /\ step = "idle" /\ step' = "idle" /\ made' = made + 1 /\ made < MaxBackups
      /\ records' = (records \cup {new}) \ gone
      /\ localFiles' \subseteq localFiles \cup {made + 1}
      /\ Insert("UPLOAD", new.id, new.backup) \/ UNCHANGED <<job, lastId>>
      /\ UNCHANGED <<remoteFiles, torn, blind, limit>>
  BY <1>0 DEF MakeBackup
<1>2. RecordInv /\ RowInv /\ made \in Nat /\ made + 1 \in 1..MaxBackups
  BY <1>1, DriveAssumption DEF DriveInv, MadeInv
<1>3. /\ RecordInv' /\ On("DRIVE")' = On("DRIVE") /\ new.backup = made + 1
      /\ \A r \in records' : r \in records \/ r.backup = made + 1
  <2>0. PICK p \in BOOLEAN : p = FALSE
    OBVIOUS
  <2>1. PICK n, g : n = new /\ g = gone
    OBVIOUS
  <2>2. /\ n = Record("LOCAL", made + 1) /\ g = DroppedBy(n, p, k)
        /\ records' = (records \cup {n}) \ g
    BY <1>1, <2>0, <2>1
  <2> HIDE DEF new, gone
  <2>3. /\ RecordInv' /\ On("DRIVE")' = On("DRIVE") /\ n.backup = made + 1
        /\ \A r \in records' : r \in records \/ r.backup = made + 1
    BY <1>2, <2>2, LocalRegistered
  <2> QED BY <2>1, <2>3
<1>4. new.id \in Nat /\ new.backup \in Nat
  BY <1>2, NewIds DEF Record
<1>5. MadeInv'
  <2> HIDE DEF new
  <2>1. made' \in 0..MaxBackups
    BY <1>1, <1>2, DriveAssumption
  <2>2. \A r \in records' : r.backup <= made'
    <3> SUFFICES ASSUME NEW r \in records' PROVE r.backup <= made + 1
      BY <1>1
    <3>1. CASE r \in records
      BY <1>2, <3>1, Places DEF DriveInv, MadeInv
    <3>2. CASE r.backup = made + 1
      BY <1>2, <3>2
    <3> QED BY <1>3, <3>1, <3>2
  <2>3. localFiles' \subseteq 1..made'
    BY <1>1, <1>2 DEF DriveInv, MadeInv
  <2> QED BY <2>1, <2>2, <2>3 DEF MadeInv
<1>6. RowInv'
  <2> HIDE DEF new
  <2>1. CASE Insert("UPLOAD", new.id, new.backup)
    BY <1>2, <1>4, <2>1, Enqueued DEF Kinds
  <2>2. CASE UNCHANGED <<job, lastId>>
    BY <1>2, <2>2 DEF RowInv
  <2> QED BY <1>1, <2>1, <2>2
<1>7. CopiesOn("DRIVE")' \subseteq remoteFiles' \cup torn' \cup blind'
  BY <1>1, <1>3, CopiesSettled DEF CopiesOn
<1>8. limit' \in Nat
  BY <1>1 DEF DriveInv, RoomInv
<1> QED BY <1>1, <1>3, <1>5, <1>6, <1>7, <1>8, Settled

LEMMA ClaimTransferStep == DriveInv /\ ClaimTransfer => DriveInv'
<1> SUFFICES ASSUME DriveInv, ClaimTransfer PROVE DriveInv'
  OBVIOUS
<1>1. Pending \in SUBSET (0..MaxJobs) /\ Pending # {} /\ MaxJobs \in Nat
  BY DriveAssumption DEF ClaimTransfer, Pending, JobIds
<1>2. Min(Pending) \in Pending
  BY <1>1, Least DEF Min
<1>3. PICK j \in Pending : j = Min(Pending)
  BY <1>2
<1>4. /\ job' = [job EXCEPT ![j] = [job[j] EXCEPT !.status = "RUNNING"]]
      /\ current' = j /\ step = "idle" /\ step' = FirstStep(job[j].kind)
      /\ UNCHANGED <<made, records, localFiles, remoteFiles, lastId, torn, blind, limit>>
  BY <1>3 DEF ClaimTransfer, files, queue, history
<1>5. j \in JobIds /\ job[j] # NoRow
  BY <1>3 DEF Pending, NoRow
<1>6. job[j] \in RowType /\ j \in 1..lastId /\ RowInv /\ lastId \in Nat
  BY <1>5, DriveAssumption DEF DriveInv, RowInv, JobIds
<1>7. /\ job[j].kind \in Kinds /\ job[j].cancellable \in BOOLEAN /\ job[j].cancel \in BOOLEAN
      /\ [job[j] EXCEPT !.status = "RUNNING"] =
           [job[j] EXCEPT !.status = "RUNNING", !.cancellable = job[j].cancellable,
                          !.cancel = job[j].cancel]
  BY <1>6 DEF RowType
<1>8. RowInv' /\ \A i \in JobIds : job'[i].kind = job[i].kind /\ job'[i].record = job[i].record
  BY <1>4, <1>5, <1>6, <1>7, RowChanged
<1>9. /\ On("DRIVE")' = On("DRIVE") /\ CopiesOn("DRIVE")' = CopiesOn("DRIVE")
  BY <1>4, SameTarget
<1>10. RecordInv' /\ MadeInv'
  BY <1>4, <1>9 DEF DriveInv, RecordInv, MadeInv
<1>11. /\ step' \in {"validating", "downloading", "deleting"}
       /\ step' = "validating" => Kind' = "UPLOAD"
       /\ step' = "downloading" => Kind' = "DOWNLOAD"
       /\ step' = "deleting" => Kind' = "DELETE"
  <2>1. Kind' = job[j].kind
    BY <1>4, <1>5, <1>8 DEF Kind
  <2> QED BY <1>4, <1>7, <2>1 DEF FirstStep, Kinds
<1>12. KindInv'
  BY <1>4, <1>6, <1>11 DEF KindInv, Uploading, Importing, Deleting
<1>13. TargetInv' /\ PublishInv'
  BY <1>11 DEF TargetInv, PublishInv, Uploads, Imports, Uploading, Published, Importing
<1>14. CopyInv'
  BY <1>4, <1>9, <1>11, CopiesSettled DEF CopyInv, InHand
<1>15. RoomInv'
  BY <1>4, <1>11 DEF DriveInv, RoomInv, Uploads, Uploading, Published
<1> QED BY <1>8, <1>10, <1>12, <1>13, <1>14, <1>15 DEF DriveInv

(* The oldest copy is taken, or found missing.                               *)
LEMMA RetireStep ==
  ASSUME DriveInv, step \in {"capacity", "quota"}, Retire,
         UNCHANGED <<made, records, localFiles, job, lastId, current, torn, blind, limit>>
  PROVE  DriveInv'
<1>1. CASE Oldest.backup \in remoteFiles
  BY <1>1, Taken DEF Retire
<1>2. CASE Oldest.backup \notin remoteFiles
  BY <1>2, GivenUp, CopiesSettled DEF Retire
<1> QED BY <1>1, <1>2

LEMMA CommitRetirementStep == DriveInv /\ CommitRetirement => DriveInv'
<1> SUFFICES ASSUME DriveInv, CommitRetirement PROVE DriveInv'
  OBVIOUS
<1>1. /\ step = "retiring" /\ step' = "capacity" /\ records' = records \ {Oldest}
      /\ UNCHANGED <<made, localFiles, remoteFiles, job, lastId, current, torn, blind, limit>>
  BY DEF CommitRetirement, At, files
<1>2. Oldest \in On("DRIVE") /\ RecordInv
  BY <1>1, OldestIs DEF DriveInv, TargetInv
<1>3. On("DRIVE")' = On("DRIVE") \ {Oldest} /\ On("LOCAL")' = On("LOCAL")
  BY <1>1, <1>2 DEF On
<1>4. RecordInv'
  BY <1>1, <1>2, RecordsRemoved
<1>5. RowInv' /\ MadeInv' /\ KindInv'
  BY <1>1 DEF DriveInv, RowInv, MadeInv, KindInv, Kind, Uploading, Importing, Deleting
<1>6. TargetInv'
  <2>1. TargetOn("LOCAL")
    BY <1>1 DEF DriveInv, TargetInv, Uploads, Uploading
  <2>2. TargetOn("LOCAL")'
    BY <1>1, <1>3, <2>1 DEF TargetOn
  <2> QED BY <1>1, <2>2 DEF TargetInv, Imports, Importing
<1>7. PublishInv'
  BY <1>1 DEF PublishInv, Published
<1>8. CopyInv'
  <2>1. CopiesOn("DRIVE")' \subseteq CopiesOn("DRIVE") \ {Oldest.backup}
    BY <1>2, <1>3 DEF CopiesOn, RecordInv
  <2>2. CopiesOn("DRIVE") \subseteq remoteFiles \cup torn \cup blind \cup {Oldest.backup}
    BY <1>1 DEF DriveInv, CopyInv, InHand
  <2> QED BY <1>1, <2>1, <2>2 DEF CopyInv
<1>9. RoomInv'
  BY <1>1 DEF DriveInv, RoomInv
<1> QED BY <1>4, <1>5, <1>6, <1>7, <1>8, <1>9 DEF DriveInv

(* The worker goes on with its transfer, and nothing else moves.              *)
LEMMA Onward ==
  ASSUME DriveInv,
         UNCHANGED <<made, records, localFiles, remoteFiles, job, lastId, current, torn>>,
         blind \subseteq blind', limit' = limit \/ (limit' \in Nat /\ step = "validating"),
         \/ step = "validating"  /\ step' = "capacity" /\ TargetOn("LOCAL")
         \/ step = "capacity"    /\ step' = "quota" /\ Cardinality(On("DRIVE")) < limit
         \/ step = "quota"       /\ step' = "uploading"
         \/ step = "uploading"   /\ step' = "copying" /\ Target.backup \notin remoteFiles \ blind'
         \/ step = "downloading" /\ step' = "fetching" /\ TargetOn("DRIVE")
         \/ step \in {"published", "imported"} /\ step' = "closing"
  PROVE  DriveInv'
<1>1. MadeInv' /\ RowInv' /\ lastId <= lastId'
  BY DriveAssumption DEF DriveInv, MadeInv, RowInv
<1> QED BY <1>1, Advanced

LEMMA PublishStep == DriveInv /\ Publish => DriveInv'
<1> SUFFICES ASSUME DriveInv, Publish PROVE DriveInv'
  OBVIOUS
<1>1. /\ step = "copying" /\ step' = "published"
      /\ remoteFiles' = remoteFiles \cup {Target.backup}
      /\ UNCHANGED <<made, records, localFiles, job, lastId, current, torn, blind, limit>>
  BY DEF Publish, At, queue, history
<1>2. /\ On("DRIVE")' = On("DRIVE") /\ CopiesOn("DRIVE")' = CopiesOn("DRIVE")
      /\ Target' = Target /\ (TargetOn("LOCAL")' <=> TargetOn("LOCAL")) /\ Kind' = Kind
  BY <1>1, SameTarget DEF Kind
<1>3. RecordInv' /\ RowInv' /\ MadeInv'
  BY <1>1, <1>2 DEF DriveInv, RecordInv, RowInv, MadeInv
<1>4. KindInv'
  BY <1>1, <1>2 DEF DriveInv, KindInv, Uploading, Importing, Deleting
<1>5. TargetInv'
  BY <1>1, <1>2 DEF DriveInv, TargetInv, Uploads, Imports, Uploading, Importing
<1>6. PublishInv'
  BY <1>1, <1>2 DEF DriveInv, PublishInv, Uploads, Uploading, Published
<1>7. CopyInv'
  BY <1>1, <1>2, CopiesSettled DEF CopyInv
<1>8. RoomInv'
  BY <1>1, <1>2 DEF DriveInv, RoomInv, Uploads, Uploading
<1> QED BY <1>3, <1>4, <1>5, <1>6, <1>7, <1>8 DEF DriveInv

(* A record that is there for the new copy had lost its own to a torn          *)
(* transaction, or lends it to the upload that was told the name is free.     *)
LEMMA RegisterRemoteStep == DriveInv /\ RegisterRemote => DriveInv'
<1> SUFFICES ASSUME DriveInv, RegisterRemote PROVE DriveInv'
  OBVIOUS
<1>1. /\ step = "registering" /\ Kind = "UPLOAD" /\ Uploads /\ RecordInv /\ RowInv
      /\ UNCHANGED <<made, lastId, torn, blind>>
  BY DEF RegisterRemote, queue, history, Uploads, Published, DriveInv
<1>2. PICK b : b = Target.backup
  OBVIOUS
<1>3. /\ b \in remoteFiles
      /\ b \in CopiesOn("DRIVE") => b \in torn \cup blind
      /\ TargetOn("LOCAL")
      /\ current \in 1..lastId /\ CopiesOn("DRIVE") \subseteq remoteFiles \cup torn \cup blind
  BY <1>1, <1>2, CopiesSettled
     DEF DriveInv, PublishInv, Published, TargetInv, KindInv
<1>4. Target \in records /\ b \in 1..MaxBackups /\ b <= made
  BY <1>1, <1>2, <1>3, TargetIs, Places DEF DriveInv, MadeInv
<1>5. CASE b \in CopiesOn("DRIVE")
  <2>1. /\ step' = "failed" /\ UNCHANGED <<records, job, current, limit, localFiles>>
        /\ remoteFiles' = remoteFiles \ {b}
    BY <1>1, <1>2, <1>5 DEF RegisterRemote, Unpublish
  <2>2. CopiesOn("DRIVE") \subseteq remoteFiles' \cup torn' \cup blind'
    BY <1>1, <1>3, <1>5, <2>1
  <2> QED BY <1>1, <2>1, <2>2, GivenUp
<1>6. CASE b \notin CopiesOn("DRIVE")
  <2>1. PICK new, gone : new = Record("DRIVE", b) /\ gone = {}
    OBVIOUS
  <2>2. /\ records' = (records \cup {new}) \ gone /\ FinishTransfer("SUCCEEDED")
        /\ UNCHANGED <<localFiles, remoteFiles>>
    BY <1>1, <1>2, <1>6, <2>1 DEF RegisterRemote, files
  <2>3. RecordInv' /\ new.location = "DRIVE" /\ new.backup = b
    BY <1>1, <1>4, <1>6, <2>1, <2>2, RecordAdded
  <2>4. RowInv' /\ step' = "idle"
    BY <1>1, <1>3, <2>2, FinishedRow DEF Terminal
  <2>5. MadeInv'
    BY <1>1, <1>4, <2>1, <2>2, <2>3 DEF DriveInv, MadeInv
  <2>6. On("DRIVE")' = On("DRIVE") \cup {new} /\ new \notin On("DRIVE")
    BY <1>6, <2>1, <2>2, <2>3 DEF On, CopiesOn
  <2>7. limit' \in Nat
    BY <2>2 DEF FinishTransfer, Leave
  <2>8. CopiesOn("DRIVE")' \subseteq remoteFiles' \cup torn' \cup blind'
    <3>1. CopiesOn("DRIVE")' = CopiesOn("DRIVE") \cup {b}
      BY <2>3, <2>6 DEF CopiesOn
    <3> QED BY <1>1, <1>3, <2>2, <3>1
  <2> QED BY <2>3, <2>4, <2>5, <2>7, <2>8, Settled
<1> QED BY <1>5, <1>6

LEMMA UploadStep == DriveInv /\ Upload => DriveInv'
<1> SUFFICES ASSUME DriveInv, Upload PROVE DriveInv'
  OBVIOUS
<1>1. CASE ValidateLocal
  <2>1. /\ UNCHANGED <<made, records, localFiles, remoteFiles, job, lastId, current, torn, blind>>
        /\ limit' \in Nat
    BY <1>1 DEF ValidateLocal, queue, files, queue, history, Retentions
  <2>2. step = "validating" /\ step' = IF TargetOn("LOCAL") THEN "capacity" ELSE "failed"
    BY <1>1 DEF ValidateLocal
  <2>3. CASE TargetOn("LOCAL")
    BY <2>1, <2>2, <2>3, Onward
  <2>4. CASE ~TargetOn("LOCAL")
    BY <2>1, <2>2, <2>4, GivenUp, CopiesSettled
  <2> QED BY <2>3, <2>4
<1>2. CASE RetireForRetention
  BY <1>2, RetireStep DEF RetireForRetention, queue, history
<1>3. CASE CommitRetirement
  BY <1>3, CommitRetirementStep
<1>4. CASE RetentionMet
  BY <1>4, Onward DEF RetentionMet, files, queue, history
<1>5. CASE Fits
  BY <1>5, Onward DEF Fits, At, files, queue, history
<1>6. CASE RetireForQuota
  <2>1. /\ step = "quota"
        /\ UNCHANGED <<made, records, localFiles, job, lastId, current, torn, blind, limit>>
    BY <1>6 DEF RetireForQuota, queue, history
  <2>2. CASE Cancels
    BY <1>6, <2>1, <2>2, GivenUp, CopiesSettled DEF RetireForQuota
  <2>3. CASE ~Cancels
    BY <1>6, <2>1, <2>3, RetireStep DEF RetireForQuota
  <2> QED BY <2>2, <2>3
<1>7. CASE DoesNotFit
  BY <1>7, GivenUp, CopiesSettled DEF DoesNotFit, At, files, queue, history
<1>8. CASE StartUpload
  <2>1. /\ step = "uploading"
        /\ UNCHANGED <<made, records, localFiles, remoteFiles, job, lastId, current, torn,
                       blind, limit>>
    BY <1>8 DEF StartUpload, files, queue, history
  <2>2. CASE Target.backup \in remoteFiles
    BY <1>8, <2>1, <2>2, GivenUp, CopiesSettled DEF StartUpload
  <2>3. CASE Target.backup \notin remoteFiles
    BY <1>8, <2>1, <2>3, Onward DEF StartUpload
  <2> QED BY <2>2, <2>3
<1>9. CASE Publish
  BY <1>9, PublishStep
<1>10. CASE RegisterRemote
  BY <1>10, RegisterRemoteStep
<1> QED BY <1>1, <1>2, <1>3, <1>4, <1>5, <1>6, <1>7, <1>8, <1>9, <1>10 DEF Upload

(* A download registers its archive, and local retention may take records.    *)
LEMMA RegisterLocalStep == DriveInv /\ RegisterLocal => DriveInv'
<1> SUFFICES ASSUME DriveInv, RegisterLocal PROVE DriveInv'
  OBVIOUS
<1>1. /\ step = "registering" /\ Kind = "DOWNLOAD" /\ RecordInv /\ RowInv
      /\ UNCHANGED <<made, lastId, torn, blind>>
  BY DEF RegisterLocal, queue, history, DriveInv
<1>2. PICK b : b = Target.backup
  OBVIOUS
<1>3. /\ TargetOn("DRIVE") /\ current \in 1..lastId
      /\ CopiesOn("DRIVE") \subseteq remoteFiles \cup torn \cup blind
  BY <1>1, CopiesSettled DEF DriveInv, TargetInv, Imports, KindInv
<1>4. Target \in records /\ b \in 1..MaxBackups /\ b <= made
  BY <1>1, <1>2, <1>3, TargetIs, Places DEF DriveInv, MadeInv
<1>5. CASE b \in CopiesOn("LOCAL")
  <2>1. /\ step' = "failed" /\ UNCHANGED <<records, job, current, limit, remoteFiles>>
        /\ localFiles' \subseteq localFiles
    BY <1>1, <1>2, <1>5 DEF RegisterLocal, Unpublish
  <2> QED BY <1>1, <1>3, <2>1, GivenUp
<1>6. CASE b \notin CopiesOn("LOCAL")
  <2>0. PICK p \in BOOLEAN : p = TRUE
    OBVIOUS
  <2>1. PICK n, new, gone :
          /\ new = Record("LOCAL", b) /\ gone = DroppedBy(new, p, n)
          /\ records' = (records \cup {new}) \ gone /\ FinishTransfer("SUCCEEDED")
          /\ localFiles' \subseteq localFiles /\ remoteFiles' = remoteFiles
    BY <1>1, <1>2, <1>6, <2>0 DEF RegisterLocal
  <2>2. /\ records' = (records \cup {new}) \ gone /\ FinishTransfer("SUCCEEDED")
        /\ localFiles' \subseteq localFiles /\ remoteFiles' = remoteFiles
    BY <2>1
  <2>3. /\ RecordInv' /\ On("DRIVE")' = On("DRIVE")
        /\ \A r \in records' : r \in records \/ r.backup = b
    BY <1>1, <1>4, <2>1, <2>2, LocalRegistered
  <2>4. RowInv' /\ step' = "idle"
    BY <1>1, <1>3, <2>2, FinishedRow DEF Terminal
  <2>5. MadeInv'
    BY <1>1, <1>4, <2>2, <2>3 DEF DriveInv, MadeInv
  <2>6. limit' \in Nat
    BY <2>2 DEF FinishTransfer, Leave
  <2>7. CopiesOn("DRIVE")' \subseteq remoteFiles' \cup torn' \cup blind'
    BY <1>1, <1>3, <2>2, <2>3 DEF CopiesOn
  <2> QED BY <2>3, <2>4, <2>5, <2>6, <2>7, Settled
<1> QED BY <1>5, <1>6

LEMMA DownloadStep == DriveInv /\ Download => DriveInv'
<1> SUFFICES ASSUME DriveInv, Download PROVE DriveInv'
  OBVIOUS
<1>1. CASE StartDownload
  <2>1. /\ step = "downloading"
        /\ UNCHANGED <<made, records, localFiles, remoteFiles, job, lastId, current, torn,
                       blind, limit>>
    BY <1>1 DEF StartDownload, files, queue, history
  <2>2. CASE step' = "failed"
    BY <2>1, <2>2, GivenUp, CopiesSettled
  <2>3. CASE step' = "fetching" /\ TargetOn("DRIVE")
    BY <2>1, <2>3, Onward
  <2> QED BY <1>1, <2>2, <2>3 DEF StartDownload
<1>2. CASE Import
  <2>1. /\ step = "fetching" /\ step' = "imported"
        /\ localFiles' = localFiles \cup {Target.backup}
        /\ UNCHANGED <<made, records, remoteFiles, job, lastId, current, torn, blind, limit>>
    BY <1>2 DEF Import, At, queue, history
  <2>2. Target \in records /\ Target.backup \in 1..MaxBackups /\ Target.backup <= made
    BY <2>1, TargetIs, Places DEF DriveInv, TargetInv, Imports, Importing, MadeInv
  <2>3. MadeInv' /\ RowInv' /\ lastId <= lastId'
    <3>0. made \in 0..MaxBackups /\ localFiles \subseteq 1..made
      BY DEF DriveInv, MadeInv
    <3>1. Target.backup \in 1..made
      BY <2>2, <3>0
    <3>2. RowInv' /\ lastId <= lastId'
      BY <2>1, DriveAssumption DEF DriveInv, RowInv
    <3>3. MadeInv'
      BY <2>1, <3>0, <3>1 DEF DriveInv, MadeInv
    <3> QED BY <3>2, <3>3
  <2> QED BY <2>1, <2>3, Advanced
<1>3. CASE RegisterLocal
  BY <1>3, RegisterLocalStep
<1> QED BY <1>1, <1>2, <1>3 DEF Download

(* The job's outcome is written, its copies and records as they were.         *)
LEMMA Outcome ==
  ASSUME DriveInv, NEW outcome \in Terminal, FinishTransfer(outcome),
         step \notin {"idle", "down", "cleaning", "retiring", "erasing"},
         UNCHANGED <<made, records, localFiles, remoteFiles, lastId, torn, blind>>
  PROVE  DriveInv'
<1>1. RowInv' /\ step' = "idle"
  BY FinishedRow DEF DriveInv, KindInv
<1>2. On("DRIVE")' = On("DRIVE") /\ CopiesOn("DRIVE")' = CopiesOn("DRIVE")
  BY SameTarget
<1>3. RecordInv' /\ MadeInv'
  BY <1>2 DEF DriveInv, RecordInv, MadeInv
<1>4. CopiesOn("DRIVE")' \subseteq remoteFiles' \cup torn' \cup blind'
  BY <1>2, CopiesSettled
<1>5. limit' \in Nat
  BY DEF FinishTransfer, Leave
<1> QED BY <1>1, <1>3, <1>4, <1>5, Settled

LEMMA EraseRecordStep == DriveInv /\ EraseRecord => DriveInv'
<1> SUFFICES ASSUME DriveInv, EraseRecord PROVE DriveInv'
  OBVIOUS
<1>1. /\ step = "erasing" /\ step' = "erased" /\ records' = records \ {Target}
      /\ UNCHANGED <<made, localFiles, remoteFiles, job, lastId, current, torn, blind, limit>>
  BY DEF EraseRecord, At, files
<1>2. Target \in On("DRIVE") /\ RecordInv
  BY <1>1, TargetIs DEF DriveInv, TargetInv
<1>3. On("DRIVE")' = On("DRIVE") \ {Target}
  BY <1>1 DEF On
<1>4. RecordInv'
  BY <1>1, <1>2, RecordsRemoved
<1>5. RowInv' /\ MadeInv' /\ KindInv'
  BY <1>1 DEF DriveInv, RowInv, MadeInv, KindInv, Kind, Uploading, Importing, Deleting
<1>6. TargetInv' /\ PublishInv'
  BY <1>1 DEF TargetInv, PublishInv, Uploads, Imports, Uploading, Published, Importing
<1>7. CopyInv'
  <2>1. CopiesOn("DRIVE")' \subseteq CopiesOn("DRIVE") \ {Target.backup}
    BY <1>2, <1>3 DEF CopiesOn, RecordInv
  <2>2. CopiesOn("DRIVE") \subseteq remoteFiles \cup torn \cup blind \cup {Target.backup}
    BY <1>1 DEF DriveInv, CopyInv, InHand
  <2> QED BY <1>1, <2>1, <2>2 DEF CopyInv
<1>8. RoomInv'
  BY <1>1 DEF DriveInv, RoomInv, Uploads, Uploading, Published
<1> QED BY <1>4, <1>5, <1>6, <1>7, <1>8 DEF DriveInv

LEMMA DeleteStep == DriveInv /\ Delete => DriveInv'
<1> SUFFICES ASSUME DriveInv, Delete PROVE DriveInv'
  OBVIOUS
<1>1. CASE EraseCopy
  <2>1. /\ step = "deleting"
        /\ UNCHANGED <<made, records, localFiles, job, lastId, current, torn, blind, limit>>
    BY <1>1 DEF EraseCopy, queue, history
  <2>2. CASE TargetOn("DRIVE") /\ Target.backup \in remoteFiles
    BY <1>1, <2>1, <2>2, Taken DEF EraseCopy
  <2>3. CASE ~(TargetOn("DRIVE") /\ Target.backup \in remoteFiles)
    BY <1>1, <2>1, <2>3, GivenUp, CopiesSettled DEF EraseCopy
  <2> QED BY <2>2, <2>3
<1>2. CASE EraseRecord
  BY <1>2, EraseRecordStep
<1>3. CASE FinishDelete
  BY <1>3, Outcome DEF FinishDelete, files, queue, history, Terminal
<1> QED BY <1>1, <1>2, <1>3 DEF Delete

LEMMA WorkerStep == DriveInv /\ Worker => DriveInv'
<1> SUFFICES ASSUME DriveInv, Worker PROVE DriveInv'
  OBVIOUS
<1>1. CASE CheckpointCancels
  BY <1>1, GivenUp, CopiesSettled DEF CheckpointCancels, files, queue, history
<1>2. CASE CancelTransfer
  BY <1>2, GivenUp, CopiesSettled DEF CancelTransfer, files, queue, history
<1>3. CASE ReadLastCheckpoint
  BY <1>3, Onward DEF ReadLastCheckpoint, files, queue, history
<1>4. CASE WriteLastCheckpoint
  <2>1. /\ step = "closing" /\ step' = "registering"
        /\ UNCHANGED <<made, records, localFiles, remoteFiles, lastId, current, torn, blind, limit>>
    BY <1>4 DEF WriteLastCheckpoint, At, files, queue, history
  <2>2. /\ RowInv /\ lastId \in Nat /\ current \in 1..lastId /\ 1..lastId \subseteq JobIds
    BY <2>1, DriveAssumption DEF DriveInv, KindInv, RowInv, JobIds
  <2>3. job[current] \in RowType /\ job[current] # NoRow
    BY <2>2 DEF RowInv, RowType, NoRow, Kinds
  <2>4. /\ job[current].status \in {"PENDING", "RUNNING"} \cup Terminal
        /\ job[current].cancel \in BOOLEAN
        /\ [job[current] EXCEPT !.cancellable = FALSE] =
             [job[current] EXCEPT !.status = job[current].status, !.cancellable = FALSE,
                                  !.cancel = job[current].cancel]
    BY <2>3 DEF RowType
  <2>5. job' = [job EXCEPT ![current] = [job[current] EXCEPT !.cancellable = FALSE]]
    BY <1>4 DEF WriteLastCheckpoint
  <2>6. /\ RowInv'
        /\ \A i \in JobIds : job'[i].kind = job[i].kind /\ job'[i].record = job[i].record
    BY <2>1, <2>2, <2>3, <2>4, <2>5, RowChanged
  <2>7. MadeInv'
    BY <2>1 DEF DriveInv, MadeInv
  <2> QED BY <2>1, <2>2, <2>6, <2>7, Advanced
<1>5. CASE FinishCancelled
  BY <1>5, Outcome DEF FinishCancelled, files, queue, history, Terminal
<1>6. CASE FinishFailed
  BY <1>6, Outcome DEF FinishFailed, files, queue, history, Terminal
<1>7. CASE Recover \/ CleanUp
  <2>1. /\ step \in {"down", "cleaning"} /\ step' \in {"cleaning", "idle"}
        /\ UNCHANGED <<made, records, localFiles, remoteFiles, lastId, torn, blind, limit>>
    BY <1>7 DEF Recover, CleanUp, At, files, queue, history
  <2>2. On("DRIVE")' = On("DRIVE") /\ CopiesOn("DRIVE")' = CopiesOn("DRIVE")
    BY <2>1, SameTarget
  <2>3. RecordInv' /\ MadeInv'
    BY <2>1, <2>2 DEF DriveInv, RecordInv, MadeInv
  <2>4. RowInv'
    <3>1. CASE Recover
      <4>1. \A j \in JobIds :
              job[j] \in RowType =>
                [job[j] EXCEPT !.status = "INTERRUPTED", !.cancellable = FALSE] \in RowType
        BY DEF RowType, Terminal
      <4>2. \A j \in JobIds : job[j] = NoRow => job[j].status # "RUNNING"
        BY DEF NoRow
      <4> QED BY <2>1, <3>1, <4>1, <4>2 DEF Recover, DriveInv, RowInv
    <3>2. CASE CleanUp
      BY <2>1, <3>2 DEF CleanUp, queue, DriveInv, RowInv
    <3> QED BY <1>7, <3>1, <3>2
  <2>5. CopiesOn("DRIVE")' \subseteq remoteFiles' \cup torn' \cup blind'
    BY <2>1, <2>2, CopiesSettled
  <2>6. limit' \in Nat
    BY <2>1 DEF DriveInv, RoomInv
  <2> QED BY <2>1, <2>3, <2>4, <2>5, <2>6, Settled
<1> QED BY <1>1, <1>2, <1>3, <1>4, <1>5, <1>6, <1>7,
           ClaimTransferStep, UploadStep, DownloadStep, DeleteStep DEF Worker

LEMMA RaiseStep == DriveInv /\ Raise => DriveInv'
<1> SUFFICES ASSUME DriveInv, Raise PROVE DriveInv'
  OBVIOUS
<1>1. /\ step \notin {"idle", "failed", "cancelled", "down", "cleaning"} /\ step' = "failed"
      /\ UNCHANGED <<made, records, job, lastId, current, limit, blind>> /\ Tear
  BY DEF Raise, queue
<1>2. \/ UNCHANGED <<localFiles, remoteFiles>>
      \/ step = "registering" /\ remoteFiles' = remoteFiles /\ localFiles' \subseteq localFiles
      \/ /\ step = "registering" /\ Kind = "UPLOAD" /\ localFiles' = localFiles
         /\ remoteFiles' = remoteFiles \ {Target.backup}
  BY DEF Raise, files, Unpublish
<1>3. CopiesOn("DRIVE") \subseteq remoteFiles \cup torn' \cup blind' /\ torn \subseteq torn'
  BY <1>1, TornInHand DEF Tear
<1>4. CopiesOn("DRIVE") \subseteq remoteFiles' \cup torn' \cup blind'
  <2>1. CASE remoteFiles' = remoteFiles
    BY <1>3, <2>1
  <2>2. CASE /\ step = "registering" /\ Kind = "UPLOAD"
             /\ remoteFiles' = remoteFiles \ {Target.backup}
    <3>1. Target.backup \in CopiesOn("DRIVE") => Target.backup \in torn \cup blind
      BY <2>2 DEF DriveInv, PublishInv, Uploads, Published
    <3> QED BY <1>1, <1>3, <2>2, <3>1
  <2> QED BY <1>2, <2>1, <2>2
<1> QED BY <1>1, <1>2, <1>4, GivenUp

LEMMA CrashStep == DriveInv /\ Crash => DriveInv'
<1> SUFFICES ASSUME DriveInv, Crash PROVE DriveInv'
  OBVIOUS
<1>1. /\ step' = "down" /\ Tear
      /\ UNCHANGED <<made, records, localFiles, remoteFiles, job, lastId, blind>>
      /\ limit' \in Nat
  BY DEF Crash, files, queue
<1>2. On("DRIVE")' = On("DRIVE") /\ CopiesOn("DRIVE")' = CopiesOn("DRIVE")
  BY <1>1, SameTarget
<1>3. RecordInv' /\ RowInv' /\ MadeInv'
  BY <1>1, <1>2 DEF DriveInv, RecordInv, RowInv, MadeInv
<1>4. CopiesOn("DRIVE")' \subseteq remoteFiles' \cup torn' \cup blind'
  BY <1>1, <1>2, TornInHand
<1> QED BY <1>1, <1>3, <1>4, Settled

(* Another upload is told that its taken name is free.                        *)
LEMMA StartUploadBlindStep == DriveInv /\ StartUploadBlind => DriveInv'
<1> SUFFICES ASSUME DriveInv, StartUploadBlind PROVE DriveInv'
  OBVIOUS
<1>1. /\ UNCHANGED <<made, records, localFiles, remoteFiles, job, lastId, current, torn, limit>>
      /\ step = "uploading" /\ step' = "copying" /\ blind' = blind \cup {Target.backup}
  BY DEF StartUploadBlind, files, queue
<1> QED BY <1>1, Onward

(* The last write of the job fails, and the worker leaves it.                 *)
LEMMA StrandStep == DriveInv /\ Strand => DriveInv'
<1> SUFFICES ASSUME DriveInv, Strand PROVE DriveInv'
  OBVIOUS
<1>1. /\ step \in {"failed", "cancelled", "validating", "downloading", "deleting"}
      /\ step' = "idle" /\ limit' \in Nat
      /\ UNCHANGED <<made, records, localFiles, remoteFiles, job, lastId, torn, blind>>
  BY DEF Strand, Leave, files, queue
<1>2. On("DRIVE")' = On("DRIVE") /\ CopiesOn("DRIVE")' = CopiesOn("DRIVE")
  BY <1>1, SameTarget
<1>3. RecordInv' /\ RowInv' /\ MadeInv'
  BY <1>1, <1>2 DEF DriveInv, RecordInv, RowInv, MadeInv
<1>4. CopiesOn("DRIVE")' \subseteq remoteFiles' \cup torn' \cup blind'
  BY <1>1, <1>2, CopiesSettled
<1> QED BY <1>1, <1>3, <1>4, Settled

LEMMA DriveSteps == DriveInv /\ RequestInv /\ [DriveNext]_driveVars => DriveInv'
<1> SUFFICES ASSUME DriveInv, RequestInv, [DriveNext]_driveVars PROVE DriveInv'
  OBVIOUS
<1>1. CASE UNCHANGED driveVars
  <2>1. UNCHANGED <<made, records, localFiles, remoteFiles, job, lastId, step, current, torn,
                    blind, limit>>
    BY <1>1 DEF driveVars
  <2>2. MadeInv' /\ RowInv' /\ lastId <= lastId'
    BY <2>1, DriveAssumption DEF DriveInv, MadeInv, RowInv
  <2> QED BY <2>1, <2>2, Advanced
<1> QED
  BY <1>1, WebStep, MakeBackupStep, WorkerStep, StartUploadBlindStep, StrandStep, RaiseStep,
     CrashStep
  DEF DriveNext

(* What the web threads have read is a record of its time.                    *)
LEMMA RequestSteps == DriveInv /\ RequestInv /\ [DriveNext]_driveVars => RequestInv'
<1> SUFFICES ASSUME DriveInv, RequestInv, [DriveNext]_driveVars PROVE RequestInv'
  OBVIOUS
<1>1. ASSUME NEW kind \in Kinds, NEW r \in records, Read(kind, r) PROVE RequestInv'
  <2>1. r.id \in Nat /\ r.backup \in Nat
    BY Places DEF DriveInv
  <2>2. requests' = requests \cup
          {[kind |-> kind, record |-> r.id, backup |-> r.backup, bereft |-> FALSE]}
    BY <1>1 DEF Read
  <2>3. [kind |-> kind, record |-> r.id, backup |-> r.backup, bereft |-> FALSE] \in
          [kind : Kinds, record : Nat, backup : Nat, bereft : BOOLEAN]
    BY <2>1
  <2> QED BY <2>2, <2>3 DEF RequestInv
<1>2. CASE RequestUpload \/ RequestDownload \/ RequestDelete
  BY <1>1, <1>2 DEF RequestUpload, RequestDownload, RequestDelete, On, Kinds
<1>3. ASSUME NEW gone, Bereave(gone) PROVE RequestInv'
  <2> SUFFICES ASSUME NEW q \in requests
               PROVE  [q EXCEPT !.bereft = @ \/ q.record \in {r.id : r \in gone}] \in
                        [kind : Kinds, record : Nat, backup : Nat, bereft : BOOLEAN]
    BY <1>3 DEF Bereave, RequestInv
  <2>1. q \in [kind : Kinds, record : Nat, backup : Nat, bereft : BOOLEAN]
    BY DEF RequestInv
  <2>2. PICK y \in BOOLEAN : y = (q.bereft \/ q.record \in {r.id : r \in gone})
    OBVIOUS
  <2>3. [q EXCEPT !.bereft = y] \in [kind : Kinds, record : Nat, backup : Nat, bereft : BOOLEAN]
    BY <2>1
  <2> QED BY <2>2, <2>3
<1>4. CASE MakeBackup
  BY <1>3, <1>4 DEF MakeBackup
<1>5. CASE RegisterLocal
  BY <1>3, <1>5 DEF RegisterLocal, RequestInv
<1>6. CASE CommitRetirement \/ EraseRecord
  BY <1>3, <1>6 DEF CommitRetirement, EraseRecord
<1>7. CASE requests' \subseteq requests
  BY <1>7 DEF RequestInv
<1>8. CASE Web
  BY <1>2, <1>7, <1>8 DEF Web, Enqueue, Conflict, RequestCancel
<1>9. CASE Upload \/ Download \/ Delete
  BY <1>5, <1>6, <1>7, <1>9
  DEF Upload, Download, Delete, ValidateLocal, RetireForRetention, RetentionMet, Fits,
      RetireForQuota, DoesNotFit, StartUpload, Publish, RegisterRemote, StartDownload, Import,
      EraseCopy, FinishDelete, queue
<1>10. CASE \/ ClaimTransfer \/ CheckpointCancels \/ CancelTransfer \/ ReadLastCheckpoint
            \/ WriteLastCheckpoint \/ FinishCancelled \/ FinishFailed \/ Recover \/ CleanUp
  BY <1>7, <1>10
  DEF ClaimTransfer, CheckpointCancels, CancelTransfer, ReadLastCheckpoint,
      WriteLastCheckpoint, FinishCancelled, FinishFailed, Recover, CleanUp, queue
<1>11. CASE StartUploadBlind \/ Strand \/ Raise \/ Crash \/ UNCHANGED driveVars
  BY <1>7, <1>11 DEF StartUploadBlind, Strand, Raise, Crash, queue, driveVars
<1> QED BY <1>4, <1>8, <1>9, <1>10, <1>11 DEF DriveNext, Worker

LEMMA DriveInvariant == DriveSpec => [](DriveInv /\ RequestInv)
<1>1. DriveInit => RequestInv
  BY DEF DriveInit, RequestInv
<1>2. DriveInv /\ RequestInv /\ [DriveNext]_driveVars => (DriveInv /\ RequestInv)'
  BY DriveSteps, RequestSteps
<1> QED BY DriveStarts, <1>1, <1>2, PTL DEF DriveSpec

-----------------------------------------------------------------------------
(* A copy is added only within the retention its upload read: the room that   *)
(* _prepare_capacity (drive_jobs.py:399) makes is still there when the copy    *)
(* is registered, since nothing else registers remote records and until then  *)
(* there are only removals, whatever settings were saved and whatever failed  *)
(* in between.                                                               *)
THEOREM RemoteRetentionHolds == DriveSpec => RemoteRetention
<1>1. ASSUME DriveInv, RegisterRemote, CopiesOn("DRIVE")' \ CopiesOn("DRIVE") # {}
      PROVE  Cardinality(On("DRIVE"))' <= limit
  <2>1. /\ step = "registering" /\ Uploads /\ RecordInv
        /\ Cardinality(On("DRIVE")) < limit /\ limit \in Nat
    BY <1>1 DEF RegisterRemote, Uploads, Published, DriveInv, RoomInv
  <2>2. records' # records
    BY <1>1, SameTarget
  <2>3. PICK new : records' = records \cup {new}
    BY <1>1, <2>2 DEF RegisterRemote
  <2>4. On("DRIVE")' \in {On("DRIVE"), On("DRIVE") \cup {new}}
    BY <2>3 DEF On
  <2>5. /\ Cardinality(On("DRIVE")) \in Nat
        /\ Cardinality(On("DRIVE"))' \in {Cardinality(On("DRIVE")), Cardinality(On("DRIVE")) + 1}
    BY <2>1, <2>4, Places, FS_AddElement
  <2> QED BY <2>1, <2>5
<1>2. ASSUME DriveInv, [DriveNext]_driveVars, ~RegisterRemote
      PROVE  CopiesOn("DRIVE")' \subseteq CopiesOn("DRIVE")
  <2>1. CASE On("DRIVE")' \subseteq On("DRIVE")
    BY <2>1 DEF CopiesOn
  <2>2. CASE records' \subseteq records
    BY <2>1, <2>2 DEF On
  <2>3. ASSUME NEW b, NEW protected \in BOOLEAN, NEW n, NEW new, new = Record("LOCAL", b),
               NEW gone, gone = DroppedBy(new, protected, n),
               records' = (records \cup {new}) \ gone
        PROVE  CopiesOn("DRIVE")' \subseteq CopiesOn("DRIVE")
    BY <2>1, <2>3 DEF On, Record
  <2>4. CASE MakeBackup
    <3>1. PICK n, new, gone : /\ new = Record("LOCAL", made + 1) /\ gone = DroppedBy(new, FALSE, n)
                              /\ records' = (records \cup {new}) \ gone
      BY <2>4 DEF MakeBackup
    <3> QED BY <2>3, <3>1
  <2>5. CASE RegisterLocal
    <3>1. CASE records' = records
      BY <2>2, <3>1
    <3>2. CASE records' # records
      <4>1. PICK n, new, gone :
              /\ new = Record("LOCAL", Target.backup) /\ gone = DroppedBy(new, TRUE, n)
              /\ records' = (records \cup {new}) \ gone
        BY <2>5, <3>2 DEF RegisterLocal
      <4> QED BY <2>3, <4>1
    <3> QED BY <3>1, <3>2
  <2>6. CASE Web
    BY <2>2, <2>6
    DEF Web, RequestUpload, RequestDownload, RequestDelete, Read, Enqueue, Conflict, RequestCancel
  <2>7. CASE Upload
    BY <1>2, <2>2, <2>7
    DEF Upload, ValidateLocal, RetireForRetention, CommitRetirement, RetentionMet, Fits,
        RetireForQuota, DoesNotFit, StartUpload, Publish
  <2>8. CASE StartDownload \/ Import \/ Delete
    BY <2>2, <2>8 DEF StartDownload, Import, Delete, EraseCopy, EraseRecord, FinishDelete
  <2>9. CASE \/ ClaimTransfer \/ CheckpointCancels \/ CancelTransfer \/ ReadLastCheckpoint
             \/ WriteLastCheckpoint \/ FinishCancelled \/ FinishFailed \/ Recover \/ CleanUp
    BY <2>2, <2>9
    DEF ClaimTransfer, CheckpointCancels, CancelTransfer, ReadLastCheckpoint,
        WriteLastCheckpoint, FinishCancelled, FinishFailed, Recover, CleanUp
  <2>10. CASE StartUploadBlind \/ Strand \/ Raise \/ Crash \/ UNCHANGED driveVars
    BY <2>2, <2>10 DEF StartUploadBlind, Strand, Raise, Crash, driveVars
  <2> QED BY <1>2, <2>4, <2>5, <2>6, <2>7, <2>8, <2>9, <2>10 DEF DriveNext, Worker, Download
<1>3. DriveInv /\ [DriveNext]_driveVars =>
        (CopiesOn("DRIVE")' \ CopiesOn("DRIVE") # {} => Cardinality(On("DRIVE")') <= limit)
  BY <1>1, <1>2
<1> QED BY <1>3, DriveInvariant, PTL DEF DriveSpec, RemoteRetention

(* Between jobs every DRIVE record has its copy, except those whose deletion  *)
(* died between the file and the record, and those whose name a failed call   *)
(* reported as free: the record is written after the copy was published, and  *)
(* a failed registration takes away only a copy that had no record, one whose *)
(* record had lost its copy before, or one it published over another that it  *)
(* could not see (drive_jobs.py:289-340, :419-442; google_drive.py:349).     *)
THEOREM RecordsHaveTheirCopies == DriveSpec => []RecordsHaveCopies
<1>1. DriveInv => RecordsHaveCopies
  BY DEF DriveInv, CopyInv, InHand, RecordsHaveCopies
<1> QED BY <1>1, DriveInvariant, PTL

(* What goes from backups/ by retention has a record there, or is the archive  *)
(* this very download brought.                                               *)
LEMMA RetentionTakesRecorded ==
  ASSUME DriveInv, MakeBackup \/ RegisterLocal, NEW b \in localFiles \ localFiles'
  PROVE  b \in CopiesOn("LOCAL") \/ (step = "registering" /\ b = Target.backup)
<1>1. CASE MakeBackup
  <2>0. PICK p \in BOOLEAN : p = FALSE
    OBVIOUS
  <2>1. PICK n, new, gone :
          /\ new = Record("LOCAL", made + 1) /\ gone = DroppedBy(new, p, n)
          /\ records' = (records \cup {new}) \ gone
          /\ localFiles' = (localFiles \cup {made + 1}) \ {r.backup : r \in gone}
    BY <1>1, <2>0 DEF MakeBackup
  <2>2. /\ records' = (records \cup {new}) \ gone /\ made < MaxBackups
        /\ localFiles' = (localFiles \cup {made + 1}) \ {r.backup : r \in gone}
    BY <1>1, <2>1 DEF MakeBackup
  <2>3. made + 1 \in 1..MaxBackups /\ RecordInv
    BY <2>2, DriveAssumption DEF DriveInv, MadeInv
  <2>4. gone \subseteq On("LOCAL") \cup {new} /\ new.backup = made + 1
    BY <2>1, <2>2, <2>3, LocalRegistered
  <2>5. PICK r \in gone : b = r.backup
    BY <2>2
  <2>6. b # made + 1
    BY DEF DriveInv, MadeInv
  <2> QED BY <2>4, <2>5, <2>6 DEF CopiesOn
<1>2. CASE RegisterLocal
  <2>1. step = "registering" /\ Kind = "DOWNLOAD"
    BY <1>2 DEF RegisterLocal
  <2>2. CASE Target.backup \in CopiesOn("LOCAL")
    BY <1>2, <2>1, <2>2 DEF RegisterLocal, Unpublish
  <2>3. CASE Target.backup \notin CopiesOn("LOCAL")
    <3>0. PICK p \in BOOLEAN : p = TRUE
      OBVIOUS
    <3>1. PICK t : t = Target.backup
      OBVIOUS
    <3>2. PICK n, new, gone : /\ new = Record("LOCAL", t) /\ gone = DroppedBy(new, p, n)
                              /\ localFiles' = localFiles \ {r.backup : r \in gone}
      BY <1>2, <2>3, <3>0, <3>1 DEF RegisterLocal
    <3>3. localFiles' = localFiles \ {r.backup : r \in gone}
      BY <3>2
    <3>4. gone \subseteq On("LOCAL") \cup {new} /\ new.backup = t
      BY <3>2 DEF DroppedBy, Record
    <3>5. PICK r \in gone : b = r.backup
      BY <3>3
    <3> QED BY <2>1, <3>1, <3>4, <3>5 DEF CopiesOn
  <2> QED BY <2>2, <2>3
<1> QED BY <1>1, <1>2

(* A copy without record is never removed: retention, quota and deletion go   *)
(* from records to files, and only a failed registration takes away what its  *)
(* own attempt published (docs/integrations/google-drive-rclone.md:175).      *)
THEOREM UnrecordedAreKept == DriveSpec => UnrecordedCopiesAreKept
<1> DEFINE RemoteKept == \A b \in remoteFiles \ remoteFiles' :
                           b \in CopiesOn("DRIVE") \/ (step = "registering" /\ b = Target.backup)
           LocalKept  == \A b \in localFiles \ localFiles' :
                           b \in CopiesOn("LOCAL") \/ (step = "registering" /\ b = Target.backup)
<1>1. DriveInv /\ DriveNext => RemoteKept /\ LocalKept
  <2> SUFFICES ASSUME DriveInv, DriveNext PROVE RemoteKept /\ LocalKept
    OBVIOUS
  <2>1. ASSUME Retire PROVE RemoteKept
    <3>1. Oldest \in On("DRIVE")
      BY <2>1, OldestIs DEF Retire, DriveInv
    <3>2. remoteFiles' = remoteFiles \ {Oldest.backup} \/ remoteFiles' = remoteFiles
      BY <2>1 DEF Retire
    <3> QED BY <3>1, <3>2 DEF CopiesOn
  <2>2. ASSUME EraseCopy PROVE RemoteKept /\ LocalKept
    <3>1. localFiles' = localFiles
      BY <2>2 DEF EraseCopy
    <3>2. CASE TargetOn("DRIVE") /\ Target.backup \in remoteFiles
      <4>1. Target \in On("DRIVE") /\ remoteFiles' = remoteFiles \ {Target.backup}
        BY <2>2, <3>2, TargetIs DEF EraseCopy, DriveInv
      <4> QED BY <3>1, <4>1 DEF CopiesOn
    <3>3. CASE ~(TargetOn("DRIVE") /\ Target.backup \in remoteFiles)
      BY <2>2, <3>1, <3>3 DEF EraseCopy
    <3> QED BY <3>2, <3>3
  <2>3. CASE Web
    BY <2>3 DEF Web, RequestUpload, RequestDownload, RequestDelete, Read, Enqueue, Conflict,
       RequestCancel, files
  <2>4. CASE MakeBackup
    BY <2>4, RetentionTakesRecorded DEF MakeBackup
  <2>5. CASE Upload
    <3>1. CASE RetireForRetention
      BY <2>1, <3>1 DEF RetireForRetention
    <3>2. CASE RetireForQuota
      BY <2>1, <3>2 DEF RetireForQuota
    <3>3. CASE RegisterRemote
      BY <3>3 DEF RegisterRemote, Unpublish, files
    <3>4. CASE Publish
      BY <3>4 DEF Publish
    <3>5. CASE \/ ValidateLocal \/ CommitRetirement \/ RetentionMet \/ Fits \/ DoesNotFit
               \/ StartUpload
      BY <3>5 DEF ValidateLocal, CommitRetirement, RetentionMet, Fits, DoesNotFit, StartUpload,
         files
    <3> QED BY <2>5, <3>1, <3>2, <3>3, <3>4, <3>5 DEF Upload
  <2>6. CASE Download
    <3>1. CASE RegisterLocal
      <4>1. remoteFiles' = remoteFiles
        BY <3>1 DEF RegisterLocal, Unpublish
      <4> QED BY <3>1, <4>1, RetentionTakesRecorded
    <3>2. CASE StartDownload \/ Import
      BY <3>2 DEF StartDownload, Import, files
    <3> QED BY <2>6, <3>1, <3>2 DEF Download
  <2>7. CASE Delete
    BY <2>2, <2>7 DEF Delete, EraseRecord, FinishDelete, files
  <2>8. CASE \/ ClaimTransfer \/ CheckpointCancels \/ CancelTransfer \/ ReadLastCheckpoint
             \/ WriteLastCheckpoint \/ FinishCancelled \/ FinishFailed \/ Recover \/ CleanUp
    BY <2>8 DEF ClaimTransfer, CheckpointCancels, CancelTransfer, ReadLastCheckpoint,
       WriteLastCheckpoint, FinishCancelled, FinishFailed, Recover, CleanUp, files
  <2>9. CASE Raise
    BY <2>9 DEF Raise, Unpublish, files
  <2>10. CASE StartUploadBlind \/ Strand \/ Crash
    BY <2>10 DEF StartUploadBlind, Strand, Crash, files
  <2> QED BY <2>3, <2>4, <2>5, <2>6, <2>7, <2>8, <2>9, <2>10 DEF DriveNext, Worker
<1>2. DriveInv /\ [DriveNext]_driveVars =>
        [/\ \A b \in remoteFiles \ remoteFiles' :
              b \in CopiesOn("DRIVE") \/ (step = "registering" /\ b = Target.backup)
         /\ \A b \in localFiles \ localFiles' :
              b \in CopiesOn("LOCAL") \/ (step = "registering" /\ b = Target.backup)]_driveVars
  BY <1>1
<1> QED BY <1>2, DriveInvariant, PTL DEF DriveSpec, UnrecordedCopiesAreKept

-----------------------------------------------------------------------------
(* Which copy a job works on. *)

(* An active job names a record of the backup it was requested for, and so    *)
(* does a request that was read, unless that record was removed since.        *)
Names(id, b) == \E r \in records : r.id = id /\ r.backup = b

NamedInv ==
  /\ \A j \in JobIds \ bereft : Active(j) => Names(job[j].record, job[j].backup)
  /\ \A q \in requests : q.bereft \/ Names(q.record, q.backup)

RunningInv ==
  step \notin {"idle", "down", "cleaning"} => job[current].status = "RUNNING"

(* An active row was active before with what it names, or is new and names a  *)
(* record there is.                                                          *)
RowsKept ==
  \A j \in JobIds \ bereft' : Active(j)' =>
    \/ /\ Active(j)
       /\ job'[j].record = job[j].record /\ job'[j].backup = job[j].backup
    \/ \E r \in records' : r.id = job'[j].record /\ r.backup = job'[j].backup

(* Records that go are written down with the jobs and requests that name them. *)
LEMMA NamesKept ==
  ASSUME NamedInv, RequestInv, RowsKept, NEW gone, records \ gone \subseteq records', Bereave(gone)
  PROVE  NamedInv'
<1>1. ASSUME NEW j \in JobIds, j \notin bereft', Active(j)'
      PROVE  \E r \in records' : r.id = job'[j].record /\ r.backup = job'[j].backup
  <2>1. CASE /\ Active(j)
             /\ job'[j].record = job[j].record /\ job'[j].backup = job[j].backup
    <3>1. PICK r \in records : r.id = job[j].record /\ r.backup = job[j].backup
      BY <1>1, <2>1 DEF NamedInv, Names, Bereave
    <3>2. r \notin gone
      BY <1>1, <2>1, <3>1 DEF Naming, Bereave
    <3> QED BY <2>1, <3>1, <3>2
  <2> QED BY <1>1, <2>1 DEF RowsKept
<1>2. ASSUME NEW q \in requests', ~q.bereft
      PROVE  \E r \in records' : r.id = q.record /\ r.backup = q.backup
  <2>1. PICK p \in requests : q = [p EXCEPT !.bereft = @ \/ p.record \in {r.id : r \in gone}]
    BY DEF Bereave
  <2>2. q.record = p.record /\ q.backup = p.backup /\ ~p.bereft /\ \A r \in gone : r.id # p.record
    BY <1>2, <2>1 DEF RequestInv
  <2>3. PICK r \in records : r.id = p.record /\ r.backup = p.backup
    BY <2>2 DEF NamedInv, Names
  <2> QED BY <2>2, <2>3
<1> QED BY <1>1, <1>2 DEF NamedInv, Names

(* None goes.                                                                *)
LEMMA NamesStay ==
  ASSUME NamedInv, RowsKept, records \subseteq records', bereft \subseteq bereft',
         requests' \subseteq requests
  PROVE  NamedInv'
<1>1. \A j \in JobIds \ bereft' : Active(j)' =>
        \E r \in records' : r.id = job'[j].record /\ r.backup = job'[j].backup
  BY DEF NamedInv, Names, RowsKept
<1> QED BY <1>1 DEF NamedInv, Names

(* Rows that stay, or change their status, flags or end only.                 *)
LEMMA SameRows ==
  ASSUME job' = job
  PROVE  RowsKept
BY DEF RowsKept, Active

LEMMA ChangedRow ==
  ASSUME NEW j, NEW row, job' = [job EXCEPT ![j] = row],
         row.status \in {"PENDING", "RUNNING"} => Active(j),
         row.record = job[j].record, row.backup = job[j].backup
  PROVE  RowsKept
BY DEF RowsKept, Active

(* Retention does not drop the backup just made.                              *)
LEMMA NewestStays ==
  ASSUME RecordInv, made \in Nat, \A r \in records : r.backup <= made,
         NEW new, new = Record("LOCAL", made + 1), NEW n \in Retentions
  PROVE  new \notin DroppedBy(new, FALSE, n)
<1> DEFINE S == On("LOCAL") \cup {new}
           Later == {q \in S : q.backup > new.backup}
<1>1. new.backup = made + 1
  BY DEF Record
<1>2. \A q \in On("LOCAL") : q.backup \in Nat /\ q.backup <= made
  BY Places DEF On
<1>3. Later = {}
  BY <1>1, <1>2
<1>4. Cardinality(Later) = 0
  BY <1>3, FS_EmptySet
<1>5. new \in Newest(S, n)
  BY <1>4 DEF Newest, Retentions
<1> QED BY <1>5 DEF DroppedBy

LEMMA EnqueuedRow ==
  ASSUME RowInv, NEW kind, NEW id, NEW b, Insert(kind, id, b),
         lastId' \in bereft' \/ \E r \in records' : r.id = id /\ r.backup = b
  PROVE  RowsKept /\ \A i \in 1..lastId : job'[i] = job[i]
<1> DEFINE row == [kind |-> kind, record |-> id, backup |-> b, status |-> "PENDING",
                   cancellable |-> kind # "DELETE", cancel |-> FALSE]
<1>1. /\ lastId < MaxJobs /\ job' = [job EXCEPT ![lastId + 1] = row] /\ lastId' = lastId + 1
      /\ row.record = id /\ row.backup = b
  BY DEF Insert
<1> HIDE DEF row
<1>2. lastId \in Nat /\ job \in [JobIds -> RowType \cup {NoRow}] /\ lastId + 1 \in JobIds
  BY <1>1, DriveAssumption DEF RowInv, JobIds
<1>3. \A i \in JobIds : i # lastId + 1 => job'[i] = job[i]
  BY <1>1, <1>2
<1>4. job'[lastId + 1] = row
  BY <1>1, <1>2
<1>5. RowsKept
  BY <1>1, <1>3, <1>4 DEF RowsKept, Active
<1>6. \A i \in 1..lastId : i \in JobIds /\ i # lastId + 1
  BY <1>1, <1>2, DriveAssumption DEF JobIds
<1> QED BY <1>3, <1>5, <1>6

(* A step of the worker within a job, or out of it.                           *)
LEMMA WithinJob ==
  ASSUME NamedInv, RunningInv, UNCHANGED <<records, job, bereft, requests>>,
         \/ step' \in {"idle", "down", "cleaning"}
         \/ current' = current /\ step \notin {"idle", "down", "cleaning"}
  PROVE  NamedInv' /\ RunningInv'
<1>1. NamedInv'
  BY SameRows, NamesStay
<1> QED BY <1>1 DEF RunningInv

LEMMA NamedStarts == DriveInit => NamedInv /\ RunningInv
BY DEF DriveInit, NamedInv, RunningInv, Active, NoRow

LEMMA NamedStep ==
  ASSUME DriveInv, RequestInv, NamedInv, RunningInv, [DriveNext]_driveVars
  PROVE  NamedInv' /\ RunningInv'
<1> DEFINE Goal == NamedInv' /\ RunningInv'
<1>1. /\ RecordInv /\ RowInv /\ lastId \in Nat
      /\ step \notin {"idle", "down", "cleaning"} => current \in 1..lastId
      /\ 1..lastId \subseteq JobIds
  BY DriveAssumption DEF DriveInv, RowInv, KindInv, JobIds
<1>3. CASE \E q \in requests : Enqueue(q)
  <2>1. PICK q \in requests : Enqueue(q)
    BY <1>3
  <2>2. /\ Insert(q.kind, q.record, q.backup)
        /\ bereft' = IF q.bereft THEN bereft \cup {lastId'} ELSE bereft
        /\ requests' \subseteq requests
        /\ UNCHANGED <<records, step, current>>
    BY <2>1 DEF Enqueue
  <2>3. lastId' \in bereft' \/ \E r \in records' : r.id = q.record /\ r.backup = q.backup
    BY <2>2 DEF NamedInv, Names
  <2>4. RowsKept /\ \A i \in 1..lastId : job'[i] = job[i]
    BY <1>1, <2>2, <2>3, EnqueuedRow
  <2>5. bereft \subseteq bereft'
    BY <2>2
  <2>6. NamedInv'
    BY <2>2, <2>4, <2>5, NamesStay
  <2> QED BY <1>1, <2>2, <2>4, <2>6 DEF RunningInv
<1>4. CASE Web
  <2>1. ASSUME NEW kind, NEW r \in records, Read(kind, r) PROVE Goal
    <3>1. /\ UNCHANGED <<records, job, bereft, step, current>>
          /\ requests' = requests \cup
               {[kind |-> kind, record |-> r.id, backup |-> r.backup, bereft |-> FALSE]}
      BY <2>1 DEF Read, history
    <3>2. NamedInv'
      BY <3>1 DEF NamedInv, Names, Active
    <3> QED BY <3>1, <3>2 DEF RunningInv
  <2>2. CASE RequestUpload \/ RequestDownload \/ RequestDelete
    BY <2>1, <2>2 DEF RequestUpload, RequestDownload, RequestDelete, On
  <2>3. CASE \E q \in requests : Conflict(q)
    <3>1. UNCHANGED <<records, job, bereft, step, current>> /\ requests' \subseteq requests
      BY <2>3 DEF Conflict, history
    <3>2. NamedInv'
      BY <3>1, SameRows, NamesStay
    <3> QED BY <3>1, <3>2 DEF RunningInv
  <2>4. ASSUME NEW j \in JobIds, RequestCancel(j) PROVE Goal
    <3>1. /\ job' = [job EXCEPT ![j] = [job[j] EXCEPT !.cancel = TRUE]] /\ Active(j)
          /\ UNCHANGED <<records, bereft, requests, step, current>>
      BY <2>4 DEF RequestCancel, history
    <3>2. job[j] \in RowType /\ job \in [JobIds -> RowType \cup {NoRow}]
      BY <1>1, <3>1 DEF Active, NoRow, RowInv
    <3>3. PICK row : row = [job[j] EXCEPT !.cancel = TRUE]
      OBVIOUS
    <3>4. row.record = job[j].record /\ row.backup = job[j].backup /\ row.status = job[j].status
      BY <3>2, <3>3 DEF RowType
    <3>5. RowsKept
      BY <3>1, <3>3, <3>4, ChangedRow
    <3>6. NamedInv'
      BY <3>1, <3>5, NamesStay
    <3>7. \A i \in JobIds : job'[i].status = job[i].status
      BY <3>1, <3>2, <3>3, <3>4
    <3> QED BY <1>1, <3>1, <3>6, <3>7 DEF RunningInv
  <2> QED BY <1>3, <1>4, <2>2, <2>3, <2>4 DEF Web
<1>5. CASE MakeBackup
  <2>1. PICK n, new, gone :
          /\ n \in Retentions
          /\ new = Record("LOCAL", made + 1) /\ gone = DroppedBy(new, FALSE, n)
          /\ records' = (records \cup {new}) \ gone /\ Bereave(gone)
          /\ Insert("UPLOAD", new.id, new.backup) \/ UNCHANGED <<job, lastId>>
    BY <1>5 DEF MakeBackup
  <2>2. step = "idle" /\ step' = "idle"
    BY <1>5 DEF MakeBackup
  <2>3. new \in records'
    <3>1. made \in Nat /\ \A r \in records : r.backup <= made
      BY DriveAssumption DEF DriveInv, MadeInv
    <3>2. new \notin gone
      BY <1>1, <2>1, <3>1, NewestStays
    <3> QED BY <2>1, <3>2
  <2>4. RowsKept
    BY <1>1, <2>1, <2>3, EnqueuedRow, SameRows
  <2>5. NamedInv'
    BY <2>1, <2>4, NamesKept
  <2> QED BY <2>2, <2>5 DEF RunningInv
<1>6. CASE ClaimTransfer
  <2>1. PICK j : j = Min(Pending)
    OBVIOUS
  <2>2. /\ j \in Pending /\ job' = [job EXCEPT ![j] = [job[j] EXCEPT !.status = "RUNNING"]]
        /\ current' = j /\ UNCHANGED <<records, bereft, requests>>
    <3>1. Pending \in SUBSET (0..MaxJobs) /\ Pending # {} /\ MaxJobs \in Nat
      BY <1>6, DriveAssumption DEF ClaimTransfer, Pending, JobIds
    <3>2. Min(Pending) \in Pending
      BY <3>1, Least DEF Min
    <3> QED BY <1>6, <2>1, <3>2 DEF ClaimTransfer, queue, history
  <2>3. j \in JobIds /\ Active(j)
    BY <2>2 DEF Pending, Active
  <2>4. job[j] \in RowType /\ job \in [JobIds -> RowType \cup {NoRow}]
    BY <1>1, <2>3 DEF Active, NoRow, RowInv
  <2>5. PICK row : row = [job[j] EXCEPT !.status = "RUNNING"]
    OBVIOUS
  <2>6. row.record = job[j].record /\ row.backup = job[j].backup /\ row.status = "RUNNING"
    BY <2>4, <2>5 DEF RowType
  <2>7. RowsKept
    BY <2>2, <2>3, <2>5, <2>6, ChangedRow
  <2>9. NamedInv'
    BY <2>2, <2>7, NamesStay
  <2>10. job'[current'].status = "RUNNING"
    BY <2>2, <2>3, <2>4, <2>5, <2>6
  <2> QED BY <2>9, <2>10 DEF RunningInv
<1>7. CASE WriteLastCheckpoint
  <2>1. /\ job' = [job EXCEPT ![current] = [job[current] EXCEPT !.cancellable = FALSE]]
        /\ step = "closing" /\ UNCHANGED <<records, bereft, requests, current>>
    BY <1>7 DEF WriteLastCheckpoint, At, queue, history
  <2>2. current \in JobIds /\ Active(current)
    BY <1>1, <2>1 DEF RunningInv, Active
  <2>3. job[current] \in RowType /\ job \in [JobIds -> RowType \cup {NoRow}]
    BY <1>1, <2>2 DEF Active, NoRow, RowInv
  <2>4. PICK row : row = [job[current] EXCEPT !.cancellable = FALSE]
    OBVIOUS
  <2>5. /\ row.record = job[current].record /\ row.backup = job[current].backup
        /\ row.status = job[current].status
    BY <2>3, <2>4 DEF RowType
  <2>6. RowsKept
    BY <2>1, <2>2, <2>4, <2>5, ChangedRow
  <2>8. NamedInv'
    BY <2>1, <2>6, NamesStay
  <2>9. job'[current'].status = "RUNNING"
    BY <2>1, <2>2, <2>3, <2>4, <2>5 DEF RunningInv
  <2> QED BY <2>8, <2>9 DEF RunningInv
<1>8. ASSUME NEW outcome \in Terminal, FinishTransfer(outcome),
             step \notin {"idle", "down", "cleaning"}
      PROVE  RowsKept /\ RunningInv'
  <2>1. PICK row : row = [job[current] EXCEPT !.status = outcome, !.cancellable = FALSE]
    OBVIOUS
  <2>2. job' = [job EXCEPT ![current] = row] /\ step' = "idle"
    BY <1>8, <2>1 DEF FinishTransfer, Leave
  <2>3. job[current] \in RowType
    BY <1>1, <1>8 DEF RowInv, RunningInv, NoRow
  <2>4. /\ row.record = job[current].record /\ row.backup = job[current].backup
        /\ row.status \notin {"PENDING", "RUNNING"}
    BY <2>1, <2>3 DEF RowType, Terminal
  <2>5. RowsKept
    BY <2>2, <2>4, ChangedRow
  <2> QED BY <2>2, <2>5 DEF RunningInv
<1>9. CASE RegisterRemote
  <2>1. step = "registering" /\ UNCHANGED <<bereft, requests>>
    BY <1>9 DEF RegisterRemote, queue, history
  <2>2. CASE UNCHANGED <<records, job, current>>
    BY <2>1, <2>2, WithinJob
  <2>3. CASE records \subseteq records' /\ FinishTransfer("SUCCEEDED")
    <3>1. RowsKept /\ RunningInv'
      BY <1>8, <2>1, <2>3 DEF Terminal
    <3> QED BY <2>1, <2>3, <3>1, NamesStay
  <2> QED BY <1>9, <2>2, <2>3 DEF RegisterRemote
<1>10. CASE RegisterLocal
  <2>1. step = "registering"
    BY <1>10 DEF RegisterLocal
  <2>2. CASE UNCHANGED <<records, job, current, bereft, requests>>
    BY <2>1, <2>2, WithinJob
  <2>3. CASE Target.backup \notin CopiesOn("LOCAL")
    <3>1. PICK new, gone : /\ records' = (records \cup {new}) \ gone /\ Bereave(gone)
                           /\ FinishTransfer("SUCCEEDED")
      BY <1>10, <2>3 DEF RegisterLocal
    <3>2. RowsKept /\ RunningInv'
      BY <1>8, <2>1, <3>1 DEF Terminal
    <3> QED BY <3>1, <3>2, NamesKept
  <2> QED BY <1>10, <2>2, <2>3 DEF RegisterLocal
<1>11. ASSUME NEW r, step \in {"retiring", "erasing"}, UNCHANGED <<job, current>>,
              records' = records \ {r}, Bereave({r})
       PROVE  Goal
  <2>1. RowsKept
    BY <1>11, SameRows
  <2>3. NamedInv'
    BY <1>11, <2>1, NamesKept
  <2> QED BY <1>11, <2>3 DEF RunningInv
<1>12. CASE CommitRetirement \/ EraseRecord
  <2>1. ASSUME CommitRetirement PROVE Goal
    <3>1. /\ step \in {"retiring", "erasing"} /\ UNCHANGED <<job, current>>
          /\ records' = records \ {Oldest} /\ Bereave({Oldest})
      BY <2>1 DEF CommitRetirement, At
    <3> HIDE DEF Goal
    <3> QED BY <3>1, <1>11
  <2>2. ASSUME EraseRecord PROVE Goal
    <3>1. /\ step \in {"retiring", "erasing"} /\ UNCHANGED <<job, current>>
          /\ records' = records \ {Target} /\ Bereave({Target})
      BY <2>2 DEF EraseRecord, At
    <3> HIDE DEF Goal
    <3> QED BY <3>1, <1>11
  <2> QED BY <1>12, <2>1, <2>2
<1>13. CASE FinishDelete \/ FinishCancelled \/ FinishFailed
  <2>1. UNCHANGED <<records, bereft, requests>> /\ RowsKept /\ RunningInv'
    BY <1>8, <1>13 DEF FinishDelete, FinishCancelled, FinishFailed, queue, history, Terminal
  <2> QED BY <2>1, NamesStay
<1>14. CASE Recover
  <2>1. /\ step' = "cleaning" /\ UNCHANGED <<records, bereft, requests>>
        /\ job' = [j \in JobIds |->
                     IF job[j].status = "RUNNING"
                     THEN [job[j] EXCEPT !.status = "INTERRUPTED", !.cancellable = FALSE]
                     ELSE job[j]]
    BY <1>14 DEF Recover, At, queue, history
  <2>2. \A j \in JobIds : job[j].status = "RUNNING" => job'[j].status = "INTERRUPTED"
    <3> SUFFICES ASSUME NEW j \in JobIds, job[j].status = "RUNNING"
                 PROVE  job'[j].status = "INTERRUPTED"
      OBVIOUS
    <3>1. job[j] \in RowType
      BY <1>1 DEF RowInv, NoRow
    <3> QED BY <2>1, <3>1 DEF RowType
  <2>3. RowsKept
    BY <2>1, <2>2 DEF RowsKept, Active
  <2> QED BY <2>1, <2>3, NamesStay DEF RunningInv
<1>15. CASE \/ ValidateLocal \/ RetireForRetention \/ RetentionMet \/ Fits \/ RetireForQuota
            \/ DoesNotFit \/ StartUpload \/ Publish \/ StartDownload \/ Import \/ EraseCopy
            \/ CheckpointCancels \/ CancelTransfer \/ ReadLastCheckpoint
            \/ StartUploadBlind \/ Raise
  <2>1. UNCHANGED <<records, job, bereft, requests, current>>
    BY <1>15 DEF ValidateLocal, RetireForRetention, RetentionMet, Fits, RetireForQuota,
       DoesNotFit, StartUpload, Publish, StartDownload, Import, EraseCopy, CheckpointCancels,
       CancelTransfer, ReadLastCheckpoint, StartUploadBlind, Raise, queue, history
  <2>2. step \notin {"idle", "down", "cleaning"}
    BY <1>15 DEF ValidateLocal, RetireForRetention, RetentionMet, Fits, RetireForQuota,
       DoesNotFit, StartUpload, Publish, StartDownload, Import, EraseCopy, CheckpointCancels,
       CancelTransfer, ReadLastCheckpoint, StartUploadBlind, Raise, At
  <2> QED BY <2>1, <2>2, WithinJob
<1>16. CASE CleanUp \/ Strand \/ Crash
  BY <1>16, WithinJob DEF CleanUp, Strand, Leave, Crash, At, queue, history
<1>17. CASE UNCHANGED driveVars
  BY <1>17, WithinJob DEF driveVars
<1> QED
  BY <1>4, <1>5, <1>6, <1>7, <1>9, <1>10, <1>12, <1>13, <1>14, <1>15, <1>16, <1>17
  DEF DriveNext, Worker, Upload, Download, Delete

(* A transfer moves, and a deletion erases, the copy it was asked for, unless *)
(* the record it names was removed after its request had read it: the id is    *)
(* inserted later (drive_jobs.py:567) and looked up again when the job runs   *)
(* (drive_jobs.py:280, :394), ids are unique as long as their records last,   *)
(* and only a record that went leaves its id to another (db/base.py:19).     *)
THEOREM OtherCopiesAreExplained == DriveSpec => []WrongCopiesFollowRemovals
<1>1. DriveInv /\ NamedInv /\ RunningInv => WrongCopiesFollowRemovals
  <2> SUFFICES ASSUME DriveInv, NamedInv, RunningInv, current \notin bereft,
                      step \in {"uploading", "copying", "fetching", "erasing"}
               PROVE  Target.backup = job[current].backup
    BY DEF WrongCopiesFollowRemovals
  <2>1. current \in JobIds /\ Active(current)
    BY DriveAssumption DEF DriveInv, RowInv, KindInv, JobIds, RunningInv, Active
  <2>2. PICK r \in records : r.id = job[current].record /\ r.backup = job[current].backup
    BY <2>1 DEF NamedInv, Names
  <2>3. \A q \in records : q.id = job[current].record => q = r
    BY <2>2 DEF DriveInv, RecordInv
  <2>4. Target = r
    BY <2>2, <2>3 DEF Target
  <2> QED BY <2>2, <2>4
<1>2. DriveSpec => [](NamedInv /\ RunningInv)
  <2>1. DriveInv /\ RequestInv /\ (NamedInv /\ RunningInv) /\ [DriveNext]_driveVars =>
          (NamedInv /\ RunningInv)'
    BY NamedStep
  <2> QED BY NamedStarts, <2>1, DriveInvariant, PTL DEF DriveSpec
<1> QED BY <1>1, <1>2, DriveInvariant, PTL
=============================================================================
