---------------------------- MODULE LoginProtection ----------------------------
(***************************************************************************)
(* The login attempts of one username: five consecutive failures block it   *)
(* for fifteen minutes.  The password form of the account page goes through *)
(* the same check.  Reading, deciding and writing are serialized by BEGIN   *)
(* IMMEDIATE, but the time of an attempt is taken before it waits for that  *)
(* lock, so attempts may commit in another order than their times.          *)
(***************************************************************************)
EXTENDS Naturals, Sequences, FiniteSets

CONSTANTS
  Threads,                   \* threads of the web process
  NoAttempt,                 \* a thread without an attempt
  MAXIMUM_FAILED_ATTEMPTS,   \* the code: 5
  LOGIN_BLOCK_DURATION,      \* the code: 15 minutes
  MaxWait,                   \* longest wait for the write lock (busy_timeout)
  MaxAttempts,               \* bound: rows of login_attempts
  MaxTime                    \* bound: the clock

ASSUME LoginAssumption ==
  /\ MAXIMUM_FAILED_ATTEMPTS \in Nat \ {0} /\ LOGIN_BLOCK_DURATION \in Nat \ {0}
  /\ MaxWait \in Nat /\ MaxAttempts \in Nat /\ MaxTime \in Nat

Never == 0   \* blocked_until is NULL; times start at 1

VARIABLES
  clock,
  attempts,    \* rows of login_attempts by id: successful, attempted_at, blocked_until
  stamp,       \* the time a waiting request took, by thread
  streak,      \* history: failures committed since the last success or block
  lastFailure, \* history: latest time of an attempt with a wrong password
  reordered    \* history: an attempt committed after one with a later time

loginVars == <<clock, attempts, stamp, streak, lastFailure, reordered>>

LoginInit ==
  /\ clock = 1
  /\ attempts = <<>>
  /\ stamp = [c \in Threads |-> NoAttempt]
  /\ streak = 0
  /\ lastFailure = Never
  /\ reordered = FALSE

-----------------------------------------------------------------------------
Ids == DOMAIN attempts

(* ORDER BY attempted_at DESC, id DESC: i comes before k.                    *)
Newer(i, k) ==
  \/ attempts[i].at > attempts[k].at
  \/ attempts[i].at = attempts[k].at /\ i > k

BlockIds == {i \in Ids : attempts[i].until # Never}

(* Mutant of BlockedUntil: the first block is looked at, not the last.       *)
FirstBlockedUntil(now) ==
  IF \E i \in BlockIds : (\A k \in BlockIds \ {i} : Newer(k, i)) /\ attempts[i].until > now
    THEN attempts[CHOOSE i \in BlockIds : \A k \in BlockIds \ {i} : Newer(k, i)].until
    ELSE Never

(* The end of the newest block, when it is still to come.                    *)
BlockedUntil(now) ==
  IF \E i \in BlockIds : (\A k \in BlockIds \ {i} : Newer(i, k)) /\ attempts[i].until > now
    THEN attempts[CHOOSE i \in BlockIds : \A k \in BlockIds \ {i} : Newer(i, k)].until
    ELSE Never

(* A failure that neither met nor made a block.                              *)
PlainFailure(i) == ~attempts[i].successful /\ attempts[i].until = Never

(* Mutant of ConsecutiveFailures: a block does not end the row of failures.  *)
FailuresSinceSuccess ==
  Cardinality({i \in Ids : /\ ~attempts[i].successful
                           /\ \A k \in Ids : Newer(k, i) => ~attempts[k].successful})

ConsecutiveFailures ==
  Cardinality({i \in Ids : PlainFailure(i) /\ \A k \in Ids : Newer(k, i) => PlainFailure(k)})

-----------------------------------------------------------------------------
Arrive(c) ==
  /\ stamp[c] = NoAttempt
  /\ stamp' = [stamp EXCEPT ![c] = clock]
  /\ UNCHANGED <<clock, attempts, streak, lastFailure, reordered>>

(* The row of c's attempt is written and its request answered.               *)
Record(c, successful, until) ==
  /\ stamp[c] # NoAttempt
  /\ Len(attempts) < MaxAttempts
  /\ attempts' = Append(attempts,
                        [successful |-> successful, at |-> stamp[c], until |-> until])
  /\ stamp' = [stamp EXCEPT ![c] = NoAttempt]
  /\ reordered' = (reordered \/ \E i \in Ids : attempts[i].at > stamp[c])
  /\ UNCHANGED clock

(* Mutant of Refuse: every refused attempt starts the block anew.            *)
RefuseAnew(c) ==
  /\ stamp[c] # NoAttempt
  /\ BlockedUntil(stamp[c]) # Never
  /\ Record(c, FALSE, stamp[c] + LOGIN_BLOCK_DURATION)
  /\ UNCHANGED <<streak, lastFailure>>

(* During a block the password is not looked at.                             *)
Refuse(c) ==
  /\ stamp[c] # NoAttempt
  /\ BlockedUntil(stamp[c]) # Never
  /\ Record(c, FALSE, BlockedUntil(stamp[c]))
  /\ UNCHANGED <<streak, lastFailure>>

Succeed(c) ==
  /\ stamp[c] # NoAttempt
  /\ BlockedUntil(stamp[c]) = Never
  /\ Record(c, TRUE, Never)
  /\ streak' = 0
  /\ UNCHANGED lastFailure

WrongPassword(c) ==
  lastFailure' = IF stamp[c] > lastFailure THEN stamp[c] ELSE lastFailure

Reached == ConsecutiveFailures + 1 >= MAXIMUM_FAILED_ATTEMPTS

FailOnce(c) ==
  /\ stamp[c] # NoAttempt
  /\ BlockedUntil(stamp[c]) = Never /\ ~Reached
  /\ Record(c, FALSE, Never)
  /\ streak' = streak + 1
  /\ WrongPassword(c)

Block(c) ==
  /\ stamp[c] # NoAttempt
  /\ BlockedUntil(stamp[c]) = Never /\ Reached
  /\ Record(c, FALSE, stamp[c] + LOGIN_BLOCK_DURATION)
  /\ streak' = 0
  /\ WrongPassword(c)

Tick ==
  /\ clock < MaxTime
  /\ \A c \in Threads : stamp[c] # NoAttempt => clock < stamp[c] + MaxWait
  /\ clock' = clock + 1
  /\ UNCHANGED <<attempts, stamp, streak, lastFailure, reordered>>

LoginNext ==
  \/ Tick
  \/ \E c \in Threads : Arrive(c) \/ Refuse(c) \/ Succeed(c) \/ FailOnce(c) \/ Block(c)

LoginSpec == LoginInit /\ [][LoginNext]_loginVars
-----------------------------------------------------------------------------
(* Every variable has its type; a block ends after the attempt it belongs to. *)
LoginTypeOK ==
  /\ clock \in 1..MaxTime
  /\ Len(attempts) <= MaxAttempts
  /\ \A i \in Ids :
       /\ attempts[i].successful \in BOOLEAN
       /\ attempts[i].at \in 1..clock
       /\ attempts[i].until = Never
            \/ attempts[i].until \in (attempts[i].at + 1)..(clock + LOGIN_BLOCK_DURATION)
  /\ stamp \in [Threads -> 1..clock \cup {NoAttempt}]
  /\ streak \in 0..MaxAttempts
  /\ lastFailure \in 0..clock
  /\ reordered \in BOOLEAN

(* No login succeeds before every block made so far is over, in whatever     *)
(* order waiting attempts get the lock (SPECIFICATION.md:288).               *)
NoSuccessDuringBlock ==
  [][\A c \in Threads :
       Succeed(c) => \A i \in Ids : attempts[i].until <= clock]_loginVars

(* Nobody is kept out for longer than fifteen minutes after the last wrong   *)
(* password: attempts refused meanwhile, and late ones, prolong no block.    *)
BlocksAreNotProlonged ==
  \A i \in BlockIds : attempts[i].until <= lastFailure + LOGIN_BLOCK_DURATION

(* As long as attempts commit in the order of their times, a block is made   *)
(* by the fifth failure since the last success or block, and by no other.    *)
CountIsExact ==
  [][\A c \in Threads :
       /\ Block(c) /\ ~reordered' => streak + 1 = MAXIMUM_FAILED_ATTEMPTS
       /\ FailOnce(c) /\ ~reordered' => streak + 1 < MAXIMUM_FAILED_ATTEMPTS]_loginVars

=============================================================================
