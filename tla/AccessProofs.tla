------------------------------ MODULE AccessProofs ------------------------------
(***************************************************************************)
(* Proofs about who may enter the Manager: the accounts and their sessions   *)
(* (Accounts), and the protection of the login form (LoginProtection), each  *)
(* for any number of users, threads, sessions, attempts and any limits.      *)
(***************************************************************************)
EXTENDS Accounts, LoginProtection, Integers, FiniteSetTheorems, TLAPS

(* Sessions, principals and a reset under way are those of accounts.         *)
Named ==
  /\ \A s \in Issued : Exists(session[s].user)
  /\ \A c \in Requests :
       request[c] # NoRequest => Exists(request[c].user) /\ request[c].session \in Issued
  /\ reset # NoReset => Exists(reset.user)
  /\ session = [s \in SessionIds |-> session[s]]

(* An open session of an account whose reset has been read was seen by it,    *)
(* or is one of those issued since.                                          *)
ResetSees ==
  reset # NoReset =>
    \A s \in Issued :
      session[s].user = reset.user /\ ~session[s].revoked => s \in reset.open \cup missed

IInv == TypeOK /\ Named /\ ResetSees /\ AdministratorRemains /\ SessionsFollowAccounts

LEMMA IssuedType == TypeOK => Issued \subseteq SessionIds
  BY AccountsAssumption DEF TypeOK, Issued, SessionIds

-----------------------------------------------------------------------------
(* Accounts are neither deleted nor left without an administrator. *)

(* What a step may do to the accounts: nothing, a first account that          *)
(* administers, another one, or a change of one that leaves another          *)
(* administrator or keeps this one.                                          *)
AccountsStep ==
  \/ user' = user
  \/ /\ \A v \in Users : ~Exists(v)
     /\ \E u \in Users :
          user' = [user EXCEPT ![u] = [role |-> "ADMIN", active |-> TRUE, temporary |-> FALSE,
                                       chosen |-> "owner"]]
  \/ /\ \E v \in Users : Exists(v)
     /\ \E u \in Users : \E row \in UserRow :
          /\ user' = [user EXCEPT ![u] = row]
          /\ \/ ~Exists(u)
             \/ u \notin Administrators
             \/ row.role = "ADMIN" /\ row.active
             \/ Cardinality(Administrators) > 1

LEMMA ManyAdministrators ==
  ASSUME NEW u, Cardinality(Administrators) > 1
  PROVE  Administrators # {u}
<1>1. Cardinality({u}) = 1
  BY FS_Singleton
<1> QED BY <1>1

LEMMA AdministratorStays ==
  ASSUME TypeOK, AdministratorRemains, AccountsStep
  PROVE  AdministratorRemains' /\ \A u \in Users : Exists(u) => Exists(u)'
<1> USE DEF TypeOK, Exists, Administrators, AdministratorRemains, UserRow, NoUser
<1>1. CASE user' = user
  BY <1>1
<1>2. CASE /\ \A v \in Users : ~Exists(v)
           /\ \E u \in Users :
                user' = [user EXCEPT ![u] = [role |-> "ADMIN", active |-> TRUE,
                                             temporary |-> FALSE, chosen |-> "owner"]]
  BY <1>2
<1>3. ASSUME NEW u \in Users, NEW row \in UserRow,
             \E v \in Users : Exists(v),
             user' = [user EXCEPT ![u] = row],
             \/ ~Exists(u)
             \/ u \notin Administrators
             \/ row.role = "ADMIN" /\ row.active
             \/ Cardinality(Administrators) > 1
      PROVE  AdministratorRemains' /\ \A v \in Users : Exists(v) => Exists(v)'
  <2>1. row # NoUser
    OBVIOUS
  <2>2. \A v \in Users : Exists(v) => Exists(v)'
    BY <1>3, <2>1
  <2>3. \E a \in Administrators : a # u \/ (row.role = "ADMIN" /\ row.active)
    <3>1. Administrators # {}
      BY <1>3
    <3>2. CASE Cardinality(Administrators) > 1
      <4>1. Administrators # {u}
        BY <3>2, ManyAdministrators
      <4> QED BY <3>1, <4>1
    <3>3. CASE ~Exists(u) \/ u \notin Administrators \/ (row.role = "ADMIN" /\ row.active)
      BY <3>1, <3>3
    <3> QED BY <1>3, <3>2, <3>3
  <2>4. Administrators' # {}
    <3> PICK a \in Administrators : a # u \/ (row.role = "ADMIN" /\ row.active)
      BY <2>3
    <3>1. a \in Administrators'
      BY <1>3, <2>1
    <3> QED BY <3>1
  <2> QED BY <2>2, <2>4
<1> QED
  BY <1>1, <1>2, <1>3 DEF AccountsStep

-----------------------------------------------------------------------------
(* Sessions. *)

(* How a session may change: it is expired, revoked or made outdated.        *)
Ages(s) ==
  /\ session'[s] \in SessionRow /\ session'[s].user = session[s].user
  /\ session[s].revoked => session'[s].revoked

(* A change of u ends its open sessions in S; the others stay as they are.   *)
LEMMA Superseding ==
  ASSUME TypeOK, NEW u \in Users, NEW S, session' = Superseded(u, S)
  PROVE  /\ session' = [s \in SessionIds |-> session'[s]]
         /\ \A s \in Issued : Ages(s)
         /\ \A s \in SessionIds \ Issued : session'[s] = session[s]
         /\ \A s \in Issued : session[s].user # u => session'[s] = session[s]
         /\ \A s \in Issued : session[s].user = u /\ s \in S => session'[s].revoked
<1> USE DEF TypeOK, SessionRow
<1>1. Issued \subseteq SessionIds
  BY IssuedType
<1>2. ASSUME NEW s \in SessionIds, s \notin Issued \/ session[s].user # u
      PROVE  session'[s] = session[s]
  BY <1>2 DEF Superseded
<1>3. ASSUME NEW s \in Issued, session[s].user = u
      PROVE  Ages(s) /\ (s \in S => session'[s].revoked)
  <2>1. session[s] \in SessionRow
    BY <1>1
  <2>2. session'[s] = [session[s] EXCEPT !.outdated = TRUE, !.revoked = @ \/ s \in S]
    BY <1>1, <1>3 DEF Superseded
  <2>3. /\ session'[s] \in SessionRow /\ session'[s].user = session[s].user
        /\ session'[s].revoked = (session[s].revoked \/ s \in S)
    BY <2>1, <2>2
  <2> QED BY <2>3 DEF Ages
<1>4. ASSUME NEW s \in Issued, session[s].user # u PROVE Ages(s)
  BY <1>1, <1>2, <1>4 DEF Ages
<1>5. session' = [s \in SessionIds |-> session'[s]]
  BY DEF Superseded
<1> QED BY <1>1, <1>2, <1>3, <1>4, <1>5

(* A row written leaves the accounts there are.                              *)
LEMMA Rewritten ==
  ASSUME TypeOK, NEW u \in Users, NEW row \in UserRow, user' = [user EXCEPT ![u] = row]
  PROVE  /\ user' \in [Users -> UserRow \cup {NoUser}]
         /\ \A v \in Users : Exists(v) => Exists(v)'
BY DEF TypeOK, Exists, UserRow, NoUser

SessionInv == TypeOK /\ Named /\ ResetSees /\ SessionsFollowAccounts

(* Steps that issue no session and start no reset: it is enough that no open  *)
(* session becomes outdated, but for those a reset has missed.               *)
LEMMA AgingKeeps ==
  ASSUME SessionInv,
         user' \in [Users -> UserRow \cup {NoUser}], \A u \in Users : Exists(u) => Exists(u)',
         UNCHANGED <<lastSession, missed>>, reset' \in {reset, NoReset},
         request' \in [Requests -> Principal \cup {NoRequest}],
         \A c \in Requests :
           request'[c] # NoRequest => Exists(request'[c].user) /\ request'[c].session \in Issued,
         session' = [s \in SessionIds |-> session'[s]],
         \A s \in Issued : Ages(s),
         \A s \in SessionIds \ Issued : session'[s] = session[s],
         \A s \in Issued : ~session'[s].revoked =>
                             session'[s].outdated = session[s].outdated \/ s \in missed
  PROVE  SessionInv'
<1> USE DEF SessionInv
<1>1. Issued' = Issued /\ Issued \subseteq SessionIds
  BY IssuedType DEF Issued
<1>2. \A s \in Issued : session[s] \in SessionRow /\ session[s].user \in Users
  BY <1>1 DEF TypeOK, SessionRow
<1>3. /\ \A s \in Issued : user'[session'[s].user] # NoUser
      /\ \A c \in Requests : request'[c] # NoRequest => user'[request'[c].user] # NoUser
      /\ reset' # NoReset => user'[reset'.user] # NoUser
  <2>1. \A u \in Users : user[u] # NoUser => user'[u] # NoUser
    BY DEF Exists
  <2>2. \A c \in Requests : request'[c] # NoRequest =>
                              request'[c].user \in Users /\ user[request'[c].user] # NoUser
    BY DEF Principal, Exists
  <2>3. \A s \in Issued : session'[s].user \in Users /\ user[session'[s].user] # NoUser
    BY <1>2 DEF Named, Ages, Exists
  <2>4. reset' # NoReset => reset'.user \in Users /\ user[reset'.user] # NoUser
    BY DEF Named, TypeOK, Exists
  <2> QED BY <2>1, <2>2, <2>3, <2>4
<1>4. TypeOK' /\ Named'
  BY <1>1, <1>3 DEF TypeOK, Named, Ages, Exists
<1>5. ResetSees'
  BY <1>1, <1>2 DEF ResetSees, Ages, SessionRow
<1>6. SessionsFollowAccounts'
  BY <1>1, <1>2 DEF SessionsFollowAccounts, Ages, SessionRow
<1> QED BY <1>4, <1>5, <1>6

(* The requests under way after one was answered, or none.                   *)
LEMMA Answered ==
  ASSUME SessionInv, \/ request' = request
                     \/ \E c \in Requests : request' = [request EXCEPT ![c] = NoRequest]
  PROVE  /\ request' \in [Requests -> Principal \cup {NoRequest}]
         /\ \A c \in Requests :
              request'[c] # NoRequest => Exists(request'[c].user) /\ request'[c].session \in Issued
BY DEF SessionInv, TypeOK, Named, Exists

(* A changed account loses its open sessions.                                *)
LEMMA ChangeKeeps ==
  ASSUME SessionInv, NEW c \in Requests, Answer(c), NEW u \in Users, NEW row \in UserRow,
         Change(u, row)
  PROVE  SessionInv'
<1>1. /\ user' = [user EXCEPT ![u] = row] /\ session' = Superseded(u, UnrevokedOf(u))
      /\ request' = [request EXCEPT ![c] = NoRequest]
      /\ UNCHANGED <<lastSession, reset, missed>>
  BY DEF Change, Answer
<1>2. /\ user' \in [Users -> UserRow \cup {NoUser}]
      /\ \A v \in Users : Exists(v) => Exists(v)'
  BY <1>1, Rewritten DEF SessionInv
<1>3. /\ session' = [s \in SessionIds |-> session'[s]]
      /\ \A s \in Issued : Ages(s)
      /\ \A s \in SessionIds \ Issued : session'[s] = session[s]
      /\ \A s \in Issued : session[s].user # u => session'[s] = session[s]
      /\ \A s \in Issued : session[s].user = u /\ s \in UnrevokedOf(u) => session'[s].revoked
  BY <1>1, Superseding DEF SessionInv
<1>4. \A s \in Issued : ~session'[s].revoked => session'[s] = session[s]
  BY <1>3 DEF UnrevokedOf, Ages
<1> QED
  BY <1>1, <1>2, <1>3, <1>4, Answered, AgingKeeps

(* A new session is in force, and counted when a reset is under way.         *)
LEMMA LoginKeeps ==
  ASSUME SessionInv, NEW u \in Users, Login(u)
  PROVE  SessionInv'
<1> DEFINE new == lastSession + 1
           row == [user |-> u, revoked |-> FALSE, expired |-> FALSE, outdated |-> FALSE]
<1>1. /\ new \in SessionIds /\ lastSession' = new /\ new \in 0..MaxSessions
      /\ Issued' = Issued \cup {new} /\ new \notin Issued /\ Issued \subseteq SessionIds
  BY IssuedType, AccountsAssumption DEF SessionInv, TypeOK, Login, Issued, SessionIds
<1>2. /\ session' = [session EXCEPT ![new] = row] /\ Exists(u)
      /\ missed' = IF reset # NoReset /\ reset.user = u THEN missed \cup {new} ELSE missed
      /\ UNCHANGED <<user, request, reset>>
  BY <1>1 DEF Login
<1>3. /\ row \in SessionRow /\ row.user = u /\ ~row.revoked /\ ~row.outdated
  BY DEF SessionRow
<1> HIDE DEF new, row
<1>4. /\ \A s \in SessionIds : session'[s] = IF s = new THEN row ELSE session[s]
      /\ session' = [s \in SessionIds |-> session'[s]]
  BY <1>1, <1>2 DEF SessionInv, Named
<1>5. TypeOK'
  BY <1>1, <1>2, <1>3, <1>4 DEF SessionInv, TypeOK, Exists
<1>6. Named'
  BY <1>1, <1>2, <1>3, <1>4 DEF SessionInv, Named, Exists
<1>7. ResetSees'
  BY <1>1, <1>2, <1>3, <1>4 DEF SessionInv, ResetSees
<1>8. SessionsFollowAccounts'
  BY <1>1, <1>2, <1>3, <1>4 DEF SessionInv, SessionsFollowAccounts
<1> QED BY <1>5, <1>6, <1>7, <1>8 DEF SessionInv

LEMMA StepSessions == SessionInv /\ [Next]_vars => SessionInv'
<1> SUFFICES ASSUME SessionInv, [Next]_vars PROVE SessionInv'
  OBVIOUS
<1>0. /\ TypeOK /\ Named /\ Issued \subseteq SessionIds
      /\ \A s \in Issued : session[s] \in SessionRow
      /\ \A c \in Requests : request[c] # NoRequest =>
           request[c] \in Principal /\ user[request[c].user] \in UserRow
  <2>1. TypeOK /\ Named /\ Issued \subseteq SessionIds
    BY IssuedType DEF SessionInv
  <2>2. \A c \in Requests : request[c] # NoRequest =>
          request[c] \in Principal /\ request[c].user \in Users /\ Exists(request[c].user)
    BY <2>1 DEF TypeOK, Named, Principal
  <2> QED BY <2>1, <2>2 DEF TypeOK, Exists
<1>1. ASSUME NEW s \in Issued,
             user' = user, UNCHANGED <<lastSession, missed, reset>>,
             request' \in [Requests -> Principal \cup {NoRequest}],
             \A c \in Requests :
               request'[c] # NoRequest => Exists(request'[c].user) /\ request'[c].session \in Issued,
             \/ session' = session
             \/ session' = [session EXCEPT ![s].revoked = TRUE]
             \/ session' = [session EXCEPT ![s].expired = TRUE]
      PROVE  SessionInv'
  <2>1. /\ user' \in [Users -> UserRow \cup {NoUser}]
        /\ \A u \in Users : Exists(u) => Exists(u)'
    BY <1>0, <1>1 DEF TypeOK, Exists
  <2>2. ASSUME NEW r \in SessionIds
        PROVE  /\ r # s => session'[r] = session[r]
               /\ r = s => Ages(r) /\ session'[r].outdated = session[r].outdated
    <3>1. s \in SessionIds /\ session[s] \in SessionRow
      BY <1>0
    <3>2. session = [q \in SessionIds |-> session[q]]
      BY <1>0 DEF Named
    <3>3. r # s => session'[r] = session[r]
      BY <1>1, <3>1, <3>2
    <3>4. session'[s] \in {session[s], [session[s] EXCEPT !.revoked = TRUE],
                          [session[s] EXCEPT !.expired = TRUE]}
      BY <1>1, <3>1, <3>2
    <3>5. Ages(s) /\ session'[s].outdated = session[s].outdated
      BY <3>1, <3>4 DEF Ages, SessionRow
    <3> QED BY <3>3, <3>5
  <2>3. /\ \A r \in Issued : Ages(r) /\ session'[r].outdated = session[r].outdated
        /\ \A r \in SessionIds \ Issued : session'[r] = session[r]
    BY <1>0, <2>2 DEF Ages
  <2>4. session' = [r \in SessionIds |-> session'[r]]
    BY <1>0, <1>1 DEF Named
  <2> QED BY <1>1, <2>1, <2>3, <2>4, AgingKeeps
<1>14. ASSUME NEW u \in Users, NEW row \in UserRow, user' = [user EXCEPT ![u] = row],
              UNCHANGED <<session, lastSession, reset, missed>>,
              request' \in [Requests -> Principal \cup {NoRequest}],
              \A c \in Requests :
                request'[c] # NoRequest => Exists(request'[c].user) /\ request'[c].session \in Issued
       PROVE  SessionInv'
  <2>1. /\ user' \in [Users -> UserRow \cup {NoUser}]
        /\ \A v \in Users : Exists(v) => Exists(v)'
    BY <1>14, Rewritten DEF SessionInv
  <2>2. /\ session' = [s \in SessionIds |-> session'[s]]
        /\ \A s \in Issued : Ages(s)
    BY <1>0, <1>14 DEF Named, Ages
  <2> QED BY <1>14, <2>1, <2>2, AgingKeeps
<1>2. ASSUME NEW u \in Users, Login(u) PROVE SessionInv'
  BY <1>2, LoginKeeps
<1>3. ASSUME NEW s \in Issued, Expire(s) PROVE SessionInv'
  BY <1>1, <1>3, Answered DEF Expire
<1>4. ASSUME NEW s \in Issued, NEW c \in Requests, Resolve(c, s) PROVE SessionInv'
  <2>1. /\ request' \in [Requests -> Principal \cup {NoRequest}]
        /\ \A d \in Requests :
             request'[d] # NoRequest => Exists(request'[d].user) /\ request'[d].session \in Issued
    <3>1. CASE request' = request
      BY <3>1, Answered
    <3>2. CASE request' = [request EXCEPT ![c] =
                 [session |-> s, user |-> session[s].user,
                  role |-> user[session[s].user].role,
                  temporary |-> user[session[s].user].temporary]]
      <4> DEFINE p == [session |-> s, user |-> session[s].user,
                       role |-> user[session[s].user].role,
                       temporary |-> user[session[s].user].temporary]
      <4>1. session[s].user \in Users /\ user[session[s].user] \in UserRow
        BY <1>0 DEF Named, TypeOK, Exists, SessionRow
      <4>2. p \in Principal /\ Exists(p.user) /\ p.session \in Issued
        BY <1>0, <4>1 DEF Principal, UserRow, Exists, NoUser
      <4> HIDE DEF p
      <4> QED BY <1>0, <3>2, <4>2 DEF TypeOK, Named, p
    <3> QED BY <1>4, <3>1, <3>2 DEF Resolve
  <2>2. /\ user' = user /\ UNCHANGED <<lastSession, missed, reset>>
        /\ \/ session' = session
           \/ session' = [session EXCEPT ![s].revoked = TRUE]
    BY <1>4 DEF Resolve
  <2> QED BY <1>1, <2>1, <2>2
<1>5. ASSUME NEW c \in Requests, Refused(c) \/ Logout(c) PROVE SessionInv'
  <2>1. /\ user' = user /\ UNCHANGED <<lastSession, missed, reset>>
        /\ request' = [request EXCEPT ![c] = NoRequest]
    BY <1>5 DEF Refused, Logout, Answer
  <2>2. \/ session' = session
        \/ session' = [session EXCEPT ![request[c].session].revoked = TRUE]
    BY <1>5 DEF Refused, Logout
  <2>3. request[c].session \in Issued
    BY <1>0, <1>5 DEF Refused, Logout, Answer, Named
  <2> QED BY <1>1, <2>1, <2>2, <2>3, Answered
<1>6. ASSUME NEW c \in Requests, NEW u \in Users, CreateUser(c, u) PROVE SessionInv'
  <2>1. PICK row \in UserRow : user' = [user EXCEPT ![u] = row]
    BY <1>6 DEF CreateUser, UserRow
  <2>2. /\ UNCHANGED <<session, lastSession, reset, missed>>
        /\ request' = [request EXCEPT ![c] = NoRequest]
    BY <1>6 DEF CreateUser, Manages, Answer
  <2> QED BY <1>14, <2>1, <2>2, Answered
<1>7. ASSUME NEW c \in Requests, UpdateOwnPassword(c) PROVE SessionInv'
  <2> DEFINE u == request[c].user
             row == [user[u] EXCEPT !.chosen = "owner", !.temporary = FALSE]
  <2>1. Answer(c) /\ Change(u, row) /\ request[c] # NoRequest
    BY <1>7 DEF UpdateOwnPassword, Answer
  <2>2. u \in Users /\ row \in UserRow
    BY <1>0, <2>1 DEF Principal, UserRow
  <2> HIDE DEF u, row
  <2> QED BY <2>1, <2>2, ChangeKeeps
<1>8. ASSUME NEW c \in Requests, NEW u \in Users,
             ChangeRole(c, u) \/ SetActive(c, u) \/ ResetPassword(c, u)
      PROVE  SessionInv'
  <2>1. user[u] \in UserRow
    BY <1>0, <1>8 DEF ChangeRole, SetActive, ResetPassword, Exists, TypeOK
  <2>2. /\ Answer(c)
        /\ \/ \E role \in Roles : Change(u, [user[u] EXCEPT !.role = role])
           \/ Change(u, [user[u] EXCEPT !.active = ~@])
           \/ Change(u, [user[u] EXCEPT !.chosen = "administrator", !.temporary = TRUE])
    BY <1>8 DEF ChangeRole, SetActive, ResetPassword, Manages
  <2>3. /\ \A role \in Roles : [user[u] EXCEPT !.role = role] \in UserRow
        /\ [user[u] EXCEPT !.active = ~@] \in UserRow
        /\ [user[u] EXCEPT !.chosen = "administrator", !.temporary = TRUE] \in UserRow
    BY <2>1 DEF UserRow
  <2> QED BY <2>2, <2>3, ChangeKeeps
<1>9. ASSUME NEW u \in Users, CreateAdministrator(u) PROVE SessionInv'
  <2>1. PICK row \in UserRow : user' = [user EXCEPT ![u] = row]
    BY <1>9 DEF CreateAdministrator, UserRow, Roles
  <2>2. UNCHANGED <<session, lastSession, reset, missed, request>>
    BY <1>9 DEF CreateAdministrator
  <2> QED BY <1>14, <2>1, <2>2, Answered
<1>10. ASSUME NEW u \in Users, ReadForReset(u) PROVE SessionInv'
  <2> DEFINE read == [user |-> u, temporary |-> user[u].temporary, open |-> UnrevokedOf(u)]
  <2>1. /\ reset' = read /\ Exists(u) /\ UNCHANGED <<user, session, lastSession, request, missed>>
    BY <1>10 DEF ReadForReset
  <2>2. user[u] \in UserRow /\ UnrevokedOf(u) \subseteq SessionIds
    BY <1>0, <2>1 DEF TypeOK, Exists, UnrevokedOf
  <2>3. read \in [user : Users, temporary : BOOLEAN, open : SUBSET SessionIds]
    BY <2>2 DEF UserRow
  <2>4. read.user = u /\ read.open = UnrevokedOf(u)
    OBVIOUS
  <2> HIDE DEF read
  <2>5. TypeOK'
    BY <1>0, <2>1, <2>3 DEF TypeOK, Issued, Exists
  <2>6. Named'
    BY <1>0, <2>1, <2>4 DEF Named, Issued, Exists
  <2>7. ResetSees'
    BY <2>1, <2>4 DEF ResetSees, Issued, UnrevokedOf
  <2>8. SessionsFollowAccounts'
    BY <2>1 DEF SessionInv, SessionsFollowAccounts, Issued
  <2> QED BY <2>5, <2>6, <2>7, <2>8 DEF SessionInv
<1>11. CASE WriteReset
  <2> DEFINE u == reset.user
             row == [user[u] EXCEPT !.chosen = "owner", !.temporary = @ /\ ~reset.temporary]
  <2>1. /\ reset # NoReset /\ session' = Superseded(u, reset.open)
        /\ reset' = NoReset /\ UNCHANGED <<lastSession, request, missed>>
    BY <1>11 DEF WriteReset
  <2>2. /\ u \in Users /\ user[u] \in UserRow /\ reset.temporary \in BOOLEAN
    BY <1>0, <2>1 DEF TypeOK, Named, Exists
  <2>3. row \in UserRow /\ user' = [user EXCEPT ![u] = row]
    BY <1>11, <2>2 DEF WriteReset, UserRow
  <2> HIDE DEF row
  <2>4. /\ user' \in [Users -> UserRow \cup {NoUser}]
        /\ \A v \in Users : Exists(v) => Exists(v)'
    BY <1>0, <2>2, <2>3, Rewritten
  <2>5. /\ session' = [s \in SessionIds |-> session'[s]]
        /\ \A s \in Issued : Ages(s)
        /\ \A s \in SessionIds \ Issued : session'[s] = session[s]
        /\ \A s \in Issued : session[s].user # u => session'[s] = session[s]
        /\ \A s \in Issued : session[s].user = u /\ s \in reset.open => session'[s].revoked
    BY <1>0, <2>1, <2>2, Superseding
  <2>6. \A s \in Issued : ~session'[s].revoked => session'[s] = session[s] \/ s \in missed
    BY <2>1, <2>5 DEF SessionInv, ResetSees, Ages
  <2> QED BY <2>1, <2>4, <2>5, <2>6, Answered, AgingKeeps
<1>12. CASE UNCHANGED vars
  BY <1>12 DEF vars, SessionInv, TypeOK, Named, ResetSees, SessionsFollowAccounts, Issued, Exists
<1> QED
  BY <1>2, <1>3, <1>4, <1>5, <1>6, <1>7, <1>8, <1>9, <1>10, <1>11, <1>12
  DEF Next, Handler
-----------------------------------------------------------------------------
LEMMA InitInv == Init => IInv
BY AccountsAssumption DEF Init, IInv, TypeOK, Named, ResetSees, AdministratorRemains,
     SessionsFollowAccounts, Issued, SessionIds, Exists

(* The sender of a request has an account.                                   *)
LEMMA Senders ==
  ASSUME SessionInv, NEW c \in Requests, request[c] # NoRequest
  PROVE  /\ request[c].user \in Users /\ Exists(request[c].user)
         /\ user[request[c].user] \in UserRow
<1>1. request[c] \in Principal /\ Exists(request[c].user)
  BY DEF SessionInv, TypeOK, Named
<1>2. request[c].user \in Users
  BY <1>1 DEF Principal
<1> QED BY <1>1, <1>2 DEF SessionInv, TypeOK, Exists

(* What the rules about oneself and the last administrator come to: every    *)
(* handler is an AccountsStep, whatever has changed since its request was    *)
(* resolved.                                                                 *)
LEMMA HandlerRules ==
  ASSUME SessionInv, NEW c \in Requests, Handler(c)
  PROVE  AccountsStep
<1>1. request[c] # NoRequest
  BY DEF Handler, Refused, Logout, UpdateOwnPassword, CreateUser, ChangeRole, SetActive,
         ResetPassword, Manages, Answer
<1>2. /\ request[c].user \in Users /\ Exists(request[c].user)
      /\ user[request[c].user] \in UserRow
  BY <1>1, Senders
<1>3. CASE Refused(c) \/ Logout(c)
  BY <1>3 DEF Refused, Logout, AccountsStep
<1>4. ASSUME NEW u \in Users, NEW row \in UserRow, user' = [user EXCEPT ![u] = row],
             \/ ~Exists(u)
             \/ user[u] \in UserRow /\ row.role = user[u].role /\ row.active = user[u].active
             \/ row.role = "ADMIN" /\ row.active
             \/ u \in Administrators => Cardinality(Administrators) > 1
      PROVE  AccountsStep
  <2>1. \/ ~Exists(u) \/ u \notin Administrators
        \/ row.role = "ADMIN" /\ row.active
        \/ Cardinality(Administrators) > 1
    BY <1>4 DEF Administrators
  <2>2. \E v \in Users : Exists(v)
    BY <1>2
  <2> QED BY <1>4, <2>1, <2>2 DEF AccountsStep
<1>5. CASE UpdateOwnPassword(c)
  <2> DEFINE u == request[c].user
             row == [user[u] EXCEPT !.chosen = "owner", !.temporary = FALSE]
  <2>1. user' = [user EXCEPT ![u] = row]
    BY <1>5 DEF UpdateOwnPassword, Change
  <2>2. row \in UserRow /\ row.role = user[u].role /\ row.active = user[u].active
    BY <1>2 DEF UserRow
  <2> HIDE DEF row
  <2> QED BY <1>2, <1>4, <2>1, <2>2
<1>6. ASSUME NEW u \in Users, CreateUser(c, u) PROVE AccountsStep
  <2>1. PICK row \in UserRow : user' = [user EXCEPT ![u] = row]
    BY <1>6 DEF CreateUser, UserRow
  <2> QED BY <1>4, <1>6, <2>1 DEF CreateUser
<1>7. ASSUME NEW u \in Users, ChangeRole(c, u) PROVE AccountsStep
  <2>1. user[u] \in UserRow
    BY <1>7 DEF ChangeRole, SessionInv, TypeOK, Exists
  <2> PICK role \in Roles \ {user[u].role} :
             /\ role # "ADMIN" => AnotherAdministrator(u)
             /\ user' = [user EXCEPT ![u] = [user[u] EXCEPT !.role = role]]
    BY <1>7 DEF ChangeRole, Change
  <2> DEFINE row == [user[u] EXCEPT !.role = role]
  <2>2. row \in UserRow /\ row.role = role /\ row.active = user[u].active
    BY <2>1 DEF UserRow
  <2>3. user' = [user EXCEPT ![u] = row] /\ (role # "ADMIN" => AnotherAdministrator(u))
    OBVIOUS
  <2> HIDE DEF row
  <2>4. CASE u \in Administrators
    BY <1>4, <2>2, <2>3, <2>4 DEF Administrators, AnotherAdministrator
  <2> QED BY <1>4, <2>2, <2>3, <2>4
<1>8. ASSUME NEW u \in Users, SetActive(c, u) PROVE AccountsStep
  <2> DEFINE row == [user[u] EXCEPT !.active = ~@]
  <2>1. /\ user[u] \in UserRow /\ user' = [user EXCEPT ![u] = row]
        /\ user[u].active /\ user[u].role = "ADMIN" => AnotherAdministrator(u)
    BY <1>8 DEF SetActive, Change, SessionInv, TypeOK, Exists
  <2>2. row \in UserRow
    BY <2>1 DEF UserRow
  <2> HIDE DEF row
  <2>3. u \in Administrators => Cardinality(Administrators) > 1
    BY <2>1 DEF Administrators, AnotherAdministrator
  <2> QED BY <1>4, <2>1, <2>2, <2>3
<1>9. ASSUME NEW u \in Users, ResetPassword(c, u) PROVE AccountsStep
  <2> DEFINE row == [user[u] EXCEPT !.chosen = "administrator", !.temporary = TRUE]
  <2>1. user[u] \in UserRow /\ user' = [user EXCEPT ![u] = row]
    BY <1>9 DEF ResetPassword, Change, SessionInv, TypeOK, Exists
  <2>2. row \in UserRow /\ row.role = user[u].role /\ row.active = user[u].active
    BY <2>1 DEF UserRow
  <2> HIDE DEF row
  <2> QED BY <1>4, <2>1, <2>2
<1> QED
  BY <1>3, <1>5, <1>6, <1>7, <1>8, <1>9 DEF Handler

(* Every step is an AccountsStep.                                            *)
LEMMA StepAccounts ==
  ASSUME SessionInv, [Next]_vars
  PROVE  AccountsStep
<1>1. ASSUME NEW c \in Requests, Handler(c) PROVE AccountsStep
  BY <1>1, HandlerRules
<1>2. ASSUME NEW u \in Users, CreateAdministrator(u) PROVE AccountsStep
  BY <1>2 DEF CreateAdministrator, AccountsStep
<1>3. CASE WriteReset
  <2> DEFINE u == reset.user
             row == [user[u] EXCEPT !.chosen = "owner", !.temporary = @ /\ ~reset.temporary]
  <2>1. u \in Users /\ Exists(u) /\ user[u] \in UserRow /\ reset.temporary \in BOOLEAN
    BY <1>3 DEF WriteReset, SessionInv, TypeOK, Named, Exists
  <2>2. row \in UserRow /\ user' = [user EXCEPT ![u] = row]
    BY <1>3, <2>1 DEF WriteReset, UserRow
  <2>3. row.role = user[u].role /\ row.active = user[u].active
    BY <2>1 DEF UserRow
  <2> HIDE DEF row, u
  <2>4. u \notin Administrators \/ (row.role = "ADMIN" /\ row.active)
    BY <2>3 DEF Administrators
  <2> QED BY <2>1, <2>2, <2>4 DEF AccountsStep
<1>4. ASSUME user' = user PROVE AccountsStep
  BY <1>4 DEF AccountsStep
<1> QED
  BY <1>1, <1>2, <1>3, <1>4
  DEF Next, vars, Login, ReadForReset, Expire, Resolve

LEMMA StepInv == IInv /\ [Next]_vars => IInv'
<1> SUFFICES ASSUME IInv, [Next]_vars PROVE IInv'
  OBVIOUS
<1>1. SessionInv'
  BY StepSessions DEF IInv, SessionInv
<1>2. AdministratorRemains'
  BY StepAccounts, AdministratorStays DEF IInv, SessionInv
<1> QED BY <1>1, <1>2 DEF IInv, SessionInv

LEMMA AlwaysInv == Spec => []IInv
BY InitInv, StepInv, PTL DEF Spec

(* For any number of users and of threads: once an account exists there is   *)
(* an active administrator, also when demotions, deactivations, password     *)
(* changes and the terminal's reset interleave with requests whose role was  *)
(* resolved before (users/service.py counts the active administrators under  *)
(* BEGIN IMMEDIATE; middleware resolves the principal earlier).              *)
THEOREM AdministratorAlwaysRemains == Spec => []AdministratorRemains
<1>1. IInv => AdministratorRemains
  BY DEF IInv
<1> QED BY <1>1, AlwaysInv, PTL

(* For any number of users, sessions and threads: a session that is not      *)
(* revoked was issued after the last change of its user's role, status or    *)
(* password, unless the login fell between the two steps of the terminal's   *)
(* reset (users/service.py, account/service.py and cli.py revoke sessions).  *)
THEOREM SessionsAlwaysFollow == Spec => []SessionsFollowAccounts
<1>1. IInv => SessionsFollowAccounts
  BY DEF IInv
<1> QED BY <1>1, AlwaysInv, PTL

-----------------------------------------------------------------------------
(* The protection of the login form, for one username. *)

AttemptRow == [successful : BOOLEAN, at : Nat, until : Nat]

FormTyped ==
  /\ clock \in Nat \ {0} /\ attempts \in Seq(AttemptRow)
  /\ \A c \in Threads : stamp[c] # NoAttempt => stamp[c] \in 1..clock
  /\ stamp = [c \in Threads |-> stamp[c]]
  /\ \A i \in Ids : attempts[i].at \in 1..clock
  /\ streak \in Nat /\ lastFailure \in Nat /\ reordered \in BOOLEAN

(* A block ends after its attempt, and no later than one from the last wrong  *)
(* password on would.                                                        *)
EndInv ==
  \A i \in BlockIds :
    /\ attempts[i].until > attempts[i].at
    /\ attempts[i].until <= lastFailure + LOGIN_BLOCK_DURATION

(* The newest block ends last, wherever late attempts were put in.           *)
NewestInv ==
  BlockIds = {} \/
    \E i \in BlockIds : \A k \in BlockIds \ {i} :
      Newer(i, k) /\ attempts[k].until <= attempts[i].until

(* In the order of their times, the last attempts are the failures counted.   *)
StreakInv ==
  ~reordered =>
    /\ streak < MAXIMUM_FAILED_ATTEMPTS /\ streak <= Len(attempts)
    /\ \A i, k \in Ids : i <= k => attempts[i].at <= attempts[k].at
    /\ \A i \in Ids : i + streak > Len(attempts) => PlainFailure(i)
    /\ Len(attempts) > streak => ~PlainFailure(Len(attempts) - streak)
    /\ streak > 0 => \A i \in BlockIds : attempts[i].until <= attempts[Len(attempts)].at

FormInv == FormTyped /\ EndInv /\ NewestInv /\ StreakInv

LEMMA FormInit == LoginInit => FormInv
<1> SUFFICES ASSUME LoginInit PROVE FormInv
  OBVIOUS
<1>1. /\ clock = 1 /\ attempts = <<>> /\ stamp = [c \in Threads |-> NoAttempt]
      /\ streak = 0 /\ lastFailure = 0 /\ reordered = FALSE
  BY DEF LoginInit, Never
<1>2. /\ attempts \in Seq(AttemptRow) /\ Ids = {} /\ Len(attempts) = 0
      /\ clock \in Nat \ {0} /\ stamp = [c \in Threads |-> stamp[c]]
      /\ \A c \in Threads : stamp[c] = NoAttempt
  BY <1>1 DEF Ids
<1>3. BlockIds = {}
  BY <1>2 DEF BlockIds
<1>4. FormTyped
  BY <1>1, <1>2 DEF FormTyped
<1>5. EndInv /\ NewestInv
  BY <1>3 DEF EndInv, NewestInv
<1>6. StreakInv
  BY <1>1, <1>2, <1>3, LoginAssumption DEF StreakInv
<1> QED BY <1>4, <1>5, <1>6 DEF FormInv

LEMMA FormRows ==
  ASSUME FormTyped
  PROVE  /\ Ids = 1..Len(attempts) /\ Len(attempts) \in Nat
         /\ \A i \in Ids : /\ attempts[i] \in AttemptRow /\ i \in Nat
                           /\ attempts[i].successful \in BOOLEAN
                           /\ attempts[i].until \in Nat /\ attempts[i].at \in Nat
         /\ BlockIds \subseteq Ids
         /\ \A i \in BlockIds : attempts[i].until # Never
<1>1. attempts \in Seq(AttemptRow)
  BY DEF FormTyped
<1>2. Ids = 1..Len(attempts) /\ Len(attempts) \in Nat
  BY <1>1 DEF Ids
<1>3. \A i \in Ids : attempts[i] \in AttemptRow /\ i \in Nat
  BY <1>1, <1>2
<1>4. \A i \in Ids : attempts[i].until \in Nat /\ attempts[i].at \in Nat
                    /\ attempts[i].successful \in BOOLEAN
  BY <1>3 DEF AttemptRow
<1> QED BY <1>2, <1>3, <1>4 DEF BlockIds

(* What BlockedUntil finds: a block still to come, or that all are over.     *)
LEMMA Blocked ==
  ASSUME FormInv, NEW now \in Nat
  PROVE  IF BlockedUntil(now) = Never
           THEN \A i \in BlockIds : attempts[i].until <= now
           ELSE /\ BlockedUntil(now) > now
                /\ \E i \in BlockIds :
                     /\ BlockedUntil(now) = attempts[i].until
                     /\ \A k \in BlockIds \ {i} :
                          Newer(i, k) /\ attempts[k].until <= attempts[i].until
<1> DEFINE Newest(i) == \A k \in BlockIds \ {i} : Newer(i, k)
<1>1. /\ BlockIds \subseteq DOMAIN attempts
      /\ \A i \in BlockIds : /\ attempts[i].until \in Nat \ {Never}
                             /\ i \in Nat /\ attempts[i].at \in Nat
  BY FormRows DEF FormInv, Ids
<1>2. ASSUME NEW i \in BlockIds, NEW k \in BlockIds, Newest(i), Newest(k)
      PROVE  i = k
  BY <1>1, <1>2 DEF Newer
<1>3. CASE \E i \in BlockIds : Newest(i) /\ attempts[i].until > now
  <2> PICK i \in BlockIds : Newest(i) /\ attempts[i].until > now
    BY <1>3
  <2>1. BlockedUntil(now) = attempts[CHOOSE j \in BlockIds : Newest(j)].until
    BY <1>3 DEF BlockedUntil
  <2>2. BlockedUntil(now) = attempts[i].until
    BY <1>2, <2>1
  <2>3. \A k \in BlockIds \ {i} : attempts[k].until <= attempts[i].until
    <3> PICK j \in BlockIds : \A k \in BlockIds \ {j} :
               Newer(j, k) /\ attempts[k].until <= attempts[j].until
      BY DEF FormInv, NewestInv
    <3>1. i = j
      BY <1>2
    <3> QED BY <3>1
  <2> QED BY <1>1, <2>2, <2>3 DEF Never
<1>4. CASE ~\E i \in BlockIds : Newest(i) /\ attempts[i].until > now
  <2>1. BlockedUntil(now) = Never
    BY <1>4 DEF BlockedUntil
  <2>2. ASSUME NEW k \in BlockIds PROVE attempts[k].until <= now
    <3> PICK j \in BlockIds : \A l \in BlockIds \ {j} :
               Newer(j, l) /\ attempts[l].until <= attempts[j].until
      BY DEF FormInv, NewestInv
    <3>1. ~(attempts[j].until > now)
      BY <1>4
    <3> QED BY <1>1, <3>1
  <2> QED BY <2>1, <2>2
<1> QED BY <1>3, <1>4

(* Counted in the order of their times, the failures of the row are those     *)
(* since the last success or block.                                          *)
LEMMA FailuresCounted ==
  ASSUME FormInv, ~reordered
  PROVE  ConsecutiveFailures = streak
<1> DEFINE n == Len(attempts)
<1>1. /\ Ids = 1..n /\ n \in Nat
      /\ \A i \in Ids : attempts[i].at \in Nat
  BY FormRows DEF FormInv
<1>2. /\ streak \in Nat /\ streak <= n
      /\ \A i, k \in Ids : i <= k => attempts[i].at <= attempts[k].at
      /\ \A i \in Ids : i + streak > n => PlainFailure(i)
      /\ n > streak => ~PlainFailure(n - streak)
  BY DEF FormInv, FormTyped, StreakInv
<1> HIDE DEF n
<1>3. \A i, k \in Ids : Newer(k, i) <=> k > i
  BY <1>1, <1>2 DEF Newer
<1> DEFINE Row == {i \in Ids : /\ PlainFailure(i)
                               /\ \A k \in Ids : Newer(k, i) => PlainFailure(k)}
<1>4. Row = (n - streak + 1)..n
  <2>1. ASSUME NEW i \in Ids, i + streak > n PROVE i \in Row
    BY <1>1, <1>2, <1>3, <2>1
  <2>2. ASSUME NEW i \in Row PROVE i + streak > n
    <3>1. CASE n > streak
      <4>1. n - streak \in Ids
        BY <1>1, <1>2, <3>1
      <4>2. ~Newer(n - streak, i) /\ i # n - streak
        BY <1>2, <3>1, <4>1
      <4> QED BY <1>1, <1>2, <1>3, <4>1, <4>2
    <3>2. CASE n = streak
      BY <1>1, <3>2
    <3> QED BY <1>1, <1>2, <3>1, <3>2
  <2>3. \A i : i \in Row <=> i \in (n - streak + 1)..n
    BY <1>1, <1>2, <2>1, <2>2
  <2> QED BY <2>3
<1>5. Cardinality((n - streak + 1)..n) = streak
  <2>1. n \in Int /\ n - streak + 1 \in Int
    BY <1>1, <1>2
  <2>2. Cardinality((n - streak + 1)..n) =
          IF n - streak + 1 > n THEN 0 ELSE n - (n - streak + 1) + 1
    BY <2>1, FS_Interval
  <2> QED BY <1>1, <1>2, <2>2
<1> QED BY <1>4, <1>5 DEF ConsecutiveFailures

(* The rows after one more.                                                  *)
LEMMA Recorded ==
  ASSUME FormInv, NEW c \in Threads, NEW ok \in BOOLEAN, NEW until \in Nat,
         Record(c, ok, until), NEW n, n = Len(attempts) + 1
  PROVE  /\ attempts' \in Seq(AttemptRow) /\ Len(attempts') = n
         /\ n \notin Ids /\ Ids' = Ids \cup {n}
         /\ \A i \in Ids : attempts'[i] = attempts[i]
         /\ attempts'[n] = [successful |-> ok, at |-> stamp[c], until |-> until]
         /\ BlockIds' = BlockIds \cup (IF until = Never THEN {} ELSE {n})
         /\ stamp[c] \in 1..clock
<1> DEFINE row == [successful |-> ok, at |-> stamp[c], until |-> until]
<1>1. stamp[c] \in 1..clock /\ clock \in Nat /\ attempts \in Seq(AttemptRow)
  BY DEF Record, FormInv, FormTyped
<1>2. row \in AttemptRow /\ row.until = until
  BY <1>1 DEF AttemptRow
<1>3. attempts' = Append(attempts, row)
  BY DEF Record
<1> HIDE DEF row
<1>4. /\ attempts' \in Seq(AttemptRow) /\ Len(attempts') = n
      /\ \A i \in 1..Len(attempts) : attempts'[i] = attempts[i]
      /\ attempts'[n] = row
  BY <1>1, <1>2, <1>3
<1>5. Ids = 1..Len(attempts) /\ Ids' = 1..n /\ Len(attempts) \in Nat
  BY <1>1, <1>4 DEF Ids
<1>6. n \notin Ids /\ Ids' = Ids \cup {n}
  BY <1>5
<1>7. BlockIds' = BlockIds \cup (IF until = Never THEN {} ELSE {n})
  BY <1>2, <1>4, <1>5, <1>6 DEF BlockIds, Never
<1> QED BY <1>1, <1>4, <1>5, <1>6, <1>7 DEF row

(* A row with a block ends no sooner than the others, and is the newest or    *)
(* ends with the newest.                                                     *)
LEMMA BlockRecorded ==
  ASSUME FormInv, NEW c \in Threads, NEW ok \in BOOLEAN, NEW until \in Nat,
         Record(c, ok, until),
         until > stamp[c], \A k \in BlockIds : attempts[k].until <= until,
         \/ \A k \in BlockIds : attempts[k].at <= stamp[c]
         \/ \E i \in BlockIds :
              /\ attempts[i].until = until
              /\ \A k \in BlockIds \ {i} : Newer(i, k)
  PROVE  NewestInv'
<1> PICK n : n = Len(attempts) + 1
  OBVIOUS
<1>1. /\ n \notin Ids /\ BlockIds' = BlockIds \cup {n}
      /\ \A i \in Ids : attempts'[i] = attempts[i]
      /\ attempts'[n].at = stamp[c] /\ attempts'[n].until = until
      /\ stamp[c] \in Nat
  <2>1. until # Never /\ clock \in Nat
    BY DEF FormInv, FormTyped, Record, Never
  <2>2. /\ n \notin Ids /\ Ids' = Ids \cup {n}
        /\ \A i \in Ids : attempts'[i] = attempts[i]
        /\ attempts'[n] = [successful |-> ok, at |-> stamp[c], until |-> until]
        /\ BlockIds' = BlockIds \cup (IF until = Never THEN {} ELSE {n})
        /\ stamp[c] \in 1..clock
    BY Recorded
  <2> QED BY <2>1, <2>2
<1>2. /\ BlockIds \subseteq Ids
      /\ \A i \in Ids : /\ attempts[i].at \in Nat /\ attempts[i].until \in Nat
                        /\ i \in Nat /\ i < n
  BY FormRows DEF FormInv
<1>3. n \in Nat
  BY FormRows DEF FormInv
<1>4. \A i, k \in Ids : Newer(i, k)' <=> Newer(i, k)
  BY <1>1 DEF Newer
<1>5. \A k \in Ids : /\ Newer(n, k)' <=> stamp[c] >= attempts[k].at
                     /\ Newer(k, n)' <=> attempts[k].at > stamp[c]
  BY <1>1, <1>2, <1>3 DEF Newer
<1>6. CASE \A k \in BlockIds : attempts[k].at <= stamp[c]
  <2>1. \A k \in BlockIds' \ {n} :
          Newer(n, k)' /\ attempts'[k].until <= attempts'[n].until
    BY <1>1, <1>2, <1>5, <1>6
  <2> QED BY <1>1, <2>1 DEF NewestInv
<1>7. ASSUME NEW i \in BlockIds, attempts[i].until = until,
             \A k \in BlockIds \ {i} : Newer(i, k)
      PROVE  NewestInv'
  <2>1. CASE attempts[i].at > stamp[c]
    <3>1. \A k \in BlockIds' \ {i} :
            Newer(i, k)' /\ attempts'[k].until <= attempts'[i].until
      BY <1>1, <1>2, <1>4, <1>5, <1>7, <2>1
    <3> QED BY <1>1, <3>1 DEF NewestInv
  <2>2. CASE attempts[i].at <= stamp[c]
    <3>1. \A k \in BlockIds : attempts[k].at <= stamp[c]
      <4>1. \A k \in BlockIds : attempts[k].at <= attempts[i].at
        BY <1>2, <1>7 DEF Newer
      <4> QED BY <1>1, <1>2, <2>2, <4>1
    <3> QED BY <1>6, <3>1
  <2> QED BY <1>1, <1>2, <2>1, <2>2
<1> QED BY <1>6, <1>7

(* A row written keeps the counts, given what it is to the row of failures.   *)
LEMMA StreakRecorded ==
  ASSUME FormInv, NEW c \in Threads, NEW ok \in BOOLEAN, NEW until \in Nat,
         Record(c, ok, until),
         ~reordered => streak' \in Nat /\ streak' < MAXIMUM_FAILED_ATTEMPTS,
         \/ (ok \/ until # Never) /\ (~reordered' => streak' = 0)
         \/ /\ ~ok /\ until = Never /\ streak' = streak + 1
            /\ \A i \in BlockIds : attempts[i].until <= stamp[c]
  PROVE  StreakInv'
<1> SUFFICES ASSUME ~reordered' PROVE StreakInv'
  BY DEF StreakInv
<1> PICK n : n = Len(attempts) + 1
  OBVIOUS
<1>1. /\ Len(attempts') = n /\ n \notin Ids /\ Ids' = Ids \cup {n}
      /\ \A i \in Ids : attempts'[i] = attempts[i]
      /\ attempts'[n] = [successful |-> ok, at |-> stamp[c], until |-> until]
      /\ BlockIds' = BlockIds \cup (IF until = Never THEN {} ELSE {n})
      /\ stamp[c] \in 1..clock
  BY Recorded
<1>2. /\ Ids = 1..Len(attempts) /\ Len(attempts) \in Nat
      /\ \A i \in Ids : attempts[i].at \in Nat
      /\ BlockIds \subseteq Ids /\ clock \in Nat
  BY FormRows DEF FormInv, FormTyped
<1>3. ~reordered /\ \A i \in Ids : attempts[i].at <= stamp[c]
  <2>1. ~reordered /\ ~\E i \in Ids : attempts[i].at > stamp[c]
    BY DEF Record
  <2> QED BY <1>1, <1>2, <2>1
<1>4. /\ streak \in Nat /\ streak <= Len(attempts)
      /\ \A i, k \in Ids : i <= k => attempts[i].at <= attempts[k].at
      /\ \A i \in Ids : i + streak > Len(attempts) => PlainFailure(i)
      /\ Len(attempts) > streak => ~PlainFailure(Len(attempts) - streak)
  BY <1>3 DEF FormInv, FormTyped, StreakInv
<1>5. /\ n = Len(attempts) + 1
      /\ attempts'[n].successful = ok /\ attempts'[n].at = stamp[c]
      /\ attempts'[n].until = until
  BY <1>1
<1>6. \A i, k \in Ids' : i <= k => attempts'[i].at <= attempts'[k].at
  BY <1>1, <1>2, <1>3, <1>4, <1>5
<1>7. /\ \A i \in Ids : PlainFailure(i)' <=> PlainFailure(i)
      /\ PlainFailure(n)' <=> ~ok /\ until = Never
  BY <1>1, <1>5 DEF PlainFailure, Never
<1>8. streak' \in Nat /\ streak' < MAXIMUM_FAILED_ATTEMPTS
  BY <1>3
<1>9. CASE (ok \/ until # Never) /\ streak' = 0
  <2>1. (~PlainFailure(Len(attempts) - streak))'
    <3>1. (Len(attempts) - streak)' = n
      BY <1>1, <1>2, <1>5, <1>9
    <3> QED BY <1>7, <1>9, <3>1
  <2>2. /\ streak' <= Len(attempts')
        /\ \A i \in Ids' : ~(i + streak' > Len(attempts'))
        /\ Len(attempts') - streak' = n
        /\ ~(streak' > 0)
    BY <1>1, <1>2, <1>5, <1>9
  <2> QED BY <1>6, <1>8, <2>1, <2>2 DEF StreakInv
<1>10. CASE /\ ~ok /\ until = Never /\ streak' = streak + 1
            /\ \A i \in BlockIds : attempts[i].until <= stamp[c]
  <2>1. streak' <= Len(attempts')
    BY <1>1, <1>2, <1>4, <1>5, <1>10
  <2>2. \A i \in Ids' : i + streak' > Len(attempts') => PlainFailure(i)'
    BY <1>1, <1>2, <1>4, <1>5, <1>7, <1>10
  <2>3. (Len(attempts) > streak => ~PlainFailure(Len(attempts) - streak))'
    <3> SUFFICES ASSUME Len(attempts') > streak'
                 PROVE  (~PlainFailure(Len(attempts) - streak))'
      OBVIOUS
    <3> PICK p : p = Len(attempts) - streak
      OBVIOUS
    <3>1. p \in Ids /\ ~PlainFailure(p) /\ (Len(attempts) - streak)' = p
      BY <1>1, <1>2, <1>4, <1>5, <1>10
    <3> QED BY <1>7, <3>1
  <2>4. \A i \in BlockIds' : attempts'[i].until <= attempts'[Len(attempts')].at
    BY <1>1, <1>2, <1>5, <1>10
  <2> QED BY <1>6, <1>8, <2>1, <2>2, <2>3, <2>4 DEF StreakInv
<1> QED BY <1>9, <1>10

(* A row without a block leaves the newest one.                              *)
LEMMA SameBlocks ==
  ASSUME FormInv, NEW c \in Threads, NEW ok \in BOOLEAN, NEW until \in Nat,
         Record(c, ok, until), until = Never
  PROVE  NewestInv'
<1>1. /\ \A i \in Ids : attempts'[i] = attempts[i]
      /\ BlockIds' = BlockIds /\ BlockIds \subseteq Ids
  <2> PICK n : n = Len(attempts) + 1
    OBVIOUS
  <2>1. /\ \A i \in Ids : attempts'[i] = attempts[i]
        /\ BlockIds' = BlockIds \cup (IF until = Never THEN {} ELSE {n})
    BY Recorded
  <2>2. BlockIds \subseteq Ids
    BY FormRows DEF FormInv
  <2> QED BY <2>1, <2>2
<1>2. \A i, k \in Ids : Newer(i, k)' <=> Newer(i, k)
  BY <1>1 DEF Newer
<1>3. CASE BlockIds = {}
  BY <1>1, <1>3 DEF NewestInv
<1>4. ASSUME NEW i \in BlockIds,
             \A k \in BlockIds \ {i} :
               Newer(i, k) /\ attempts[k].until <= attempts[i].until
      PROVE  NewestInv'
  <2>1. \A k \in BlockIds' \ {i} :
          Newer(i, k)' /\ attempts'[k].until <= attempts'[i].until
    BY <1>1, <1>2, <1>4
  <2> QED BY <1>1, <2>1 DEF NewestInv
<1> QED BY <1>3, <1>4 DEF FormInv, NewestInv

(* An attempt is written: what is left to show is that of its own kind.       *)
LEMMA RowKeeps ==
  ASSUME FormInv, NEW c \in Threads, NEW ok \in BOOLEAN, NEW until \in Nat,
         Record(c, ok, until), streak' \in Nat, lastFailure' \in Nat,
         lastFailure' >= lastFailure,
         until # Never =>
           until > stamp[c] /\ until <= lastFailure' + LOGIN_BLOCK_DURATION,
         LOGIN_BLOCK_DURATION \in Nat
  PROVE  FormTyped' /\ EndInv'
<1> PICK n : n = Len(attempts) + 1
  OBVIOUS
<1>1. /\ attempts' \in Seq(AttemptRow)
      /\ n \notin Ids /\ Ids' = Ids \cup {n}
      /\ \A i \in Ids : attempts'[i] = attempts[i]
      /\ attempts'[n] = [successful |-> ok, at |-> stamp[c], until |-> until]
      /\ BlockIds' = BlockIds \cup (IF until = Never THEN {} ELSE {n})
      /\ stamp[c] \in 1..clock
  BY Recorded
<1>2. attempts'[n].at = stamp[c] /\ attempts'[n].until = until
  BY <1>1
<1>3. /\ stamp' = [stamp EXCEPT ![c] = NoAttempt] /\ clock' = clock
      /\ reordered' \in BOOLEAN
  BY DEF Record, FormInv, FormTyped
<1>4. /\ clock \in Nat /\ lastFailure \in Nat /\ BlockIds \subseteq Ids
      /\ \A d \in Threads : stamp[d] # NoAttempt => stamp[d] \in 1..clock
      /\ stamp = [d \in Threads |-> stamp[d]]
      /\ \A i \in Ids : attempts[i].at \in 1..clock /\ attempts[i].until \in Nat
  BY FormRows DEF FormInv, FormTyped
<1>5. stamp' = [d \in Threads |-> stamp'[d]]
  BY <1>3, <1>4
<1>6. \A d \in Threads : stamp'[d] # NoAttempt => stamp'[d] \in 1..clock'
  BY <1>3, <1>4
<1>7. \A i \in Ids' : attempts'[i].at \in 1..clock'
  BY <1>1, <1>2, <1>3, <1>4
<1>8. FormTyped'
  BY <1>1, <1>3, <1>4, <1>5, <1>6, <1>7 DEF FormTyped
<1>9. ASSUME NEW i \in BlockIds
      PROVE  /\ attempts'[i].until > attempts'[i].at
             /\ attempts'[i].until <= lastFailure' + LOGIN_BLOCK_DURATION
  <2>1. i \in Ids /\ attempts'[i] = attempts[i]
    BY <1>1, <1>4, <1>9
  <2>2. attempts[i].until > attempts[i].at
        /\ attempts[i].until <= lastFailure + LOGIN_BLOCK_DURATION
    BY <1>9 DEF FormInv, EndInv
  <2> QED BY <1>4, <2>1, <2>2
<1>10. EndInv'
  BY <1>1, <1>2, <1>9 DEF EndInv
<1> QED BY <1>8, <1>10

LEMMA RefuseKeeps ==
  ASSUME FormInv, NEW c \in Threads, Refuse(c)
  PROVE  FormInv'
<1> PICK ok \in BOOLEAN : ok = FALSE
  OBVIOUS
<1> PICK until : until = BlockedUntil(stamp[c])
  OBVIOUS
<1>1. /\ Record(c, ok, until) /\ UNCHANGED <<streak, lastFailure>>
      /\ until # Never
  BY DEF Refuse
<1>2. stamp[c] \in 1..clock /\ clock \in Nat /\ streak \in Nat /\ lastFailure \in Nat
  BY DEF Refuse, FormInv, FormTyped
<1>3. /\ until > stamp[c]
      /\ \E i \in BlockIds :
           /\ until = attempts[i].until
           /\ \A k \in BlockIds \ {i} :
                Newer(i, k) /\ attempts[k].until <= attempts[i].until
  BY <1>1, <1>2, Blocked
<1> PICK i \in BlockIds :
           /\ until = attempts[i].until
           /\ \A k \in BlockIds \ {i} :
                Newer(i, k) /\ attempts[k].until <= attempts[i].until
  BY <1>3
<1>4. /\ until \in Nat /\ until <= lastFailure + LOGIN_BLOCK_DURATION
      /\ \A k \in BlockIds : attempts[k].until <= until
  BY FormRows DEF FormInv, EndInv
<1>5. FormTyped' /\ EndInv'
  BY <1>1, <1>2, <1>3, <1>4, RowKeeps, LoginAssumption
<1>6. NewestInv'
  BY <1>1, <1>3, <1>4, BlockRecorded
<1>7. ~reordered' => streak = 0 /\ streak < MAXIMUM_FAILED_ATTEMPTS
  <2>1. SUFFICES ASSUME ~reordered' PROVE streak = 0 /\ streak < MAXIMUM_FAILED_ATTEMPTS
    OBVIOUS
  <2>2. /\ ~reordered /\ Ids = 1..Len(attempts) /\ Len(attempts) \in Nat
        /\ \A k \in Ids : ~(attempts[k].at > stamp[c]) /\ attempts[k].at \in Nat
    BY <1>1, <2>1, FormRows DEF Record, FormInv
  <2>3. /\ streak < MAXIMUM_FAILED_ATTEMPTS /\ streak <= Len(attempts)
        /\ streak > 0 => until <= attempts[Len(attempts)].at
    BY <2>2 DEF FormInv, StreakInv
  <2> QED BY <1>2, <1>3, <1>4, <2>2, <2>3
<1>8. ~reordered => streak < MAXIMUM_FAILED_ATTEMPTS
  BY DEF FormInv, StreakInv
<1>9. StreakInv'
  BY <1>1, <1>2, <1>4, <1>7, <1>8, StreakRecorded
<1> QED BY <1>5, <1>6, <1>9 DEF FormInv

(* Attempts the form lets through find every block over.                     *)
LEMMA Open ==
  ASSUME FormInv, NEW c \in Threads, stamp[c] # NoAttempt,
         BlockedUntil(stamp[c]) = Never
  PROVE  /\ stamp[c] \in 1..clock /\ stamp[c] \in Nat /\ clock \in Nat
         /\ \A k \in BlockIds : attempts[k].until <= stamp[c] /\ attempts[k].at <= stamp[c]
<1>1. stamp[c] \in 1..clock /\ clock \in Nat
  BY DEF FormInv, FormTyped
<1>2. \A k \in BlockIds : attempts[k].until <= stamp[c]
  BY <1>1, Blocked
<1>3. \A k \in BlockIds :
        /\ attempts[k].until > attempts[k].at
        /\ attempts[k].until \in Nat /\ attempts[k].at \in Nat
  BY FormRows DEF FormInv, EndInv
<1> QED BY <1>1, <1>2, <1>3

LEMMA SucceedKeeps ==
  ASSUME FormInv, NEW c \in Threads, Succeed(c)
  PROVE  FormInv'
<1> PICK ok \in BOOLEAN : ok = TRUE
  OBVIOUS
<1> PICK until \in Nat : until = Never
  BY DEF Never
<1>1. Record(c, ok, until)
  BY DEF Succeed
<1>2. /\ streak' = 0 /\ streak' \in Nat
      /\ lastFailure' = lastFailure /\ lastFailure' \in Nat /\ lastFailure' >= lastFailure
  BY DEF Succeed, FormInv, FormTyped
<1>3. FormTyped' /\ EndInv'
  BY <1>1, <1>2, RowKeeps, LoginAssumption
<1>4. NewestInv'
  BY <1>1, SameBlocks
<1>5. StreakInv'
  <2>1. streak' < MAXIMUM_FAILED_ATTEMPTS
    BY <1>2, LoginAssumption
  <2>2. (ok \/ until # Never) /\ (~reordered' => streak' = 0)
    BY <1>2
  <2> QED BY <1>1, <1>2, <2>1, <2>2, StreakRecorded
<1> QED BY <1>3, <1>4, <1>5 DEF FormInv

LEMMA FailOnceKeeps ==
  ASSUME FormInv, NEW c \in Threads, FailOnce(c)
  PROVE  FormInv'
<1> PICK ok \in BOOLEAN : ok = FALSE
  OBVIOUS
<1> PICK until \in Nat : until = Never
  BY DEF Never
<1>1. /\ Record(c, ok, until) /\ stamp[c] # NoAttempt
      /\ BlockedUntil(stamp[c]) = Never
  BY DEF FailOnce
<1>2. /\ stamp[c] \in Nat
      /\ \A k \in BlockIds : attempts[k].until <= stamp[c]
  BY <1>1, Open
<1>3. /\ streak' = streak + 1 /\ streak' \in Nat
      /\ lastFailure' \in Nat /\ lastFailure' >= lastFailure
  BY <1>2 DEF FailOnce, WrongPassword, FormInv, FormTyped
<1>4. FormTyped' /\ EndInv'
  BY <1>1, <1>3, RowKeeps, LoginAssumption
<1>5. NewestInv'
  BY <1>1, SameBlocks
<1>6. ~reordered => streak' < MAXIMUM_FAILED_ATTEMPTS
  <2>1. ~reordered => ~(streak + 1 >= MAXIMUM_FAILED_ATTEMPTS)
    BY FailuresCounted DEF FailOnce, Reached
  <2> QED BY <1>3, <2>1, LoginAssumption
<1>7. StreakInv'
  <2>1. ~ok
    OBVIOUS
  <2> QED BY <1>1, <1>2, <1>3, <1>6, <2>1, StreakRecorded
<1> QED BY <1>4, <1>5, <1>7 DEF FormInv

LEMMA BlockKeeps ==
  ASSUME FormInv, NEW c \in Threads, Block(c)
  PROVE  FormInv'
<1> PICK ok \in BOOLEAN : ok = FALSE
  OBVIOUS
<1>1. /\ stamp[c] # NoAttempt /\ BlockedUntil(stamp[c]) = Never
  BY DEF Block
<1>2. /\ stamp[c] \in 1..clock /\ stamp[c] \in Nat /\ clock \in Nat
      /\ \A k \in BlockIds : attempts[k].until <= stamp[c] /\ attempts[k].at <= stamp[c]
  BY <1>1, Open
<1>3. stamp[c] + LOGIN_BLOCK_DURATION \in Nat
  BY <1>2, LoginAssumption
<1> PICK until \in Nat : until = stamp[c] + LOGIN_BLOCK_DURATION
  BY <1>3
<1>4. Record(c, ok, until) /\ streak' = 0 /\ WrongPassword(c)
  BY DEF Block
<1>5. /\ lastFailure' \in Nat /\ lastFailure' >= lastFailure /\ lastFailure' >= stamp[c]
  BY <1>2, <1>4 DEF WrongPassword, FormInv, FormTyped
<1>6. /\ until > stamp[c] /\ until # Never
      /\ until <= lastFailure' + LOGIN_BLOCK_DURATION
      /\ \A k \in BlockIds : attempts[k].until <= until
  <2>1. \A k \in BlockIds : attempts[k].until \in Nat
    BY FormRows DEF FormInv
  <2> QED BY <1>2, <1>5, <2>1, LoginAssumption DEF Never
<1>7. FormTyped' /\ EndInv'
  BY <1>4, <1>5, <1>6, RowKeeps, LoginAssumption
<1>8. NewestInv'
  BY <1>2, <1>4, <1>6, BlockRecorded
<1>9. StreakInv'
  <2>1. streak' \in Nat /\ streak' < MAXIMUM_FAILED_ATTEMPTS
    BY <1>4, LoginAssumption
  <2> QED BY <1>4, <1>6, <2>1, StreakRecorded
<1> QED BY <1>7, <1>8, <1>9 DEF FormInv

LEMMA FormStep == FormInv /\ [LoginNext]_loginVars => FormInv'
<1> SUFFICES ASSUME FormInv, [LoginNext]_loginVars PROVE FormInv'
  OBVIOUS
<1>1. ASSUME UNCHANGED <<attempts, streak, lastFailure, reordered>>,
             clock' \in Nat, clock' >= clock, stamp' = [d \in Threads |-> stamp'[d]],
             \A d \in Threads : stamp'[d] # NoAttempt => stamp'[d] \in 1..clock'
      PROVE  FormInv'
  <2>1. /\ Ids' = Ids /\ BlockIds' = BlockIds
        /\ \A i, k : Newer(i, k)' <=> Newer(i, k)
        /\ \A i : PlainFailure(i)' <=> PlainFailure(i)
    BY <1>1 DEF Ids, BlockIds, Newer, PlainFailure, Never
  <2>2. FormTyped'
    BY <1>1, <2>1 DEF FormInv, FormTyped
  <2>3. EndInv' /\ NewestInv'
    BY <1>1, <2>1 DEF FormInv, EndInv, NewestInv
  <2>4. StreakInv'
    <3> PICK p : p = Len(attempts) - streak
      OBVIOUS
    <3>1. (Len(attempts) - streak)' = p
      BY <1>1
    <3>2. (~PlainFailure(Len(attempts) - streak))' <=> ~PlainFailure(p)
      BY <2>1, <3>1
    <3> QED BY <1>1, <2>1, <3>2 DEF FormInv, StreakInv
  <2> QED BY <2>2, <2>3, <2>4 DEF FormInv
<1>2. CASE Tick
  BY <1>1, <1>2 DEF Tick, FormInv, FormTyped
<1>3. ASSUME NEW c \in Threads, Arrive(c) PROVE FormInv'
  <2>1. clock \in Nat /\ clock >= 1
    <3>1. clock \in Nat /\ clock # 0
      BY DEF FormInv, FormTyped
    <3> QED BY <3>1
  <2>2. stamp' = [stamp EXCEPT ![c] = clock] /\ stamp = [d \in Threads |-> stamp[d]]
    BY <1>3 DEF Arrive, FormInv, FormTyped
  <2>3. /\ stamp' = [d \in Threads |-> stamp'[d]]
        /\ \A d \in Threads : stamp'[d] # NoAttempt => stamp'[d] \in 1..clock
    BY <2>1, <2>2 DEF FormInv, FormTyped
  <2> QED BY <1>1, <1>3, <2>1, <2>3 DEF Arrive
<1>4. CASE UNCHANGED loginVars
  BY <1>1, <1>4 DEF loginVars, FormInv, FormTyped
<1> QED
  BY <1>2, <1>3, <1>4, RefuseKeeps, SucceedKeeps, FailOnceKeeps, BlockKeeps DEF LoginNext

LEMMA FormAlways == LoginSpec => []FormInv
BY FormInit, FormStep, PTL DEF LoginSpec

(* For any number of threads, of attempts and of failures allowed: no block   *)
(* ends later than one from the last wrong password on would, whatever late   *)
(* or refused attempts follow it (auth/service.py: a refused attempt is       *)
(* written with the end of the block it met).                                *)
THEOREM BlocksAreNeverProlonged ==
  LoginSpec => []BlocksAreNotProlonged
<1>1. FormInv => BlocksAreNotProlonged
  BY DEF FormInv, EndInv, BlocksAreNotProlonged
<1> QED BY <1>1, FormAlways, PTL

(* For any number of threads: an attempt succeeds only when every block made  *)
(* so far is over, although only the newest one is looked at and attempts     *)
(* commit in another order than they arrived in (auth/service.py).           *)
THEOREM NobodyEntersDuringABlock ==
  LoginSpec => NoSuccessDuringBlock
<1>1. FormInv /\ [LoginNext]_loginVars =>
        [\A c \in Threads :
           Succeed(c) => \A i \in Ids : attempts[i].until <= clock]_loginVars
  <2> SUFFICES ASSUME FormInv, NEW c \in Threads, Succeed(c), NEW i \in Ids
               PROVE  attempts[i].until <= clock
    OBVIOUS
  <2>1. /\ stamp[c] \in 1..clock /\ clock \in Nat
        /\ \A k \in BlockIds : attempts[k].until <= stamp[c]
    BY Open DEF Succeed
  <2>2. attempts[i].until \in Nat
    BY FormRows DEF FormInv
  <2> QED BY <2>1, <2>2 DEF BlockIds, Never
<1> QED BY <1>1, FormAlways, PTL DEF LoginSpec, NoSuccessDuringBlock

(* For any number of failures allowed: as long as attempts commit in the      *)
(* order of their times, a block follows exactly that many failures since the *)
(* last success or block (auth/service.py counts them back from the newest).  *)
THEOREM FailuresAreCountedExactly ==
  LoginSpec => CountIsExact
<1>1. FormInv /\ [LoginNext]_loginVars =>
        [\A c \in Threads :
           /\ Block(c) /\ ~reordered' => streak + 1 = MAXIMUM_FAILED_ATTEMPTS
           /\ FailOnce(c) /\ ~reordered' =>
                streak + 1 < MAXIMUM_FAILED_ATTEMPTS]_loginVars
  <2> SUFFICES ASSUME FormInv, NEW c \in Threads, Block(c) \/ FailOnce(c),
                      ~reordered'
               PROVE  /\ Block(c) => streak + 1 = MAXIMUM_FAILED_ATTEMPTS
                      /\ FailOnce(c) => streak + 1 < MAXIMUM_FAILED_ATTEMPTS
    OBVIOUS
  <2>1. ~reordered
    BY DEF Block, FailOnce, Record
  <2>2. streak < MAXIMUM_FAILED_ATTEMPTS /\ streak \in Nat
    BY <2>1 DEF FormInv, FormTyped, StreakInv
  <2>3. Reached <=> streak + 1 >= MAXIMUM_FAILED_ATTEMPTS
    BY <2>1, FailuresCounted DEF Reached
  <2>4. (Block(c) => Reached) /\ (FailOnce(c) => ~Reached)
    BY DEF Block, FailOnce
  <2>5. MAXIMUM_FAILED_ATTEMPTS \in Nat
    BY LoginAssumption
  <2> QED BY <2>2, <2>3, <2>4, <2>5
<1> QED BY <1>1, FormAlways, PTL DEF LoginSpec, CountIsExact
=============================================================================
