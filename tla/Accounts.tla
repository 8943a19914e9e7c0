-------------------------------- MODULE Accounts --------------------------------
(***************************************************************************)
(* Users and their sessions.  A request is resolved to a principal in one   *)
(* transaction and handled in a later one, with the role the principal had  *)
(* then.  Handlers write under BEGIN IMMEDIATE and are one step; the reset  *)
(* from the terminal reads first and writes later.  Whether a password is   *)
(* accepted is the business of LoginProtection.                             *)
(***************************************************************************)
EXTENDS Naturals, FiniteSets

CONSTANTS
  Users,          \* usernames
  Requests,       \* threads of the web process
  MaxSessions,    \* bound: sessions ever issued
  NoRequest,      \* a thread without a request
  NoReset         \* no reset from the terminal under way

ASSUME AccountsAssumption == MaxSessions \in Nat /\ IsFiniteSet(Users)

SessionIds == 1..MaxSessions
Roles == {"ADMIN", "USER"}

VARIABLES
  user,          \* rows of users
  session,       \* rows of sessions
  lastSession,   \* highest session id issued
  request,       \* the principal each thread resolved
  reset,         \* what the terminal's reset has read
  missed         \* history: sessions issued while a reset was under way

vars == <<user, session, lastSession, request, reset, missed>>

(* "chosen": who set the password, its owner or an administrator.            *)
UserRow == [role : Roles, active : BOOLEAN, temporary : BOOLEAN,
            chosen : {"owner", "administrator"}]
NoUser == [role |-> "NONE"]

(* "outdated": the role, status or password changed since it was issued.     *)
SessionRow == [user : Users, revoked : BOOLEAN, expired : BOOLEAN, outdated : BOOLEAN]
NoSession == [user |-> "NONE"]

Principal == [session : SessionIds, user : Users, role : Roles, temporary : BOOLEAN]

Exists(u) == user[u] # NoUser
Issued == 1..lastSession
Administrators == {u \in Users : Exists(u) /\ user[u].role = "ADMIN" /\ user[u].active}

Init ==
  /\ user = [u \in Users |-> NoUser]
  /\ session = [s \in SessionIds |-> NoSession]
  /\ lastSession = 0
  /\ request = [c \in Requests |-> NoRequest]
  /\ reset = NoReset
  /\ missed = {}

-----------------------------------------------------------------------------
(* Sessions. *)

UnrevokedOf(u) == {s \in Issued : session[s].user = u /\ ~session[s].revoked}

(* The sessions of u after a change of u that revokes those in S.            *)
Superseded(u, S) ==
  [s \in SessionIds |->
     IF s \notin Issued \/ session[s].user # u THEN session[s]
     ELSE [session[s] EXCEPT !.outdated = TRUE, !.revoked = @ \/ s \in S]]

(* A login the password was right for, and the session issued with it.       *)
Login(u) ==
  /\ Exists(u) /\ user[u].active
  /\ lastSession < MaxSessions
  /\ lastSession' = lastSession + 1
  /\ session' = [session EXCEPT ![lastSession'] =
                   [user |-> u, revoked |-> FALSE, expired |-> FALSE, outdated |-> FALSE]]
  /\ missed' = IF reset # NoReset /\ reset.user = u
                 THEN missed \cup {lastSession'} ELSE missed
  /\ UNCHANGED <<user, request, reset>>

(* Eight hours in all or one hour without a request.                         *)
Expire(s) ==
  /\ ~session[s].expired
  /\ session' = [session EXCEPT ![s].expired = TRUE]
  /\ UNCHANGED <<user, lastSession, request, reset, missed>>

Usable(s) == ~session[s].revoked /\ ~session[s].expired /\ user[session[s].user].active

(* The middleware; a session found expired is revoked for good.              *)
Resolve(c, s) ==
  /\ request[c] = NoRequest
  /\ IF Usable(s)
       THEN /\ request' = [request EXCEPT ![c] =
                 [session |-> s, user |-> session[s].user,
                  role |-> user[session[s].user].role,
                  temporary |-> user[session[s].user].temporary]]
            /\ UNCHANGED session
       ELSE /\ session' = [session EXCEPT ![s].revoked = TRUE]
            /\ UNCHANGED request
  /\ UNCHANGED <<user, lastSession, reset, missed>>

-----------------------------------------------------------------------------
(* Handlers. *)

Answer(c) ==
  /\ request[c] # NoRequest
  /\ request' = [request EXCEPT ![c] = NoRequest]
  /\ UNCHANGED <<lastSession, reset, missed>>

(* Refused (CSRF, validation, a rule below), or nothing to change.           *)
Refused(c) == Answer(c) /\ UNCHANGED <<user, session>>

Logout(c) ==
  /\ Answer(c)
  /\ session' = [session EXCEPT ![request[c].session].revoked = TRUE]
  /\ UNCHANGED user

(* The row of u and, with any change of it, the end of its sessions.         *)
Change(u, row) ==
  /\ user' = [user EXCEPT ![u] = row]
  /\ session' = Superseded(u, UnrevokedOf(u))

(* The current password was right and the new one is another.                *)
UpdateOwnPassword(c) ==
  /\ Answer(c)
  /\ LET u == request[c].user IN
       /\ user[u].active
       /\ Change(u, [user[u] EXCEPT !.chosen = "owner", !.temporary = FALSE])

(* /users is for administrators without a temporary password, and not for    *)
(* changes of one's own row.                                                 *)
Manages(c, u) ==
  /\ Answer(c)
  /\ request[c].role = "ADMIN" /\ ~request[c].temporary
  /\ u # request[c].user

CreateUser(c, u) ==
  /\ Manages(c, u)
  /\ ~Exists(u)
  /\ \E role \in Roles :
       user' = [user EXCEPT ![u] = [role |-> role, active |-> TRUE, temporary |-> TRUE,
                                    chosen |-> "administrator"]]
  /\ UNCHANGED session

(* Mutant of AnotherAdministrator: accounts that cannot log in are counted.  *)
AnotherAdministratorOnRecord(u) ==
  user[u].active => Cardinality({v \in Users : user[v].role = "ADMIN"}) > 1

AnotherAdministrator(u) == user[u].active => Cardinality(Administrators) > 1

(* Mutant of ChangeRole: the sessions keep the role they were issued with.   *)
ChangeRoleOnly(c, u) ==
  /\ Manages(c, u)
  /\ Exists(u)
  /\ \E role \in Roles \ {user[u].role} :
       /\ role # "ADMIN" => AnotherAdministrator(u)
       /\ user' = [user EXCEPT ![u].role = role]
       /\ session' = Superseded(u, {})

ChangeRole(c, u) ==
  /\ Manages(c, u)
  /\ Exists(u)
  /\ \E role \in Roles \ {user[u].role} :
       /\ role # "ADMIN" => AnotherAdministrator(u)
       /\ Change(u, [user[u] EXCEPT !.role = role])

SetActive(c, u) ==
  /\ Manages(c, u)
  /\ Exists(u)
  /\ user[u].active /\ user[u].role = "ADMIN" => AnotherAdministrator(u)
  /\ Change(u, [user[u] EXCEPT !.active = ~@])

ResetPassword(c, u) ==
  /\ Manages(c, u)
  /\ Exists(u)
  /\ Change(u, [user[u] EXCEPT !.chosen = "administrator", !.temporary = TRUE])

Handler(c) ==
  \/ Refused(c) \/ Logout(c) \/ UpdateOwnPassword(c)
  \/ \E u \in Users : CreateUser(c, u) \/ ChangeRole(c, u) \/ SetActive(c, u)
                        \/ ResetPassword(c, u)

-----------------------------------------------------------------------------
(* The terminal. *)

CreateAdministrator(u) ==
  /\ \A v \in Users : ~Exists(v)
  /\ user' = [user EXCEPT ![u] = [role |-> "ADMIN", active |-> TRUE, temporary |-> FALSE,
                                  chosen |-> "owner"]]
  /\ UNCHANGED <<session, lastSession, request, reset, missed>>

(* The row and its open sessions are read without a transaction.             *)
ReadForReset(u) ==
  /\ reset = NoReset
  /\ Exists(u) /\ user[u].role = "ADMIN"
  /\ reset' = [user |-> u, temporary |-> user[u].temporary, open |-> UnrevokedOf(u)]
  /\ UNCHANGED <<user, session, lastSession, request, missed>>

(* Only columns that differ from what was read are written.                  *)
WriteReset ==
  /\ reset # NoReset
  /\ LET u == reset.user IN
       /\ user' = [user EXCEPT ![u].chosen = "owner",
                               ![u].temporary = @ /\ ~reset.temporary]
       /\ session' = Superseded(u, reset.open)
  /\ reset' = NoReset
  /\ UNCHANGED <<lastSession, request, missed>>

-----------------------------------------------------------------------------
Next ==
  \/ \E u \in Users : Login(u) \/ CreateAdministrator(u) \/ ReadForReset(u)
  \/ \E s \in Issued : Expire(s) \/ \E c \in Requests : Resolve(c, s)
  \/ \E c \in Requests : Handler(c)
  \/ WriteReset

Spec == Init /\ [][Next]_vars
-----------------------------------------------------------------------------
(* Every variable has its type, and every session belongs to an account.     *)
TypeOK ==
  /\ user \in [Users -> UserRow \cup {NoUser}]
  /\ lastSession \in 0..MaxSessions
  /\ \A s \in SessionIds : session[s] \in IF s \in Issued THEN SessionRow ELSE {NoSession}
  /\ \A s \in Issued : Exists(session[s].user)
  /\ request \in [Requests -> Principal \cup {NoRequest}]
  /\ reset \in [user : Users, temporary : BOOLEAN, open : SUBSET SessionIds] \cup {NoReset}
  /\ missed \subseteq SessionIds

(* Once there is an administrator there always is an active one, also when   *)
(* administrators who have just been demoted or deactivated go on with       *)
(* requests that were resolved before (SPECIFICATION.md:316).                *)
AdministratorRemains == (\E u \in Users : Exists(u)) => Administrators # {}

(* An open session was issued for the role, the status and the password its  *)
(* user has now, whatever changed them (security.md:28).  The exception is a *)
(* login with the old password between the two steps of a terminal reset.    *)
SessionsFollowAccounts ==
  \A s \in Issued :
    ~session[s].revoked => ~session[s].outdated \/ s \in missed

=============================================================================
