------------------------------ MODULE Accounts ------------------------------
(***************************************************************************)
(* Local accounts: the rows of local_users and api_tokens, the sessions in *)
(* Redis, logins and password changes as the separate statements they are, *)
(* the superadmin's endpoints, and the start of server replicas on an      *)
(* empty database. A user id is a uuid and never used twice; is_superadmin *)
(* never changes, so it is not copied. What a password consists of is left *)
(* out: it is known by who set it, and a login types the right one or not. *)
(***************************************************************************)
EXTENDS Naturals, FiniteSets

CONSTANTS
  User,            \* ids of local_users rows
  Session,         \* session tokens Redis holds at once
  Token,           \* API tokens
  Request,         \* logins and password changes in progress at once
  Server,          \* server replicas
  Nobody,          \* no user, no session
  MaxFailed,       \* values the superadmin gives max_failed_attempts
  LockoutDuration, \* lockout_duration_minutes, in clock units
  SessionTTL,      \* sessionTTL, in clock units
  Injected,        \* is WACHD_INITIAL_ADMIN_PASSWORD set?
  NewSuper,        \* values of is_superadmin the superadmin gives new users
  MaxWrong         \* bound: wrong passwords that are typed

ASSUME AccountsAssumption ==
  /\ Nobody \notin User \cup Session
  /\ MaxFailed \subseteq Nat
  /\ LockoutDuration \in Nat \ {0} /\ SessionTTL \in Nat \ {0}
  /\ Injected \in BOOLEAN /\ NewSuper \subseteq BOOLEAN /\ MaxWrong \in Nat
  /\ "set" \notin Server
  /\ IsFiniteSet(Request)

VARIABLES
  users,           \* local_users: id -> row
  tokens,          \* api_tokens: id -> owner, Nobody if there is no row
  sessions,        \* Redis: token -> session
  policy,          \* max_failed_attempts of the password_policy row
  requests,        \* handlers in progress
  servers,         \* how far each replica's start is
  chosen,          \* history: users who have set their own password
  wrong,           \* history: wrong passwords typed for each account
  printed,         \* history: <<user, password>> the bootstrap has printed
  crossed          \* history: sessions saved by the change of the password
                   \* of a user who does not own them

vars == <<users, tokens, sessions, policy, requests, servers, chosen, wrong, printed, crossed>>

(* A time is kept as what is left of it, in units far longer than a        *)
(* request: locked is locked_until, 0 when NULL or past. password is who   *)
(* set it: the replica that generated it, or a person or the environment.  *)
UserRow == [status : {"absent", "active", "inactive", "deleted"},
            root : BOOLEAN,                      \* username wachd_admin
            super : BOOLEAN, force : BOOLEAN,
            password : Server \cup {"set"},
            failed : Nat, locked : Nat]

SessionRow == [user : User \cup {Nobody}, force : BOOLEAN,
               expiresAt : Nat, ttl : Nat]       \* ttl: what Redis gives its key

(* The copy a handler works on: of the user's row, later of the session. *)
RequestState == [pc : {"idle", "policy", "fail", "reset", "create",
                       "write", "save"},
                 user : User \cup {Nobody},
                 force : BOOLEAN, failed : Nat, locked : Nat,
                 session : Session \cup {Nobody}, copy : SessionRow]

NoSession == [user |-> Nobody, force |-> FALSE, expiresAt |-> 0, ttl |-> 0]

NoUser == [status |-> "absent", root |-> FALSE, super |-> FALSE, force |-> FALSE,
           password |-> "set", failed |-> 0, locked |-> 0]

Idle == [pc |-> "idle", user |-> Nobody, force |-> FALSE,
         failed |-> 0, locked |-> 0, session |-> Nobody, copy |-> NoSession]

ServerState == {"countUsers", "createAdmin", "up"}

TypeOK ==
  /\ users \in [User -> UserRow]
  /\ tokens \in [Token -> User \cup {Nobody}]
  /\ sessions \in [Session -> SessionRow]
  /\ policy \in MaxFailed
  /\ requests \in [Request -> RequestState]
  /\ servers \in [Server -> ServerState]
  /\ chosen \subseteq User
  /\ wrong \in [User -> Nat]
  /\ printed \subseteq User \X Server
  /\ crossed \subseteq Session
  /\ \A r \in Request :
       /\ requests[r].pc # "idle" => requests[r].user \in User
       /\ requests[r].pc = "save" => requests[r].session \in Session

Init ==
  /\ users = [u \in User |-> NoUser]
  /\ tokens = [t \in Token |-> Nobody]
  /\ sessions = [s \in Session |-> NoSession]
  /\ policy \in MaxFailed
  /\ requests = [r \in Request |-> Idle]
  /\ servers = [v \in Server |-> "countUsers"]
  /\ chosen = {} /\ wrong = [u \in User |-> 0] /\ printed = {}
  /\ crossed = {}

----------------------------------------------------------------------------
(* The tables and Redis *)

Exists(u) == users[u].status \in {"active", "inactive"}

(* An UPDATE of a row that is gone changes nothing. *)
UpdateRow(u, row) == users' = [users EXCEPT ![u] = IF Exists(u) THEN row ELSE @]

CreateLocalUser(u, root, super, force, password) ==
  /\ users[u].status = "absent"
  /\ users' = [users EXCEPT ![u] =
                 [status |-> "active", root |-> root, super |-> super, force |-> force,
                  password |-> password, failed |-> 0, locked |-> 0]]

UpdatePasswordHash(u, force) ==
  UpdateRow(u, [users[u] EXCEPT !.password = "set", !.force = force,
                                !.failed = 0, !.locked = 0])

(* failed_login_attempts grows from what the row holds, locked_until is    *)
(* what the caller computed from the row it read, NULL included.           *)
IncrementFailedAttempts(u, lockUntil) ==
  UpdateRow(u, [users[u] EXCEPT !.failed = @ + 1, !.locked = lockUntil])

ResetFailedAttempts(u) ==
  UpdateRow(u, [users[u] EXCEPT !.failed = 0, !.locked = 0])

(* SessionStore.Get: Redis drops a key when its time is over. *)
Valid(s) == sessions[s] # NoSession

(* SessionStore.Create: a new random token, so one that nothing refers to. *)
CreateSession(s, u, force) ==
  /\ ~Valid(s)
  /\ \A r \in Request : requests[r].session # s
  /\ sessions' = [sessions EXCEPT ![s] =
                    [user |-> u, force |-> force,
                     expiresAt |-> SessionTTL, ttl |-> SessionTTL]]

DeleteSession(s) == sessions' = [sessions EXCEPT ![s] = NoSession]

(* GetAPITokenWithUser: a token works while its owner is active. *)
TokenWorks(t) == tokens[t] # Nobody /\ users[tokens[t]].status = "active"

CreateAPIToken(t, u) ==
  /\ Exists(u)                                          \* foreign key
  /\ tokens' = [tokens EXCEPT ![t] = u]

DeleteAPIToken(t) == tokens' = [tokens EXCEPT ![t] = Nobody]

UpdatePasswordPolicy(max) == policy' = max

(* Middleware. A session carries the flags of its login, a token those of  *)
(* the row and never the forced change.                                    *)
BearerOrCookie(u) ==
  {sessions[s].force : s \in {s \in Session : sessions[s].user = u}}
    \cup {FALSE : t \in {t \in Token : TokenWorks(t) /\ tokens[t] = u}}

RequireNoForceChange(u) == FALSE \in BearerOrCookie(u)

RequireSuperAdmin(u) == users[u].super

(* Who may use the admin endpoints. *)
Superadmins == {u \in User : RequireSuperAdmin(u) /\ RequireNoForceChange(u)}

----------------------------------------------------------------------------
(* authenticateLocal *)

(* Bound: the replicas start together, before the first request. *)
ServersUp == \A v \in Server : servers[v] = "up"

(* GetLocalUserByUsername. An unknown, inactive or locked user is turned   *)
(* away; the copy of the row keeps what the rest of the handler uses.      *)
(* Bound: MaxWrong wrong passwords, all for one account.                   *)
LoginLookup(r, u, match) ==
  /\ requests[r] = Idle /\ ServersUp
  /\ users[u].status = "active" /\ users[u].locked = 0
  /\ match \/ (wrong[u] < MaxWrong /\ \A x \in User \ {u} : wrong[x] = 0)
  /\ wrong' = IF match THEN wrong ELSE [wrong EXCEPT ![u] = @ + 1]
  /\ requests' = [requests EXCEPT ![r] =
       IF match THEN [Idle EXCEPT !.pc = "reset", !.user = u, !.force = users[u].force]
                ELSE [Idle EXCEPT !.pc = "policy", !.user = u, !.failed = users[u].failed]]
  /\ UNCHANGED <<users, tokens, sessions, policy, servers, chosen, printed, crossed>>

(* Mutant: without policy.MaxFailedAttempts > 0. *)
LockUntil_ZeroLocks(failed) == IF failed + 1 >= policy THEN LockoutDuration ELSE 0

(* The lock a wrong password brings, from the count that was read. *)
LockUntil(failed) ==
  IF policy > 0 /\ failed + 1 >= policy THEN LockoutDuration ELSE 0

(* A wrong password: the policy that was read decides about the lock. *)
LoginPolicy(r) ==
  /\ requests[r].pc = "policy"
  /\ requests' = [requests EXCEPT ![r] =
       [requests[r] EXCEPT !.pc = "fail", !.failed = 0,
                           !.locked = LockUntil(requests[r].failed)]]
  /\ UNCHANGED <<users, tokens, sessions, policy, servers, chosen, wrong, printed, crossed>>

LoginFail(r) ==
  /\ requests[r].pc = "fail"
  /\ IncrementFailedAttempts(requests[r].user, requests[r].locked)
  /\ requests' = [requests EXCEPT ![r] = Idle]
  /\ UNCHANGED <<tokens, sessions, policy, servers, chosen, wrong, printed, crossed>>

LoginReset(r) ==
  /\ requests[r].pc = "reset"
  /\ ResetFailedAttempts(requests[r].user)
  /\ requests' = [requests EXCEPT ![r].pc = "create"]
  /\ UNCHANGED <<tokens, sessions, policy, servers, chosen, wrong, printed, crossed>>

(* sessions.Create with the flags of the row that was read. *)
LoginCreate(r) ==
  /\ requests[r].pc = "create"
  /\ \E s \in Session :
       /\ CreateSession(s, requests[r].user, requests[r].force)
       /\ crossed' = crossed \ {s}
  /\ requests' = [requests EXCEPT ![r] = Idle]
  /\ UNCHANGED <<users, tokens, policy, servers, chosen, wrong, printed>>

----------------------------------------------------------------------------
(* HandleChangePassword and HandleLogout *)

(* The user is known by an API token, by a session token sent as one or by *)
(* the session cookie, and gives the right current password; an inactive   *)
(* user is not turned away. A request with a token may carry a cookie as   *)
(* well, of anybody's session s; Nobody: it came without.                  *)
ChangeStart(r, u, s) ==
  /\ requests[r] = Idle
  /\ Exists(u)
  /\ BearerOrCookie(u) # {}
  /\ s # Nobody => Valid(s)
  /\ requests' = [requests EXCEPT ![r] =
                    [Idle EXCEPT !.pc = "write", !.user = u, !.session = s]]
  /\ UNCHANGED <<users, tokens, sessions, policy, servers, chosen, wrong, printed, crossed>>

(* Mutant: the session is refreshed although the request had no cookie. *)
ChangeWrite_NoCookie(r) ==
  LET s == requests[r].session
  IN /\ requests[r].pc = "write"
     /\ UpdatePasswordHash(requests[r].user, FALSE)
     /\ chosen' = chosen \cup {requests[r].user}
     /\ requests' = [requests EXCEPT ![r] =
          IF s = Nobody THEN [requests[r] EXCEPT !.pc = "save"]
          ELSE IF Valid(s) THEN [requests[r] EXCEPT !.pc = "save", !.copy = sessions[s]]
          ELSE Idle]
     /\ UNCHANGED <<tokens, sessions, policy, servers, wrong, printed, crossed>>

(* UpdatePasswordHash, then TTL and GET of RefreshSession: what comes in   *)
(* between could as well have come before.                                 *)
ChangeWrite(r) ==
  LET s == requests[r].session
  IN /\ requests[r].pc = "write"
     /\ UpdatePasswordHash(requests[r].user, FALSE)
     /\ chosen' = chosen \cup {requests[r].user}
     /\ requests' = [requests EXCEPT ![r] =
          IF s # Nobody /\ Valid(s) THEN [requests[r] EXCEPT !.pc = "save", !.copy = sessions[s]]
          ELSE Idle]
     /\ UNCHANGED <<tokens, sessions, policy, servers, wrong, printed, crossed>>

(* The session that is saved is the one of the cookie, whoever changed the *)
(* password.                                                               *)
SavedFor(r) ==
  crossed' = IF requests[r].copy.user = requests[r].user THEN crossed
             ELSE crossed \cup {requests[r].session}

(* Mutant: SET with the full session time. *)
RefreshSave_FullTTL(r) ==
  /\ requests[r].pc = "save"
  /\ sessions' = [sessions EXCEPT ![requests[r].session] =
                    [requests[r].copy EXCEPT !.force = FALSE, !.ttl = SessionTTL]]
  /\ SavedFor(r)
  /\ requests' = [requests EXCEPT ![r] = Idle]
  /\ UNCHANGED <<users, tokens, policy, servers, chosen, wrong, printed>>

(* SET with the time that was left. A logout in between is undone. *)
RefreshSave(r) ==
  /\ requests[r].pc = "save"
  /\ sessions' = [sessions EXCEPT ![requests[r].session] =
                    [requests[r].copy EXCEPT !.force = FALSE]]
  /\ SavedFor(r)
  /\ requests' = [requests EXCEPT ![r] = Idle]
  /\ UNCHANGED <<users, tokens, policy, servers, chosen, wrong, printed>>

(* A statement fails, the client goes away or the process dies after the   *)
(* first write; before it, the request might as well not have been made.   *)
RequestFails(r) ==
  /\ requests[r].pc \in {"create", "save"}
  /\ requests' = [requests EXCEPT ![r] = Idle]
  /\ UNCHANGED <<users, tokens, sessions, policy, servers, chosen, wrong, printed, crossed>>

HandleLogout(s) ==
  /\ Valid(s)
  /\ DeleteSession(s)
  /\ UNCHANGED <<users, tokens, policy, requests, servers, chosen, wrong, printed, crossed>>

----------------------------------------------------------------------------
(* The superadmin's endpoints: one statement each *)

HandleCreateUser(u, super) ==
  /\ Superadmins # {}
  /\ CreateLocalUser(u, FALSE, super, TRUE, "set")
  /\ UNCHANGED <<tokens, sessions, policy, requests, servers, chosen, wrong, printed, crossed>>

HandleUpdateUser(u, status) ==
  /\ Superadmins # {}
  /\ Exists(u)
  /\ UpdateRow(u, [users[u] EXCEPT !.status = status])
  /\ UNCHANGED <<tokens, sessions, policy, requests, servers, chosen, wrong, printed, crossed>>

(* The tokens go with the user; the sessions stay in Redis. *)
HandleDeleteUser(u) ==
  /\ Superadmins # {}
  /\ Exists(u)
  /\ UpdateRow(u, [NoUser EXCEPT !.status = "deleted", !.root = users[u].root,
                                 !.super = users[u].super])
  /\ tokens' = [t \in Token |-> IF tokens[t] = u THEN Nobody ELSE tokens[t]]
  /\ UNCHANGED <<sessions, policy, requests, servers, chosen, wrong, printed, crossed>>

(* Mutant: the new password need not be changed. *)
HandleResetPassword_NoForce(u) ==
  /\ Superadmins # {}
  /\ Exists(u)
  /\ UpdatePasswordHash(u, FALSE)
  /\ UNCHANGED <<tokens, sessions, policy, requests, servers, chosen, wrong, printed, crossed>>

HandleResetPassword(u) ==
  /\ Superadmins # {}
  /\ Exists(u)
  /\ UpdatePasswordHash(u, TRUE)
  /\ UNCHANGED <<tokens, sessions, policy, requests, servers, chosen, wrong, printed, crossed>>

HandleUpdatePasswordPolicy(max) ==
  /\ Superadmins # {}
  /\ max # policy
  /\ UpdatePasswordPolicy(max)
  /\ UNCHANGED <<users, tokens, sessions, requests, servers, chosen, wrong, printed, crossed>>

HandleCreateToken(t) ==
  /\ tokens[t] = Nobody
  /\ \E u \in Superadmins : CreateAPIToken(t, u)
  /\ UNCHANGED <<users, sessions, policy, requests, servers, chosen, wrong, printed, crossed>>

HandleDeleteToken(t) ==
  /\ tokens[t] \in Superadmins
  /\ DeleteAPIToken(t)
  /\ UNCHANGED <<users, sessions, policy, requests, servers, chosen, wrong, printed, crossed>>

----------------------------------------------------------------------------
(* The start of a server *)

(* bootstrapAdmin: a count ... *)
CountLocalUsers(v) ==
  /\ servers[v] = "countUsers"
  /\ servers' = [servers EXCEPT ![v] =
                   IF \E u \in User : Exists(u) THEN "up" ELSE "createAdmin"]
  /\ UNCHANGED <<users, tokens, sessions, policy, requests, chosen, wrong, printed, crossed>>

(* Mutant: the password is printed whether or not the row was inserted. *)
BootstrapAdmin_PrintsAlways(v) ==
  /\ servers[v] = "createAdmin"
  /\ \E u \in User :
       \/ /\ \A x \in User : ~(Exists(x) /\ users[x].root)
          /\ CreateLocalUser(u, TRUE, TRUE, ~Injected, IF Injected THEN "set" ELSE v)
          /\ printed' = IF Injected THEN printed ELSE printed \cup {<<u, v>>}
       \/ /\ Exists(u) /\ users[u].root
          /\ printed' = IF Injected THEN printed ELSE printed \cup {<<u, v>>}
          /\ UNCHANGED users
  /\ servers' = [servers EXCEPT ![v] = "up"]
  /\ UNCHANGED <<tokens, sessions, policy, requests, chosen, wrong, crossed>>

(* ... then an insert, which the unique username lets succeed once. A      *)
(* generated password is printed after it.                                 *)
BootstrapAdmin(v) ==
  /\ servers[v] = "createAdmin"
  /\ \/ /\ \A x \in User : ~(Exists(x) /\ users[x].root)
        /\ \E u \in User :
             /\ CreateLocalUser(u, TRUE, TRUE, ~Injected, IF Injected THEN "set" ELSE v)
             /\ printed' = IF Injected THEN printed ELSE printed \cup {<<u, v>>}
     \/ /\ \E x \in User : Exists(x) /\ users[x].root
        /\ UNCHANGED <<users, printed>>
  /\ servers' = [servers EXCEPT ![v] = "up"]
  /\ UNCHANGED <<tokens, sessions, policy, requests, chosen, wrong, crossed>>

Minus1(n) == IF n = 0 THEN 0 ELSE n - 1

(* Redis drops a key whose time is over. A request falls into one unit of  *)
(* the clock.                                                              *)
Tick ==
  /\ \A r \in Request : requests[r] = Idle
  /\ sessions' = [s \in Session |->
                    IF sessions[s].ttl <= 1 THEN NoSession
                    ELSE [sessions[s] EXCEPT !.ttl = Minus1(@), !.expiresAt = Minus1(@)]]
  /\ users' = [u \in User |-> [users[u] EXCEPT !.locked = Minus1(@)]]
  /\ UNCHANGED <<tokens, policy, requests, servers, chosen, wrong, printed, crossed>>

LoginStep(r) == LoginPolicy(r) \/ LoginFail(r) \/ LoginReset(r) \/ LoginCreate(r)

ChangeStep(r) == ChangeWrite(r) \/ RefreshSave(r)

ServerStep(v) ==
  CountLocalUsers(v) \/ BootstrapAdmin(v)

Next ==
  \/ \E r \in Request, u \in User, match \in BOOLEAN : LoginLookup(r, u, match)
  \/ \E r \in Request, u \in User, s \in Session \cup {Nobody} : ChangeStart(r, u, s)
  \/ \E r \in Request : LoginStep(r) \/ ChangeStep(r) \/ RequestFails(r)
  \/ \E s \in Session : HandleLogout(s)
  \/ \E u \in User, super \in NewSuper : HandleCreateUser(u, super)
  \/ \E u \in User, status \in {"active", "inactive"} : HandleUpdateUser(u, status)
  \/ \E u \in User : HandleDeleteUser(u) \/ HandleResetPassword(u)
  \/ \E max \in MaxFailed : HandleUpdatePasswordPolicy(max)
  \/ \E t \in Token : HandleCreateToken(t) \/ HandleDeleteToken(t)
  \/ \E v \in Server : ServerStep(v)
  \/ Tick

Spec == Init /\ [][Next]_vars

----------------------------------------------------------------------------
(* A password somebody else has set opens nothing but the change of it: a  *)
(* session without the forced change belongs to a user who has chosen a    *)
(* password, or to the administrator whose password the environment gave.  *)
(* It holds although a login copies the flag long before it creates the    *)
(* session, and a refresh writes back a session it read earlier. The one   *)
(* way round it is a change that names its user by a token and somebody    *)
(* else's session by the cookie.                                           *)
ForcedFirstChange ==
  \A s \in Session \ crossed :
    Valid(s) /\ ~sessions[s].force =>
      \/ sessions[s].user \in chosen
      \/ Injected /\ users[sessions[s].user].root

(* An account is locked only after as many wrong passwords, over its life, *)
(* as the smallest limit the policy ever set, and never under the limit 0, *)
(* which means none: although the limit and the count that decide are read *)
(* before other logins fail, succeed or are reset.                         *)
LockNeedsFailures ==
  \A u \in User :
    users[u].locked > 0 => \E max \in MaxFailed \ {0} : wrong[u] >= max

(* Redis keeps no session beyond the time it was given at login, however   *)
(* often a password change saves it anew, even after a logout.             *)
SessionEnds ==
  \A s \in Session : sessions[s].ttl <= sessions[s].expiresAt

(* "prints the generated password to stdout ONCE" (bootstrapAdmin): of the *)
(* replicas that start together on an empty database, the one whose row    *)
(* was inserted prints, so a printed password is the administrator's until *)
(* it is replaced, and at most one administrator is there.                 *)
PrintedPasswordWorks ==
  /\ \A u \in User, v \in Server :
       <<u, v>> \in printed => users[u].password \in {v, "set"}
  /\ \A u, x \in User :
       Exists(u) /\ users[u].root /\ Exists(x) /\ users[x].root => u = x
============================================================================
