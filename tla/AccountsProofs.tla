--------------------------- MODULE AccountsProofs ---------------------------
(***************************************************************************)
(* Local accounts, for any number of users, sessions, tokens, replicas and *)
(* requests and every lockout policy: the forced change of a password, the *)
(* lock after failures, the end of a session and the printed password of   *)
(* the bootstrap. The argument is the inductive invariant AccountsInv.     *)
(***************************************************************************)
EXTENDS Accounts, FiniteSetTheorems, TLAPS

(* A user whose sessions need no forced change. *)
Trusted(u) == u \in chosen \/ (Injected /\ users[u].root)

(* A row without the forced change is the row of such a user, and nobody   *)
(* is the administrator before the row is there.                           *)
RowsTrusted ==
  \A u \in User : /\ Exists(u) /\ ~users[u].force => Trusted(u)
                  /\ users[u].status = "absent" => ~users[u].root

(* So is a session without it, unless the change of somebody else's        *)
(* password has saved it; and it ends in time.                             *)
SessionOK(s) ==
  /\ Valid(s) => /\ sessions[s].user \in User
                 /\ ~sessions[s].force /\ s \notin crossed => Trusted(sessions[s].user)
  /\ sessions[s].ttl <= sessions[s].expiresAt

SessionsTrusted == \A s \in Session : SessionOK(s)

(* So is the copy of a row that a login goes on with; a request that is to *)
(* save a session has changed a password.                                  *)
CopiesTrusted ==
  \A r \in Request :
    /\ requests[r].pc \in {"reset", "create"} /\ ~requests[r].force => Trusted(requests[r].user)
    /\ requests[r].pc = "save" =>
         /\ requests[r].user \in chosen
         /\ requests[r].copy.user \in User
         /\ requests[r].copy.ttl <= requests[r].copy.expiresAt

(* Every failure that is counted, or still to be counted, was a wrong      *)
(* password; every lock that is set, or still to be set, took enough.      *)
Failing(u) ==
  {r \in Request : requests[r].pc \in {"policy", "fail"} /\ requests[r].user = u}

Earned(u) == \E max \in MaxFailed \ {0} : wrong[u] >= max

FailuresCounted ==
  /\ \A u \in User : users[u].failed + Cardinality(Failing(u)) <= wrong[u]
  /\ \A r \in Request :
       requests[r].pc = "policy" => requests[r].failed + 1 <= wrong[requests[r].user]

LocksEarned ==
  /\ \A u \in User : users[u].locked > 0 => Earned(u)
  /\ \A r \in Request :
       requests[r].pc = "fail" /\ requests[r].locked > 0 => Earned(requests[r].user)

(* A printed password belongs to a row that was inserted. *)
PrintedInserted ==
  \A u \in User, v \in Server : <<u, v>> \in printed => users[u].status # "absent"

TrustInv == RowsTrusted /\ SessionsTrusted /\ CopiesTrusted

LockInv == FailuresCounted /\ LocksEarned

PrintInv == PrintedInserted /\ PrintedPasswordWorks

AccountsInv == TypeOK /\ TrustInv /\ LockInv /\ PrintInv

----------------------------------------------------------------------------
(* Types *)

LEMMA Minus1Type == \A n \in Nat : Minus1(n) \in Nat /\ Minus1(n) <= n
  BY DEF Minus1

(* What the statements on local_users do to each row. *)
LEMMA UpdateRowAt ==
  ASSUME users \in [User -> UserRow], NEW u \in User, NEW row, UpdateRow(u, row)
  PROVE  /\ \A x \in User : users'[x] = IF x = u /\ Exists(u) THEN row ELSE users[x]
         /\ (Exists(u) => row \in UserRow) => users' \in [User -> UserRow]
  BY DEF UpdateRow

LEMMA CreateRowAt ==
  ASSUME users \in [User -> UserRow], NEW u \in User, NEW root \in BOOLEAN, NEW super \in BOOLEAN,
         NEW force \in BOOLEAN, NEW password \in Server \cup {"set"},
         CreateLocalUser(u, root, super, force, password)
  PROVE  /\ \A x \in User : x # u => users'[x] = users[x]
         /\ users'[u] = [status |-> "active", root |-> root, super |-> super, force |-> force,
                         password |-> password, failed |-> 0, locked |-> 0]
         /\ users' \in [User -> UserRow]
<1>1. [status |-> "active", root |-> root, super |-> super, force |-> force,
       password |-> password, failed |-> 0, locked |-> 0] \in UserRow
  BY DEF UserRow
<1>2. QED
  BY <1>1 DEF CreateLocalUser

LEMMA InitTypeOK == Init => TypeOK
<1> SUFFICES ASSUME Init PROVE TypeOK
  OBVIOUS
<1>1. NoUser \in UserRow /\ NoSession \in SessionRow /\ Idle \in RequestState
  BY DEF NoUser, UserRow, NoSession, SessionRow, Idle, RequestState
<1>2. Idle.pc = "idle"
  BY DEF Idle
<1>3. QED
  BY <1>1, <1>2 DEF Init, TypeOK, ServerState

RowOK(row) ==
  /\ row \in RequestState
  /\ row.pc # "idle" => row.user \in User
  /\ row.pc = "save" => row.session \in Session

LEMMA RequestTypes ==
  ASSUME TypeOK, NEW r \in Request, NEW row, RowOK(row), requests' = [requests EXCEPT ![r] = row]
  PROVE  /\ requests' \in [Request -> RequestState]
         /\ \A q \in Request :
              /\ requests'[q].pc # "idle" => requests'[q].user \in User
              /\ requests'[q].pc = "save" => requests'[q].session \in Session
  BY DEF TypeOK, RowOK

LEMMA IdleOK == RowOK(Idle) /\ Idle.pc = "idle" /\ Idle.session = Nobody /\ Idle.user = Nobody
<1>1. Idle \in RequestState
  BY DEF NoSession, SessionRow, Idle, RequestState
<1>2. QED
  BY <1>1 DEF RowOK, Idle

(* Each step of a request takes it from one row to another. *)
LEMMA LookupRow ==
  ASSUME TypeOK, NEW r \in Request, NEW u \in User, NEW match \in BOOLEAN, LoginLookup(r, u, match)
  PROVE  \E row : /\ RowOK(row) /\ requests' = [requests EXCEPT ![r] = row]
                  /\ requests[r] = Idle /\ row.user = u /\ row.session = Nobody
                  /\ row.pc = (IF match THEN "reset" ELSE "policy")
                  /\ row.force = (match /\ users[u].force)
                  /\ row.locked = 0
                  /\ row.failed = (IF match THEN 0 ELSE users[u].failed)
<1>1. users[u].force \in BOOLEAN /\ users[u].failed \in Nat
  BY DEF TypeOK, UserRow
<1>2. ASSUME match
      PROVE  RowOK([Idle EXCEPT !.pc = "reset", !.user = u, !.force = users[u].force])
  BY <1>1 DEF RowOK, Idle, RequestState, NoSession, SessionRow
<1>3. RowOK([Idle EXCEPT !.pc = "policy", !.user = u, !.failed = users[u].failed])
  BY <1>1 DEF RowOK, Idle, RequestState, NoSession, SessionRow
<1>4. CASE match
  <2> DEFINE row == [Idle EXCEPT !.pc = "reset", !.user = u, !.force = users[u].force]
  <2>1. /\ row.user = u /\ row.session = Nobody /\ row.pc = "reset"
        /\ row.force = users[u].force /\ row.locked = 0 /\ row.failed = 0
    BY DEF Idle
  <2>2. row.force = (match /\ users[u].force)
    BY <1>1, <1>4, <2>1
  <2>3. requests[r] = Idle /\ requests' = [requests EXCEPT ![r] = row]
    BY <1>4 DEF LoginLookup
  <2>4. RowOK(row)
    BY <1>2, <1>4
  <2> HIDE DEF row
  <2>5. QED
    BY <1>4, <2>1, <2>2, <2>3, <2>4
<1>5. CASE ~match
  <2> DEFINE row == [Idle EXCEPT !.pc = "policy", !.user = u, !.failed = users[u].failed]
  <2>1. /\ row.user = u /\ row.session = Nobody /\ row.pc = "policy"
        /\ row.force = FALSE /\ row.locked = 0 /\ row.failed = users[u].failed
    BY DEF Idle
  <2>2. row.force = (match /\ users[u].force)
    BY <1>5, <2>1
  <2>3. requests[r] = Idle /\ requests' = [requests EXCEPT ![r] = row]
    BY <1>5 DEF LoginLookup
  <2>4. RowOK(row)
    BY <1>3
  <2> HIDE DEF row
  <2>5. QED
    BY <1>5, <2>1, <2>2, <2>3, <2>4
<1>6. QED
  BY <1>4, <1>5

LEMMA PolicyRow ==
  ASSUME TypeOK, NEW r \in Request, LoginPolicy(r)
  PROVE  \E row : /\ RowOK(row) /\ requests' = [requests EXCEPT ![r] = row]
                  /\ row.pc = "fail" /\ row.user = requests[r].user
                  /\ row.session = requests[r].session
                  /\ row.locked = LockUntil(requests[r].failed)
<1> DEFINE row == [requests[r] EXCEPT !.pc = "fail", !.failed = 0,
                                      !.locked = LockUntil(requests[r].failed)]
<1>1. LockUntil(requests[r].failed) \in Nat
  BY AccountsAssumption DEF LockUntil
<1>2. RowOK(row)
  BY <1>1 DEF RowOK, RequestState, TypeOK, LoginPolicy
<1>3. /\ row.pc = "fail" /\ row.user = requests[r].user
      /\ row.session = requests[r].session /\ row.locked = LockUntil(requests[r].failed)
  BY DEF RequestState, TypeOK
<1>4. requests' = [requests EXCEPT ![r] = row]
  BY DEF LoginPolicy
<1> HIDE DEF row
<1>5. QED
  BY <1>2, <1>3, <1>4

LEMMA ResetRow ==
  ASSUME TypeOK, NEW r \in Request, LoginReset(r)
  PROVE  \E row : /\ RowOK(row) /\ requests' = [requests EXCEPT ![r] = row]
                  /\ row.pc = "create" /\ row.user = requests[r].user
                  /\ row.session = requests[r].session /\ row.force = requests[r].force
<1> DEFINE row == [requests[r] EXCEPT !.pc = "create"]
<1>1. RowOK(row)
  BY DEF RowOK, RequestState, TypeOK, LoginReset
<1>2. /\ row.pc = "create" /\ row.user = requests[r].user
      /\ row.session = requests[r].session /\ row.force = requests[r].force
  BY DEF RequestState, TypeOK
<1>3. requests' = [requests EXCEPT ![r] = row]
  BY DEF LoginReset
<1> HIDE DEF row
<1>4. QED
  BY <1>1, <1>2, <1>3

LEMMA StartRow ==
  ASSUME TypeOK, NEW r \in Request, NEW u \in User, NEW s \in Session \cup {Nobody},
         ChangeStart(r, u, s)
  PROVE  \E row : /\ RowOK(row) /\ requests' = [requests EXCEPT ![r] = row]
                  /\ requests[r] = Idle
                  /\ row.pc = "write" /\ row.user = u /\ row.session = s
<1> DEFINE row == [Idle EXCEPT !.pc = "write", !.user = u, !.session = s]
<1>1. RowOK(row) /\ row.pc = "write" /\ row.user = u /\ row.session = s
  BY DEF RowOK, Idle, RequestState, NoSession, SessionRow
<1>2. requests[r] = Idle /\ requests' = [requests EXCEPT ![r] = row]
  BY DEF ChangeStart
<1> HIDE DEF row
<1>3. QED
  BY <1>1, <1>2

LEMMA WriteRow ==
  ASSUME TypeOK, NEW r \in Request, ChangeWrite(r)
  PROVE  \E row : /\ RowOK(row) /\ requests' = [requests EXCEPT ![r] = row]
                  /\ \/ row = Idle
                     \/ /\ row.pc = "save" /\ row.user = requests[r].user
                        /\ row.session = requests[r].session
                        /\ row.session \in Session /\ Valid(row.session)
                        /\ row.copy = sessions[row.session]
<1> DEFINE s == requests[r].session
           row == [requests[r] EXCEPT !.pc = "save", !.copy = sessions[s]]
<1>0. s \in Session \cup {Nobody} /\ requests[r].user \in User
  BY DEF TypeOK, RequestState, ChangeWrite
<1>1. CASE s # Nobody /\ Valid(s)
  <2>1. s \in Session /\ sessions[s] \in SessionRow
    BY <1>0, <1>1 DEF TypeOK
  <2>2. /\ row \in RequestState /\ row.pc = "save" /\ row.user = requests[r].user
        /\ row.session = s /\ row.copy = sessions[s]
    BY <2>1 DEF RequestState, TypeOK
  <2>3. requests' = [requests EXCEPT ![r] = row]
    BY <1>1 DEF ChangeWrite
  <2>4. RowOK(row)
    BY <1>0, <2>1, <2>2 DEF RowOK
  <2> HIDE DEF row
  <2>5. QED
    BY <1>1, <2>1, <2>2, <2>3, <2>4
<1>2. CASE ~(s # Nobody /\ Valid(s))
  <2>1. requests' = [requests EXCEPT ![r] = Idle]
    BY <1>2 DEF ChangeWrite
  <2>2. QED
    BY <2>1, IdleOK
<1>3. QED
  BY <1>1, <1>2

(* The other steps end it. *)
LEMMA EndRow ==
  ASSUME NEW r \in Request,
         LoginFail(r) \/ LoginCreate(r) \/ RefreshSave(r) \/ RequestFails(r)
  PROVE  requests' = [requests EXCEPT ![r] = Idle]
  BY DEF LoginFail, LoginCreate, RefreshSave, RequestFails

LEMMA RequestStepTypes ==
  ASSUME TypeOK,
         NEW r \in Request,
         \/ \E u \in User, match \in BOOLEAN : LoginLookup(r, u, match)
         \/ \E u \in User, s \in Session \cup {Nobody} : ChangeStart(r, u, s)
         \/ LoginStep(r) \/ ChangeStep(r) \/ RequestFails(r)
  PROVE  /\ requests' \in [Request -> RequestState]
         /\ \A q \in Request :
              /\ requests'[q].pc # "idle" => requests'[q].user \in User
              /\ requests'[q].pc = "save" => requests'[q].session \in Session
<1> SUFFICES \E row : RowOK(row) /\ requests' = [requests EXCEPT ![r] = row]
  BY RequestTypes
<1>1. CASE \E u \in User, match \in BOOLEAN : LoginLookup(r, u, match)
  BY <1>1, LookupRow
<1>2. CASE \E u \in User, s \in Session \cup {Nobody} : ChangeStart(r, u, s)
  BY <1>2, StartRow
<1>3. CASE LoginPolicy(r)
  BY <1>3, PolicyRow
<1>4. CASE LoginReset(r)
  BY <1>4, ResetRow
<1>5. CASE ChangeWrite(r)
  BY <1>5, WriteRow
<1>6. CASE LoginFail(r) \/ LoginCreate(r) \/ RefreshSave(r) \/ RequestFails(r)
  BY <1>6, EndRow, IdleOK
<1>7. QED
  BY <1>1, <1>2, <1>3, <1>4, <1>5, <1>6 DEF LoginStep, ChangeStep

(* Each step on local_users, row by row. Failures and locks come from a    *)
(* login, or go; a row is inserted once.                                   *)
LEMMA FailRow ==
  ASSUME TypeOK, NEW r \in Request, LoginFail(r)
  PROVE  LET u == requests[r].user
         IN /\ u \in User /\ users' \in [User -> UserRow]
            /\ \A x \in User \ {u} : users'[x] = users[x]
            /\ ~Exists(u) => users'[u] = users[u]
            /\ Exists(u) => users'[u] = [users[u] EXCEPT !.failed = @ + 1,
                                                         !.locked = requests[r].locked]
<1> DEFINE u == requests[r].user
           row == [users[u] EXCEPT !.failed = @ + 1, !.locked = requests[r].locked]
<1>1. u \in User /\ requests[r].locked \in Nat
  BY DEF TypeOK, LoginFail, RequestState
<1>2. row \in UserRow
  <2>1. users[u] \in UserRow
    BY <1>1 DEF TypeOK
  <2>2. users[u].failed + 1 \in Nat
    BY <2>1 DEF UserRow
  <2> DEFINE n == users[u].failed + 1
  <2>3. row = [users[u] EXCEPT !.failed = n, !.locked = requests[r].locked]
    OBVIOUS
  <2> HIDE DEF n, row
  <2>4. QED
    BY <1>1, <2>1, <2>2, <2>3 DEF UserRow, n
<1>3. UpdateRow(u, row)
  BY DEF LoginFail, IncrementFailedAttempts
<1>4. users \in [User -> UserRow]
  BY DEF TypeOK
<1> HIDE DEF row
<1>5. /\ \A x \in User : users'[x] = IF x = u /\ Exists(u) THEN row ELSE users[x]
      /\ users' \in [User -> UserRow]
  BY <1>1, <1>2, <1>3, <1>4, UpdateRowAt
<1>6. QED
  BY <1>1, <1>5 DEF row

LEMMA ResetFailedRow ==
  ASSUME TypeOK, NEW r \in Request, LoginReset(r)
  PROVE  LET u == requests[r].user
         IN /\ u \in User /\ users' \in [User -> UserRow]
            /\ \A x \in User \ {u} : users'[x] = users[x]
            /\ ~Exists(u) => users'[u] = users[u]
            /\ Exists(u) => users'[u] = [users[u] EXCEPT !.failed = 0, !.locked = 0]
<1> DEFINE u == requests[r].user
           row == [users[u] EXCEPT !.failed = 0, !.locked = 0]
<1>1. u \in User
  BY DEF TypeOK, LoginReset
<1>2. row \in UserRow
  <2>1. users[u] \in UserRow
    BY <1>1 DEF TypeOK
  <2>2. QED
    BY <1>1, <2>1 DEF UserRow
<1>3. UpdateRow(u, row)
  BY DEF LoginReset, ResetFailedAttempts
<1>4. users \in [User -> UserRow]
  BY DEF TypeOK
<1> HIDE DEF row
<1>5. /\ \A x \in User : users'[x] = IF x = u /\ Exists(u) THEN row ELSE users[x]
      /\ users' \in [User -> UserRow]
  BY <1>1, <1>2, <1>3, <1>4, UpdateRowAt
<1>6. QED
  BY <1>1, <1>5 DEF row

LEMMA PasswordRow ==
  ASSUME TypeOK, NEW u \in User, NEW force \in BOOLEAN, UpdatePasswordHash(u, force)
  PROVE  /\ users' \in [User -> UserRow]
         /\ \A x \in User \ {u} : users'[x] = users[x]
         /\ ~Exists(u) => users'[u] = users[u]
         /\ Exists(u) => users'[u] = [users[u] EXCEPT !.password = "set", !.force = force,
                                                      !.failed = 0, !.locked = 0]
<1> DEFINE row == [users[u] EXCEPT !.password = "set", !.force = force, !.failed = 0, !.locked = 0]
<1>2. row \in UserRow
  <2>1. users[u] \in UserRow
    BY DEF TypeOK
  <2>2. QED
    BY <2>1 DEF UserRow
<1>3. UpdateRow(u, row)
  BY DEF UpdatePasswordHash
<1>4. users \in [User -> UserRow]
  BY DEF TypeOK
<1> HIDE DEF row
<1>5. /\ \A x \in User : users'[x] = IF x = u /\ Exists(u) THEN row ELSE users[x]
      /\ users' \in [User -> UserRow]
  BY <1>2, <1>3, <1>4, UpdateRowAt
<1>6. QED
  BY <1>5 DEF row

LEMMA UpdateUserRow ==
  ASSUME TypeOK, NEW u \in User, NEW status \in {"active", "inactive"}, HandleUpdateUser(u, status)
  PROVE  /\ users' \in [User -> UserRow] /\ Exists(u)
         /\ \A x \in User \ {u} : users'[x] = users[x]
         /\ users'[u] = [users[u] EXCEPT !.status = status]
<1>1. [users[u] EXCEPT !.status = status] \in UserRow
  BY DEF TypeOK, UserRow
<1>2. QED
  BY <1>1, UpdateRowAt DEF HandleUpdateUser, TypeOK

LEMMA DeleteUserRow ==
  ASSUME TypeOK, NEW u \in User, HandleDeleteUser(u)
  PROVE  /\ users' \in [User -> UserRow] /\ Exists(u)
         /\ \A x \in User \ {u} : users'[x] = users[x]
         /\ users'[u].status = "deleted" /\ users'[u].root = users[u].root
         /\ users'[u].failed = 0 /\ users'[u].locked = 0 /\ users'[u].password = "set"
<1> DEFINE row == [NoUser EXCEPT !.status = "deleted", !.root = users[u].root,
                                 !.super = users[u].super]
<1>1. /\ row \in UserRow /\ row.status = "deleted" /\ row.root = users[u].root
      /\ row.failed = 0 /\ row.locked = 0 /\ row.password = "set"
  BY DEF TypeOK, UserRow, NoUser
<1>2. UpdateRow(u, row) /\ Exists(u)
  BY DEF HandleDeleteUser
<1>3. users \in [User -> UserRow]
  BY DEF TypeOK
<1> HIDE DEF row
<1>4. QED
  BY <1>1, <1>2, <1>3, UpdateRowAt

(* A row that is inserted. *)
LEMMA CreateUserRow ==
  ASSUME TypeOK, NEW u \in User, NEW super \in NewSuper, HandleCreateUser(u, super)
  PROVE  /\ users' \in [User -> UserRow] /\ users[u].status = "absent"
         /\ \A x \in User \ {u} : users'[x] = users[x]
         /\ users'[u].status = "active" /\ ~users'[u].root /\ users'[u].force
         /\ users'[u].failed = 0 /\ users'[u].locked = 0
<1>1. super \in BOOLEAN
  BY AccountsAssumption
<1>2. CreateLocalUser(u, FALSE, super, TRUE, "set") /\ users \in [User -> UserRow]
  BY DEF HandleCreateUser, TypeOK
<1>3. users[u].status = "absent"
  BY <1>2 DEF CreateLocalUser
<1>4. /\ \A x \in User : x # u => users'[x] = users[x]
      /\ users'[u] = [status |-> "active", root |-> FALSE, super |-> super, force |-> TRUE,
                      password |-> "set", failed |-> 0, locked |-> 0]
      /\ users' \in [User -> UserRow]
  BY <1>1, <1>2, CreateRowAt
<1>5. QED
  BY <1>3, <1>4

LEMMA BootstrapRow ==
  ASSUME TypeOK, NEW v \in Server, BootstrapAdmin(v)
  PROVE  \/ UNCHANGED <<users, printed>>
         \/ /\ \A x \in User : ~(Exists(x) /\ users[x].root)
            /\ \E u \in User :
                 /\ users' \in [User -> UserRow] /\ users[u].status = "absent"
                 /\ \A x \in User \ {u} : users'[x] = users[x]
                 /\ users'[u].status = "active" /\ users'[u].root /\ users'[u].force = ~Injected
                 /\ users'[u].password = (IF Injected THEN "set" ELSE v)
                 /\ users'[u].failed = 0 /\ users'[u].locked = 0
                 /\ printed' = IF Injected THEN printed ELSE printed \cup {<<u, v>>}
<1>1. ASSUME \A x \in User : ~(Exists(x) /\ users[x].root), NEW u \in User,
             CreateLocalUser(u, TRUE, TRUE, ~Injected, IF Injected THEN "set" ELSE v)
      PROVE  /\ users' \in [User -> UserRow] /\ users[u].status = "absent"
             /\ \A x \in User \ {u} : users'[x] = users[x]
             /\ users'[u].status = "active" /\ users'[u].root /\ users'[u].force = ~Injected
             /\ users'[u].password = (IF Injected THEN "set" ELSE v)
             /\ users'[u].failed = 0 /\ users'[u].locked = 0
  <2>1. (~Injected) \in BOOLEAN /\ (IF Injected THEN "set" ELSE v) \in Server \cup {"set"}
    OBVIOUS
  <2>2. users \in [User -> UserRow] /\ users[u].status = "absent"
    BY <1>1 DEF TypeOK, CreateLocalUser
  <2>3. /\ \A x \in User : x # u => users'[x] = users[x]
        /\ users'[u] = [status |-> "active", root |-> TRUE, super |-> TRUE, force |-> ~Injected,
                        password |-> IF Injected THEN "set" ELSE v, failed |-> 0, locked |-> 0]
        /\ users' \in [User -> UserRow]
    BY <1>1, <2>1, <2>2, CreateRowAt
  <2>4. QED
    BY <2>2, <2>3
<1>2. QED
  BY <1>1 DEF BootstrapAdmin

LEMMA TickRow ==
  ASSUME TypeOK, Tick
  PROVE  /\ users' \in [User -> UserRow]
         /\ \A x \in User :
              /\ users'[x] = [users[x] EXCEPT !.locked = users'[x].locked]
              /\ users'[x].locked <= users[x].locked
<1>1. \A x \in User : /\ users'[x] = [users[x] EXCEPT !.locked = Minus1(users[x].locked)]
                      /\ users[x] \in UserRow /\ users[x].locked \in Nat
  BY DEF TypeOK, Tick, UserRow
<1>2. \A x \in User : [users[x] EXCEPT !.locked = Minus1(users[x].locked)] \in UserRow
  BY <1>1, Minus1Type DEF UserRow
<1>3. \A x \in User : users'[x].locked = Minus1(users[x].locked)
  BY <1>1 DEF UserRow
<1>4. users' \in [User -> UserRow]
  BY <1>1, <1>2 DEF Tick
<1>5. QED
  BY <1>1, <1>3, <1>4, Minus1Type

(* Each step on the sessions. *)
LEMMA CreateRow ==
  ASSUME TypeOK, NEW r \in Request, LoginCreate(r)
  PROVE  /\ requests[r].user \in User
         /\ \E s \in Session :
              /\ ~Valid(s) /\ \A q \in Request : requests[q].session # s
              /\ sessions' = [sessions EXCEPT ![s] =
                                [user |-> requests[r].user, force |-> requests[r].force,
                                 expiresAt |-> SessionTTL, ttl |-> SessionTTL]]
              /\ sessions' \in [Session -> SessionRow]
              /\ crossed' = crossed \ {s}
<1>1. requests[r].user \in User /\ requests[r].force \in BOOLEAN
  BY DEF TypeOK, RequestState, LoginCreate
<1>2. [user |-> requests[r].user, force |-> requests[r].force,
       expiresAt |-> SessionTTL, ttl |-> SessionTTL] \in SessionRow
  BY <1>1, AccountsAssumption DEF SessionRow
<1>3. PICK s \in Session : CreateSession(s, requests[r].user, requests[r].force) /\ crossed' = crossed \ {s}
  BY DEF LoginCreate
<1>4. sessions' \in [Session -> SessionRow]
  BY <1>2, <1>3 DEF CreateSession, TypeOK
<1>5. QED
  BY <1>1, <1>3, <1>4 DEF CreateSession

LEMMA SaveRow ==
  ASSUME TypeOK, NEW r \in Request, RefreshSave(r)
  PROVE  LET s == requests[r].session
             x == [requests[r].copy EXCEPT !.force = FALSE]
         IN /\ s \in Session /\ sessions' = [sessions EXCEPT ![s] = x]
            /\ requests[r].copy \in SessionRow
            /\ sessions' \in [Session -> SessionRow]
            /\ x.user = requests[r].copy.user /\ ~x.force
            /\ x.ttl = requests[r].copy.ttl /\ x.expiresAt = requests[r].copy.expiresAt
<1> DEFINE s == requests[r].session
           x == [requests[r].copy EXCEPT !.force = FALSE]
<1>1. s \in Session /\ requests[r].copy \in SessionRow
  BY DEF TypeOK, RequestState, RefreshSave
<1>2. /\ x \in SessionRow
      /\ x.user = requests[r].copy.user /\ ~x.force
      /\ x.ttl = requests[r].copy.ttl /\ x.expiresAt = requests[r].copy.expiresAt
  BY <1>1 DEF SessionRow
<1>3. sessions' = [sessions EXCEPT ![s] = x]
  BY DEF RefreshSave
<1> HIDE DEF s, x
<1>4. sessions' \in [Session -> SessionRow]
  BY <1>1, <1>2, <1>3 DEF TypeOK
<1>5. QED
  BY <1>1, <1>2, <1>3, <1>4 DEF s, x

LEMMA LogoutRow ==
  ASSUME TypeOK, NEW s \in Session, HandleLogout(s)
  PROVE  /\ sessions' = [sessions EXCEPT ![s] = NoSession]
         /\ sessions' \in [Session -> SessionRow]
<1>1. NoSession \in SessionRow
  BY DEF NoSession, SessionRow
<1>2. QED
  BY <1>1 DEF HandleLogout, DeleteSession, TypeOK

LEMMA TickSession ==
  ASSUME TypeOK, Tick
  PROVE  /\ sessions' \in [Session -> SessionRow]
         /\ \A s \in Session :
              \/ sessions'[s] = NoSession
              \/ /\ sessions[s] # NoSession
                 /\ sessions'[s].user = sessions[s].user /\ sessions'[s].force = sessions[s].force
                 /\ sessions'[s].ttl = Minus1(sessions[s].ttl)
                 /\ sessions'[s].expiresAt = Minus1(sessions[s].expiresAt)
<1> DEFINE older(x) == [x EXCEPT !.ttl = Minus1(x.ttl), !.expiresAt = Minus1(x.expiresAt)]
<1>1. ASSUME NEW x \in SessionRow
      PROVE  /\ older(x) \in SessionRow
             /\ older(x).user = x.user /\ older(x).force = x.force
             /\ older(x).ttl = Minus1(x.ttl) /\ older(x).expiresAt = Minus1(x.expiresAt)
  <2>1. x.ttl \in Nat /\ x.expiresAt \in Nat
    BY DEF SessionRow
  <2>2. Minus1(x.ttl) \in Nat /\ Minus1(x.expiresAt) \in Nat
    BY <2>1, Minus1Type
  <2>3. QED
    BY <2>2 DEF SessionRow
<1>2. NoSession \in SessionRow /\ NoSession.ttl = 0
  BY DEF NoSession, SessionRow
<1>3. sessions' = [s \in Session |-> IF sessions[s].ttl <= 1 THEN NoSession ELSE older(sessions[s])]
  BY DEF Tick
<1> HIDE DEF older
<1>4. sessions \in [Session -> SessionRow]
  BY DEF TypeOK
<1>5. sessions' \in [Session -> SessionRow]
  BY <1>1, <1>2, <1>3, <1>4
<1>6. ASSUME NEW s \in Session, ~(sessions[s].ttl <= 1)
      PROVE  sessions[s] # NoSession /\ sessions'[s] = older(sessions[s])
  BY <1>2, <1>3, <1>6
<1>7. ASSUME NEW s \in Session, sessions[s].ttl <= 1
      PROVE  sessions'[s] = NoSession
  BY <1>3, <1>7
<1>8. QED
  BY <1>1, <1>4, <1>5, <1>6, <1>7

(* Who touches what. *)
UserStep ==
  \/ \E r \in Request : LoginFail(r) \/ LoginReset(r) \/ ChangeWrite(r)
  \/ \E u \in User, super \in NewSuper : HandleCreateUser(u, super)
  \/ \E u \in User, status \in {"active", "inactive"} : HandleUpdateUser(u, status)
  \/ \E u \in User : HandleDeleteUser(u) \/ HandleResetPassword(u)
  \/ \E v \in Server : BootstrapAdmin(v)
  \/ Tick

SessionStep ==
  \/ \E r \in Request : LoginCreate(r) \/ RefreshSave(r)
  \/ \E s \in Session : HandleLogout(s)
  \/ Tick

RequestStep(r) ==
  \/ \E u \in User, match \in BOOLEAN : LoginLookup(r, u, match)
  \/ \E u \in User, s \in Session \cup {Nobody} : ChangeStart(r, u, s)
  \/ LoginStep(r) \/ ChangeStep(r) \/ RequestFails(r)

LEMMA UsersElsewhere ==
  ASSUME [Next]_vars, ~UserStep
  PROVE  UNCHANGED <<users, chosen, printed>>
<1> USE DEF UserStep
<1>1. CASE \E r \in Request, u \in User, match \in BOOLEAN : LoginLookup(r, u, match)
  BY <1>1 DEF LoginLookup
<1>2. CASE \E r \in Request, u \in User, s \in Session \cup {Nobody} : ChangeStart(r, u, s)
  BY <1>2 DEF ChangeStart
<1>3. CASE \E r \in Request : LoginStep(r) \/ ChangeStep(r) \/ RequestFails(r)
  BY <1>3 DEF LoginStep, ChangeStep, RequestFails, LoginPolicy, LoginCreate, RefreshSave
<1>4. CASE \E s \in Session : HandleLogout(s)
  BY <1>4 DEF HandleLogout
<1>5. CASE \/ \E max \in MaxFailed : HandleUpdatePasswordPolicy(max)
           \/ \E t \in Token : HandleCreateToken(t) \/ HandleDeleteToken(t)
  BY <1>5 DEF HandleUpdatePasswordPolicy, HandleCreateToken, HandleDeleteToken
<1>6. CASE \E v \in Server : ServerStep(v)
  BY <1>6 DEF ServerStep, CountLocalUsers
<1>7. CASE UNCHANGED vars
  BY <1>7 DEF vars
<1>8. QED
  BY <1>1, <1>2, <1>3, <1>4, <1>5, <1>6, <1>7 DEF Next

LEMMA SessionsElsewhere ==
  ASSUME [Next]_vars, ~SessionStep
  PROVE  UNCHANGED <<sessions, crossed>>
<1> USE DEF SessionStep
<1>1. CASE \E r \in Request, u \in User, match \in BOOLEAN : LoginLookup(r, u, match)
  BY <1>1 DEF LoginLookup
<1>2. CASE \E r \in Request, u \in User, s \in Session \cup {Nobody} : ChangeStart(r, u, s)
  BY <1>2 DEF ChangeStart
<1>3. CASE \E r \in Request : LoginStep(r) \/ ChangeStep(r) \/ RequestFails(r)
  BY <1>3 DEF LoginStep, ChangeStep, RequestFails, LoginPolicy, LoginFail, LoginReset, ChangeWrite
<1>4. CASE \/ \E u \in User, super \in NewSuper : HandleCreateUser(u, super)
           \/ \E u \in User, status \in {"active", "inactive"} : HandleUpdateUser(u, status)
           \/ \E u \in User : HandleDeleteUser(u) \/ HandleResetPassword(u)
  BY <1>4 DEF HandleCreateUser, HandleUpdateUser, HandleDeleteUser, HandleResetPassword
<1>5. CASE \/ \E max \in MaxFailed : HandleUpdatePasswordPolicy(max)
           \/ \E t \in Token : HandleCreateToken(t) \/ HandleDeleteToken(t)
  BY <1>5 DEF HandleUpdatePasswordPolicy, HandleCreateToken, HandleDeleteToken
<1>6. CASE \E v \in Server : ServerStep(v)
  BY <1>6 DEF ServerStep, CountLocalUsers, BootstrapAdmin
<1>7. CASE UNCHANGED vars
  BY <1>7 DEF vars
<1>8. QED
  BY <1>1, <1>2, <1>3, <1>4, <1>5, <1>6, <1>7 DEF Next

LEMMA RequestsElsewhere ==
  ASSUME [Next]_vars, ~\E r \in Request : RequestStep(r)
  PROVE  UNCHANGED <<requests, wrong>>
<1> USE DEF RequestStep
<1>1. CASE \E s \in Session : HandleLogout(s)
  BY <1>1 DEF HandleLogout
<1>2. CASE \/ \E u \in User, super \in NewSuper : HandleCreateUser(u, super)
           \/ \E u \in User, status \in {"active", "inactive"} : HandleUpdateUser(u, status)
           \/ \E u \in User : HandleDeleteUser(u) \/ HandleResetPassword(u)
  BY <1>2 DEF HandleCreateUser, HandleUpdateUser, HandleDeleteUser, HandleResetPassword
<1>3. CASE \/ \E max \in MaxFailed : HandleUpdatePasswordPolicy(max)
           \/ \E t \in Token : HandleCreateToken(t) \/ HandleDeleteToken(t)
  BY <1>3 DEF HandleUpdatePasswordPolicy, HandleCreateToken, HandleDeleteToken
<1>4. CASE \E v \in Server : ServerStep(v)
  BY <1>4 DEF ServerStep, CountLocalUsers, BootstrapAdmin
<1>5. CASE Tick
  BY <1>5 DEF Tick
<1>6. CASE UNCHANGED vars
  BY <1>6 DEF vars
<1>7. QED
  BY <1>1, <1>2, <1>3, <1>4, <1>5, <1>6 DEF Next

(* A row never goes back to absent, its username stays, its password is    *)
(* replaced only by a person's; the forced change ends only where a user   *)
(* chose a password or the environment gave it.                            *)
RowStep(x) ==
  /\ users[x].status # "absent" =>
       /\ users'[x].status # "absent" /\ users'[x].root = users[x].root
       /\ users'[x].password \in {users[x].password, "set"}
  /\ users'[x].status = "absent" => users[x].status = "absent" /\ users'[x].root = users[x].root
  /\ Exists(x)' /\ ~users'[x].force =>
       \/ Exists(x) /\ ~users[x].force
       \/ x \in chosen'
       \/ Injected /\ users'[x].root

LEMMA SameRow ==
  ASSUME NEW x \in User, users'[x] = users[x]
  PROVE  RowStep(x)
  BY DEF RowStep, Exists

(* An UPDATE of the columns that are about failures alone. *)
LEMMA LockColumns ==
  ASSUME NEW x \in User, users[x] \in UserRow, NEW failed, NEW locked,
         users'[x] = [users[x] EXCEPT !.failed = failed, !.locked = locked]
  PROVE  RowStep(x)
<1>1. /\ users'[x].status = users[x].status /\ users'[x].root = users[x].root
      /\ users'[x].password = users[x].password /\ users'[x].force = users[x].force
  BY DEF UserRow
<1>2. QED
  BY <1>1 DEF RowStep, Exists

LEMMA RowSteps ==
  ASSUME TypeOK, UserStep
  PROVE  /\ users' \in [User -> UserRow] /\ chosen \subseteq chosen' /\ chosen' \subseteq User
         /\ \A x \in User : RowStep(x)
<1>0. \A x \in User : users[x] \in UserRow
  BY DEF TypeOK
<1>1. ASSUME NEW r \in Request, LoginFail(r)
      PROVE  users' \in [User -> UserRow] /\ UNCHANGED chosen /\ \A x \in User : RowStep(x)
  <2> DEFINE u == requests[r].user
             n == users[u].failed + 1
  <2>1. UNCHANGED chosen
    BY <1>1 DEF LoginFail
  <2>2. /\ u \in User /\ users' \in [User -> UserRow]
        /\ \A x \in User \ {u} : users'[x] = users[x]
        /\ \/ users'[u] = users[u]
           \/ users'[u] = [users[u] EXCEPT !.failed = n, !.locked = requests[r].locked]
    BY <1>1, FailRow
  <2> HIDE DEF n, u
  <2>3. RowStep(u)
    BY <1>0, <2>2, SameRow, LockColumns
  <2>4. QED
    BY <2>1, <2>2, <2>3, SameRow
<1>2. ASSUME NEW r \in Request, LoginReset(r)
      PROVE  users' \in [User -> UserRow] /\ UNCHANGED chosen /\ \A x \in User : RowStep(x)
  <2> DEFINE u == requests[r].user
  <2>1. UNCHANGED chosen
    BY <1>2 DEF LoginReset
  <2>2. /\ u \in User /\ users' \in [User -> UserRow]
        /\ \A x \in User \ {u} : users'[x] = users[x]
        /\ \/ users'[u] = users[u]
           \/ users'[u] = [users[u] EXCEPT !.failed = 0, !.locked = 0]
    BY <1>2, ResetFailedRow
  <2> HIDE DEF u
  <2>3. RowStep(u)
    BY <1>0, <2>2, SameRow, LockColumns
  <2>4. QED
    BY <2>1, <2>2, <2>3, SameRow
<1>3. ASSUME NEW u \in User, NEW force \in BOOLEAN, UpdatePasswordHash(u, force),
             force \/ u \in chosen'
      PROVE  users' \in [User -> UserRow] /\ \A x \in User : RowStep(x)
  <2>1. /\ users' \in [User -> UserRow]
        /\ \A x \in User \ {u} : users'[x] = users[x]
        /\ ~Exists(u) => users'[u] = users[u]
        /\ Exists(u) => users'[u] = [users[u] EXCEPT !.password = "set", !.force = force,
                                                     !.failed = 0, !.locked = 0]
    BY <1>3, PasswordRow
  <2>2. CASE Exists(u)
    <3>1. /\ users'[u].status = users[u].status /\ users'[u].root = users[u].root
          /\ users'[u].password = "set" /\ users'[u].force = force
      BY <1>0, <2>1, <2>2 DEF UserRow
    <3>2. RowStep(u)
      BY <1>3, <3>1 DEF RowStep
    <3>3. QED
      BY <2>1, <3>2, SameRow
  <2>3. CASE ~Exists(u)
    BY <2>1, <2>3, SameRow
  <2>4. QED
    BY <2>1, <2>2, <2>3
<1>4. ASSUME NEW r \in Request, ChangeWrite(r)
      PROVE  /\ users' \in [User -> UserRow] /\ chosen \subseteq chosen' /\ chosen' \subseteq User
             /\ \A x \in User : RowStep(x)
  <2>1. requests[r].user \in User
    BY <1>4 DEF TypeOK, ChangeWrite
  <2>2. UpdatePasswordHash(requests[r].user, FALSE) /\ chosen' = chosen \cup {requests[r].user}
    BY <1>4 DEF ChangeWrite
  <2>3. chosen \subseteq User
    BY DEF TypeOK
  <2>4. QED
    BY <1>3, <2>1, <2>2, <2>3
<1>5. ASSUME NEW u \in User, HandleResetPassword(u)
      PROVE  users' \in [User -> UserRow] /\ UNCHANGED chosen /\ \A x \in User : RowStep(x)
  BY <1>3, <1>5 DEF HandleResetPassword
<1>6. ASSUME NEW u \in User, NEW super \in NewSuper, HandleCreateUser(u, super)
      PROVE  users' \in [User -> UserRow] /\ UNCHANGED chosen /\ \A x \in User : RowStep(x)
  <2>1. UNCHANGED chosen
    BY <1>6 DEF HandleCreateUser
  <2>2. RowStep(u)
    BY <1>6, CreateUserRow DEF RowStep
  <2>3. QED
    BY <1>6, <2>1, <2>2, CreateUserRow, SameRow
<1>7. ASSUME NEW u \in User, NEW status \in {"active", "inactive"}, HandleUpdateUser(u, status)
      PROVE  users' \in [User -> UserRow] /\ UNCHANGED chosen /\ \A x \in User : RowStep(x)
  <2>1. UNCHANGED chosen
    BY <1>7 DEF HandleUpdateUser
  <2>2. users'[u] = [users[u] EXCEPT !.status = status] /\ Exists(u)
    BY <1>7, UpdateUserRow
  <2>3. /\ users'[u].status = status /\ users'[u].root = users[u].root
        /\ users'[u].password = users[u].password /\ users'[u].force = users[u].force
    BY <1>0, <2>2 DEF UserRow
  <2>4. RowStep(u)
    BY <2>2, <2>3 DEF RowStep
  <2>5. QED
    BY <1>7, <2>1, <2>4, UpdateUserRow, SameRow
<1>8. ASSUME NEW u \in User, HandleDeleteUser(u)
      PROVE  users' \in [User -> UserRow] /\ UNCHANGED chosen /\ \A x \in User : RowStep(x)
  <2>1. UNCHANGED chosen
    BY <1>8 DEF HandleDeleteUser
  <2>2. RowStep(u)
    BY <1>8, DeleteUserRow DEF RowStep, Exists
  <2>3. QED
    BY <1>8, <2>1, <2>2, DeleteUserRow, SameRow
<1>9. ASSUME NEW v \in Server, BootstrapAdmin(v)
      PROVE  users' \in [User -> UserRow] /\ UNCHANGED chosen /\ \A x \in User : RowStep(x)
  <2>1. UNCHANGED chosen
    BY <1>9 DEF BootstrapAdmin
  <2>2. CASE UNCHANGED <<users, printed>>
    BY <2>1, <2>2, SameRow DEF TypeOK
  <2>3. ASSUME NEW u \in User, users' \in [User -> UserRow], users[u].status = "absent",
               \A x \in User \ {u} : users'[x] = users[x],
               users'[u].status = "active", users'[u].root, users'[u].force = ~Injected
        PROVE  \A x \in User : RowStep(x)
    <3>1. RowStep(u)
      BY <2>3 DEF RowStep
    <3>2. QED
      BY <2>3, <3>1, SameRow
  <2>4. QED
    BY <1>9, <2>1, <2>2, <2>3, BootstrapRow
<1>10. ASSUME Tick
       PROVE  users' \in [User -> UserRow] /\ UNCHANGED chosen /\ \A x \in User : RowStep(x)
  <2>1. UNCHANGED chosen
    BY <1>10 DEF Tick
  <2>2. \A x \in User : users'[x] = [users[x] EXCEPT !.locked = users'[x].locked]
    BY <1>10, TickRow
  <2>3. ASSUME NEW x \in User PROVE RowStep(x)
    <3>1. users'[x] = [users[x] EXCEPT !.locked = users'[x].locked]
      BY <2>2
    <3>2. /\ users'[x].status = users[x].status /\ users'[x].root = users[x].root
          /\ users'[x].password = users[x].password /\ users'[x].force = users[x].force
      BY <1>0, <3>1 DEF UserRow
    <3>3. QED
      BY <3>2 DEF RowStep, Exists
  <2>4. QED
    BY <1>10, <2>1, <2>3, TickRow
<1>11. chosen \subseteq User
  BY DEF TypeOK
<1>12. QED
  BY <1>1, <1>2, <1>4, <1>5, <1>6, <1>7, <1>8, <1>9, <1>10, <1>11 DEF UserStep

LEMMA TypeStep == TypeOK /\ [Next]_vars => TypeOK'
<1> SUFFICES ASSUME TypeOK, [Next]_vars PROVE TypeOK'
  OBVIOUS
<1>1. users' \in [User -> UserRow] /\ chosen' \subseteq User
  BY RowSteps, UsersElsewhere DEF TypeOK
<1>2. sessions' \in [Session -> SessionRow]
  BY CreateRow, SaveRow, LogoutRow, TickSession, SessionsElsewhere DEF SessionStep, TypeOK
<1>3. /\ requests' \in [Request -> RequestState]
      /\ \A q \in Request :
           /\ requests'[q].pc # "idle" => requests'[q].user \in User
           /\ requests'[q].pc = "save" => requests'[q].session \in Session
  BY RequestStepTypes, RequestsElsewhere DEF RequestStep, TypeOK
<1>4. tokens' \in [Token -> User \cup {Nobody}]
  <2>1. CASE \E t \in Token : HandleCreateToken(t) \/ HandleDeleteToken(t)
    BY <2>1 DEF TypeOK, HandleCreateToken, HandleDeleteToken, CreateAPIToken, DeleteAPIToken,
                Superadmins
  <2>2. CASE \E u \in User : HandleDeleteUser(u)
    BY <2>2 DEF TypeOK, HandleDeleteUser
  <2>3. CASE UNCHANGED tokens
    BY <2>3 DEF TypeOK
  <2>4. QED
    BY <2>1, <2>2, <2>3 DEF Next, vars, LoginLookup, ChangeStart, LoginStep, ChangeStep, RequestFails,
      LoginPolicy, LoginFail, LoginReset, LoginCreate, ChangeWrite, RefreshSave, HandleLogout,
      HandleCreateUser, HandleUpdateUser, HandleResetPassword, HandleUpdatePasswordPolicy,
      ServerStep, CountLocalUsers, BootstrapAdmin, Tick
<1>5. policy' \in MaxFailed
  BY DEF TypeOK, Next, vars, LoginLookup, ChangeStart, LoginStep, ChangeStep, RequestFails,
      LoginPolicy, LoginFail, LoginReset, LoginCreate, ChangeWrite, RefreshSave, HandleLogout,
      HandleCreateUser, HandleUpdateUser, HandleDeleteUser, HandleResetPassword,
      HandleUpdatePasswordPolicy, UpdatePasswordPolicy, HandleCreateToken, HandleDeleteToken,
      ServerStep, CountLocalUsers, BootstrapAdmin, Tick
<1>6. servers' \in [Server -> ServerState]
  <2>1. CASE \E v \in Server : ServerStep(v)
    BY <2>1 DEF TypeOK, ServerStep, CountLocalUsers, BootstrapAdmin, ServerState
  <2>2. CASE UNCHANGED servers
    BY <2>2 DEF TypeOK
  <2>3. QED
    BY <2>1, <2>2 DEF Next, vars, LoginLookup, ChangeStart, LoginStep, ChangeStep, RequestFails,
      LoginPolicy, LoginFail, LoginReset, LoginCreate, ChangeWrite, RefreshSave, HandleLogout,
      HandleCreateUser, HandleUpdateUser, HandleDeleteUser, HandleResetPassword,
      HandleUpdatePasswordPolicy, HandleCreateToken, HandleDeleteToken, Tick
<1>7. wrong' \in [User -> Nat]
  <2>1. CASE \E r \in Request, u \in User, match \in BOOLEAN : LoginLookup(r, u, match)
    <3>1. PICK u \in User, match \in BOOLEAN :
                 wrong' = IF match THEN wrong ELSE [wrong EXCEPT ![u] = @ + 1]
      BY <2>1 DEF LoginLookup
    <3>2. wrong \in [User -> Nat]
      BY DEF TypeOK
    <3>3. QED
      BY <3>1, <3>2
  <2>2. CASE ~\E r \in Request, u \in User, match \in BOOLEAN : LoginLookup(r, u, match)
    <3>1. UNCHANGED wrong
      BY <2>2, RequestsElsewhere DEF RequestStep, ChangeStart, LoginStep, ChangeStep, RequestFails,
        LoginPolicy, LoginFail, LoginReset, LoginCreate, ChangeWrite, RefreshSave
    <3>2. QED
      BY <3>1 DEF TypeOK
  <2>3. QED
    BY <2>1, <2>2
<1>8. printed' \subseteq User \X Server
  <2>1. CASE \E v \in Server : BootstrapAdmin(v)
    BY <2>1, BootstrapRow DEF TypeOK
  <2>2. CASE ~\E v \in Server : BootstrapAdmin(v)
    <3>1. UNCHANGED printed
      BY <2>2, UsersElsewhere DEF UserStep, LoginFail, LoginReset, ChangeWrite, HandleCreateUser,
        HandleUpdateUser, HandleDeleteUser, HandleResetPassword, Tick
    <3>2. QED
      BY <3>1 DEF TypeOK
  <2>3. QED
    BY <2>1, <2>2
<1>9. crossed' \subseteq Session
  <2>1. ASSUME NEW r \in Request, RefreshSave(r)
        PROVE  crossed' \subseteq Session
    BY <2>1, SaveRow DEF RefreshSave, SavedFor, TypeOK
  <2>2. ASSUME NEW r \in Request, LoginCreate(r)
        PROVE  crossed' \subseteq Session
    BY <2>2, CreateRow DEF TypeOK
  <2>3. QED
    BY <2>1, <2>2, SessionsElsewhere DEF SessionStep, HandleLogout, Tick, TypeOK
<1>10. QED
  BY <1>1, <1>2, <1>3, <1>4, <1>5, <1>6, <1>7, <1>8, <1>9 DEF TypeOK

(* Every column holds a value of its type: the statements of all handlers  *)
(* and of the bootstrap keep local_users, api_tokens, the sessions and the *)
(* handlers' copies well formed.                                           *)
THEOREM AccountsTypeCorrect == Spec => []TypeOK
  BY InitTypeOK, TypeStep, PTL DEF Spec

----------------------------------------------------------------------------
(* Trust *)

LEMMA InitTrust == Init => TrustInv
<1> SUFFICES ASSUME Init PROVE TrustInv
  OBVIOUS
<1>1. RowsTrusted
  BY DEF Init, RowsTrusted, Exists, NoUser
<1>2. SessionsTrusted
  BY DEF Init, SessionsTrusted, SessionOK, Valid, NoSession
<1>3. CopiesTrusted
  BY DEF Init, CopiesTrusted, Idle
<1>4. QED
  BY <1>1, <1>2, <1>3 DEF TrustInv

(* Who is trusted stays so, deleted or not. *)
LEMMA TrustStays ==
  ASSUME TypeOK, RowsTrusted, [Next]_vars
  PROVE  /\ \A u \in User : Trusted(u) => Trusted(u)'
         /\ chosen \subseteq chosen'
<1>1. CASE UserStep
  <2>1. chosen \subseteq chosen' /\ \A x \in User : RowStep(x)
    BY <1>1, RowSteps
  <2>2. ASSUME NEW u \in User, users[u].root
        PROVE  users'[u].root
    <3>1. users[u].status # "absent"
      BY <2>2 DEF RowsTrusted
    <3>2. QED
      BY <2>1, <2>2, <3>1 DEF RowStep
  <2>3. QED
    BY <2>1, <2>2 DEF Trusted
<1>2. CASE ~UserStep
  BY <1>2, UsersElsewhere DEF Trusted
<1>3. QED
  BY <1>1, <1>2

LEMMA RowsTrustedStep ==
  ASSUME TypeOK, RowsTrusted, [Next]_vars
  PROVE  RowsTrusted'
<1>1. CASE UserStep
  <2>1. \A x \in User : RowStep(x)
    BY <1>1, RowSteps
  <2>2. SUFFICES ASSUME NEW u \in User
                 PROVE  /\ Exists(u)' /\ ~users'[u].force => Trusted(u)'
                        /\ users'[u].status = "absent" => ~users'[u].root
    BY DEF RowsTrusted
  <2>3. users'[u].status = "absent" => ~users'[u].root
    BY <2>1 DEF RowStep, RowsTrusted
  <2>4. ASSUME Exists(u)', ~users'[u].force
        PROVE  Trusted(u)'
    <3>1. \/ Exists(u) /\ ~users[u].force
          \/ u \in chosen'
          \/ Injected /\ users'[u].root
      BY <2>1, <2>4 DEF RowStep
    <3>2. CASE Exists(u) /\ ~users[u].force
      BY <3>2, TrustStays DEF RowsTrusted
    <3>3. CASE u \in chosen' \/ (Injected /\ users'[u].root)
      BY <3>3 DEF Trusted
    <3>4. QED
      BY <3>1, <3>2, <3>3
  <2>5. QED
    BY <2>3, <2>4
<1>2. CASE ~UserStep
  BY <1>2, UsersElsewhere DEF RowsTrusted, Exists, Trusted
<1>3. QED
  BY <1>1, <1>2

LEMMA OldSessionOK ==
  ASSUME TypeOK, RowsTrusted, SessionsTrusted, [Next]_vars, NEW s \in Session,
         sessions'[s] = sessions[s], s \in crossed => s \in crossed'
  PROVE  SessionOK(s)'
<1>1. /\ Valid(s) => /\ sessions[s].user \in User
                     /\ ~sessions[s].force /\ s \notin crossed => Trusted(sessions[s].user)
      /\ sessions[s].ttl <= sessions[s].expiresAt
  BY DEF SessionsTrusted, SessionOK
<1>2. ASSUME NEW u \in User, Trusted(u)
      PROVE  u \in chosen' \/ (Injected /\ users'[u].root)
  BY <1>2, TrustStays DEF Trusted
<1>3. QED
  BY <1>1, <1>2 DEF SessionOK, Valid, Trusted

LEMMA SessionsTrustedStep ==
  ASSUME TypeOK, TrustInv, [Next]_vars
  PROVE  SessionsTrusted'
<1> USE DEF TrustInv
<1> SUFFICES ASSUME NEW s \in Session
             PROVE  SessionOK(s)'
  BY DEF SessionsTrusted
<1>1. ASSUME NEW r \in Request, LoginCreate(r)
      PROVE  SessionOK(s)'
  <2>1. PICK x \in Session :
               /\ sessions' = [sessions EXCEPT ![x] =
                              [user |-> requests[r].user, force |-> requests[r].force,
                               expiresAt |-> SessionTTL, ttl |-> SessionTTL]]
               /\ crossed' = crossed \ {x}
    BY <1>1, CreateRow
  <2>2. CASE s # x
    BY <2>1, <2>2, OldSessionOK DEF TypeOK
  <2>3. CASE s = x
    <3>1. requests[r].user \in User /\ (~requests[r].force => Trusted(requests[r].user))
      BY <1>1, CreateRow DEF CopiesTrusted, LoginCreate
    <3>2. ASSUME NEW u \in User, u = requests[r].user, ~requests[r].force
          PROVE  u \in chosen' \/ (Injected /\ users'[u].root)
      BY <3>1, <3>2, TrustStays DEF Trusted
    <3>3. SessionTTL <= SessionTTL
      BY AccountsAssumption
    <3>4. /\ sessions'[s].user = requests[r].user /\ sessions'[s].force = requests[r].force
          /\ sessions'[s].ttl = SessionTTL /\ sessions'[s].expiresAt = SessionTTL
      BY <2>1, <2>3 DEF TypeOK
    <3>5. QED
      BY <3>1, <3>2, <3>3, <3>4 DEF SessionOK, Trusted
  <2>4. QED
    BY <2>2, <2>3
<1>2. ASSUME NEW r \in Request, RefreshSave(r)
      PROVE  SessionOK(s)'
  <2>1. crossed \subseteq crossed'
    BY <1>2 DEF RefreshSave, SavedFor
  <2>2. CASE s # requests[r].session
    BY <1>2, <2>1, <2>2, SaveRow, OldSessionOK DEF TypeOK
  <2>3. CASE s = requests[r].session
    <3>1. /\ sessions'[s].user = requests[r].copy.user
          /\ sessions'[s].ttl = requests[r].copy.ttl
          /\ sessions'[s].expiresAt = requests[r].copy.expiresAt
      BY <1>2, <2>3, SaveRow DEF TypeOK
    <3>2. /\ requests[r].user \in chosen /\ requests[r].copy.user \in User
          /\ requests[r].copy.ttl <= requests[r].copy.expiresAt
      BY <1>2 DEF CopiesTrusted, RefreshSave
    <3>3. requests[r].copy.user = requests[r].user \/ s \in crossed'
      BY <1>2, <2>3 DEF RefreshSave, SavedFor
    <3>4. chosen \subseteq chosen'
      BY TrustStays
    <3>5. QED
      BY <3>1, <3>2, <3>3, <3>4 DEF SessionOK, Trusted
  <2>4. QED
    BY <2>2, <2>3
<1>3. ASSUME NEW x \in Session, HandleLogout(x)
      PROVE  SessionOK(s)'
  <2>1. UNCHANGED crossed
    BY <1>3 DEF HandleLogout
  <2>2. CASE s = x
    <3>1. sessions'[s] = NoSession
      BY <1>3, <2>2, LogoutRow DEF TypeOK
    <3>2. QED
      BY <3>1 DEF SessionOK, Valid, NoSession
  <2>3. CASE s # x
    BY <1>3, <2>1, <2>3, LogoutRow, OldSessionOK DEF TypeOK
  <2>4. QED
    BY <2>2, <2>3
<1>4. ASSUME Tick
      PROVE  SessionOK(s)'
  <2>1. CASE sessions'[s] = NoSession
    BY <2>1 DEF SessionOK, Valid, NoSession
  <2>2. CASE sessions'[s] # NoSession
    <3>1. /\ sessions[s] # NoSession /\ crossed' = crossed
          /\ sessions'[s].user = sessions[s].user /\ sessions'[s].force = sessions[s].force
          /\ sessions'[s].ttl = Minus1(sessions[s].ttl)
          /\ sessions'[s].expiresAt = Minus1(sessions[s].expiresAt)
      BY <1>4, <2>2, TickSession DEF Tick
    <3>2. /\ sessions[s].user \in User
          /\ ~sessions[s].force /\ s \notin crossed => Trusted(sessions[s].user)
          /\ sessions[s].ttl <= sessions[s].expiresAt
      BY <3>1 DEF SessionsTrusted, SessionOK, Valid
    <3>3. sessions[s].ttl \in Nat /\ sessions[s].expiresAt \in Nat
      BY DEF TypeOK, SessionRow
    <3>4. Minus1(sessions[s].ttl) <= Minus1(sessions[s].expiresAt)
      BY <3>2, <3>3 DEF Minus1
    <3>5. ASSUME NEW u \in User, Trusted(u)
          PROVE  u \in chosen' \/ (Injected /\ users'[u].root)
      BY <3>5, TrustStays DEF Trusted
    <3>6. QED
      BY <3>1, <3>2, <3>4, <3>5 DEF SessionOK, Trusted
  <2>3. QED
    BY <2>1, <2>2
<1>5. CASE ~SessionStep
  BY <1>5, SessionsElsewhere, OldSessionOK
<1>6. QED
  BY <1>1, <1>2, <1>3, <1>4, <1>5 DEF SessionStep

(* What a request's row promises. *)
CopyOK(row) ==
  /\ row.pc \in {"reset", "create"} /\ ~row.force => Trusted(row.user)
  /\ row.pc = "save" =>
       /\ row.user \in chosen
       /\ row.copy.user \in User
       /\ row.copy.ttl <= row.copy.expiresAt

LEMMA OldCopyOK ==
  ASSUME TypeOK, TrustInv, [Next]_vars, NEW q \in Request, NEW row, row = requests[q]
  PROVE  /\ row.pc \in {"reset", "create"} /\ ~row.force =>
              row.user \in chosen' \/ (Injected /\ users'[row.user].root)
         /\ row.pc = "save" =>
              /\ row.user \in chosen'
              /\ row.copy.user \in User
              /\ row.copy.ttl <= row.copy.expiresAt
<1>1. row.pc # "idle" => row.user \in User
  BY DEF TypeOK
<1>2. CopyOK(row)
  BY DEF TrustInv, CopiesTrusted, CopyOK
<1>3. chosen \subseteq chosen' /\ \A u \in User : Trusted(u) => Trusted(u)'
  BY TrustStays DEF TrustInv
<1>4. ASSUME NEW u \in User, Trusted(u)
      PROVE  u \in chosen' \/ (Injected /\ users'[u].root)
  BY <1>3, <1>4 DEF Trusted
<1>5. QED
  BY <1>1, <1>2, <1>3, <1>4 DEF CopyOK

LEMMA CopiesTrustedStep ==
  ASSUME TypeOK, TrustInv, [Next]_vars
  PROVE  CopiesTrusted'
<1>0. SUFFICES ASSUME NEW q \in Request, NEW row, row = requests'[q]
               PROVE  /\ row.pc \in {"reset", "create"} /\ ~row.force =>
                           row.user \in chosen' \/ (Injected /\ users'[row.user].root)
                      /\ row.pc = "save" =>
                           /\ row.user \in chosen'
                           /\ row.copy.user \in User
                           /\ row.copy.ttl <= row.copy.expiresAt
  BY DEF CopiesTrusted, Trusted
<1>1. CASE row = requests[q]
  BY <1>1, OldCopyOK
<1>2. CASE row.pc = "idle"
  BY <1>2
<1>3. ASSUME NEW u \in User, NEW match \in BOOLEAN, LoginLookup(q, u, match), row # requests[q]
      PROVE  /\ row.pc \in {"reset", "create"} /\ ~row.force =>
                  row.user \in chosen' \/ (Injected /\ users'[row.user].root)
             /\ row.pc # "save"
  <2>1. /\ row.user = u /\ row.pc = (IF match THEN "reset" ELSE "policy")
        /\ row.force = (match /\ users[u].force)
    BY <1>0, <1>3, LookupRow DEF TypeOK
  <2>2. ASSUME match, ~users[u].force
        PROVE  Trusted(u)
    BY <1>3, <2>2 DEF TrustInv, RowsTrusted, LoginLookup, Exists
  <2>3. Trusted(u) => u \in chosen' \/ (Injected /\ users'[u].root)
    BY TrustStays DEF TrustInv, Trusted
  <2>4. QED
    BY <2>1, <2>2, <2>3
<1>4. ASSUME NEW u \in User, NEW s \in Session \cup {Nobody}, ChangeStart(q, u, s), row # requests[q]
      PROVE  row.pc = "write"
  BY <1>0, <1>4, StartRow DEF TypeOK
<1>5. ASSUME LoginPolicy(q), row # requests[q]
      PROVE  row.pc = "fail"
  BY <1>0, <1>5, PolicyRow DEF TypeOK
<1>6. ASSUME LoginReset(q), row # requests[q]
      PROVE  /\ row.pc = "create"
             /\ ~row.force => row.user \in chosen' \/ (Injected /\ users'[row.user].root)
  <2>1. row.pc = "create" /\ row.user = requests[q].user /\ row.force = requests[q].force
    BY <1>0, <1>6, ResetRow DEF TypeOK
  <2>2. requests[q].pc = "reset"
    BY <1>6 DEF LoginReset
  <2>3. QED
    BY <2>1, <2>2, OldCopyOK
<1>7. ASSUME ChangeWrite(q), row # requests[q], row.pc # "idle"
      PROVE  /\ row.pc = "save" /\ row.user \in chosen' /\ row.copy.user \in User
             /\ row.copy.ttl <= row.copy.expiresAt
  <2>1. /\ row.pc = "save" /\ row.user = requests[q].user /\ row.session = requests[q].session
        /\ row.session \in Session /\ Valid(row.session) /\ row.copy = sessions[row.session]
    BY <1>0, <1>7, WriteRow, IdleOK DEF TypeOK
  <2>2. row.user \in chosen'
    BY <1>7, <2>1 DEF ChangeWrite
  <2>3. sessions[row.session].user \in User
    BY <2>1 DEF TrustInv, SessionsTrusted, SessionOK
  <2>4. row.copy.ttl <= row.copy.expiresAt
    BY <2>1 DEF TrustInv, SessionsTrusted, SessionOK
  <2>5. QED
    BY <2>1, <2>2, <2>3, <2>4
<1>8. ASSUME LoginFail(q) \/ LoginCreate(q) \/ RefreshSave(q) \/ RequestFails(q)
      PROVE  row.pc = "idle"
  BY <1>0, <1>8, EndRow, IdleOK DEF TypeOK
<1>9. ASSUME NEW r \in Request, RequestStep(r), r # q
      PROVE  row = requests[q]
  <2>1. \E x : requests' = [requests EXCEPT ![r] = x]
    BY <1>9, LookupRow, StartRow, PolicyRow, ResetRow, WriteRow, EndRow
       DEF RequestStep, LoginStep, ChangeStep
  <2>2. QED
    BY <1>0, <1>9, <2>1 DEF TypeOK
<1>10. CASE RequestStep(q) /\ row # requests[q] /\ row.pc # "idle"
  BY <1>3, <1>4, <1>5, <1>6, <1>7, <1>8, <1>10 DEF RequestStep, LoginStep, ChangeStep
<1>11. CASE ~\E r \in Request : RequestStep(r)
  BY <1>0, <1>1, <1>11, RequestsElsewhere
<1>12. QED
  BY <1>1, <1>2, <1>9, <1>10, <1>11

LEMMA TrustStep == TypeOK /\ TrustInv /\ [Next]_vars => TrustInv'
  BY RowsTrustedStep, SessionsTrustedStep, CopiesTrustedStep DEF TrustInv

(* A password somebody else has set opens nothing but the change of it,    *)
(* for every interleaving of logins, changes, logouts, resets and of the   *)
(* superadmin's work on the rows; only a change whose user and cookie are  *)
(* not of the same person frees a session otherwise.                       *)
THEOREM NobodySkipsTheFirstChange == Spec => []ForcedFirstChange
<1>1. TrustInv => ForcedFirstChange
  BY DEF TrustInv, SessionsTrusted, SessionOK, ForcedFirstChange, Valid, Trusted
<1>2. QED
  BY <1>1, InitTypeOK, TypeStep, InitTrust, TrustStep, PTL DEF Spec

(* A session ends in time, however often it is saved anew. *)
THEOREM SessionsEndInTime == Spec => []SessionEnds
<1>1. TrustInv => SessionEnds
  BY DEF TrustInv, SessionsTrusted, SessionOK, SessionEnds
<1>2. QED
  BY <1>1, InitTypeOK, TypeStep, InitTrust, TrustStep, PTL DEF Spec

----------------------------------------------------------------------------
(* Locks *)

(* Only a failed login counts a failure or sets a lock. *)
Eased(x) == users'[x].failed <= users[x].failed /\ users'[x].locked <= users[x].locked

LEMMA RowsEased ==
  ASSUME TypeOK, [Next]_vars, ~\E r \in Request : LoginFail(r)
  PROVE  \A x \in User : Eased(x)
<1>0. \A x \in User : /\ users[x] \in UserRow
                      /\ users[x].failed \in Nat /\ users[x].locked \in Nat
  BY DEF TypeOK, UserRow
<1>1. ASSUME NEW x \in User, users'[x] = users[x]
      PROVE  Eased(x)
  BY <1>0, <1>1 DEF Eased
<1>2. ASSUME NEW x \in User, users'[x].failed = 0, users'[x].locked = 0
      PROVE  Eased(x)
  BY <1>0, <1>2 DEF Eased
<1>3. CASE \E r \in Request : LoginReset(r)
  <2>1. PICK r \in Request : LoginReset(r)
    BY <1>3
  <2> DEFINE u == requests[r].user
  <2>2. /\ u \in User /\ \A x \in User \ {u} : users'[x] = users[x]
        /\ \/ users'[u] = users[u]
           \/ users'[u] = [users[u] EXCEPT !.failed = 0, !.locked = 0]
    BY <2>1, ResetFailedRow
  <2> HIDE DEF u
  <2>3. users'[u] # users[u] => users'[u].failed = 0 /\ users'[u].locked = 0
    BY <1>0, <2>2 DEF UserRow
  <2>4. QED
    BY <1>1, <1>2, <2>2, <2>3
<1>4. ASSUME NEW u \in User, NEW force \in BOOLEAN, UpdatePasswordHash(u, force)
      PROVE  \A x \in User : Eased(x)
  <2>1. /\ \A x \in User \ {u} : users'[x] = users[x]
        /\ ~Exists(u) => users'[u] = users[u]
        /\ Exists(u) => users'[u] = [users[u] EXCEPT !.password = "set", !.force = force,
                                                     !.failed = 0, !.locked = 0]
    BY <1>4, PasswordRow
  <2>2. Exists(u) => users'[u].failed = 0 /\ users'[u].locked = 0
    BY <1>0, <2>1 DEF UserRow
  <2>3. QED
    BY <1>1, <1>2, <2>1, <2>2
<1>5. CASE \E r \in Request : ChangeWrite(r)
  BY <1>4, <1>5 DEF ChangeWrite, TypeOK
<1>6. CASE \E u \in User : HandleResetPassword(u)
  BY <1>4, <1>6 DEF HandleResetPassword
<1>7. CASE \E u \in User, super \in NewSuper : HandleCreateUser(u, super)
  BY <1>1, <1>2, <1>7, CreateUserRow
<1>8. CASE \E u \in User, status \in {"active", "inactive"} : HandleUpdateUser(u, status)
  <2>1. PICK u \in User, status \in {"active", "inactive"} : HandleUpdateUser(u, status)
    BY <1>8
  <2>2. /\ \A x \in User \ {u} : users'[x] = users[x]
        /\ users'[u] = [users[u] EXCEPT !.status = status]
    BY <2>1, UpdateUserRow
  <2>3. users'[u].failed = users[u].failed /\ users'[u].locked = users[u].locked
    BY <1>0, <2>2 DEF UserRow
  <2>4. Eased(u)
    BY <1>0, <2>3 DEF Eased
  <2>5. QED
    BY <1>1, <2>2, <2>4
<1>9. CASE \E u \in User : HandleDeleteUser(u)
  BY <1>1, <1>2, <1>9, DeleteUserRow
<1>10. CASE \E v \in Server : BootstrapAdmin(v)
  <2>1. PICK v \in Server : BootstrapAdmin(v)
    BY <1>10
  <2>2. CASE UNCHANGED users
    BY <1>1, <2>2
  <2>3. CASE ~UNCHANGED users
    <3>1. PICK u \in User : /\ \A x \in User \ {u} : users'[x] = users[x]
                            /\ users'[u].failed = 0 /\ users'[u].locked = 0
      BY <2>1, <2>3, BootstrapRow
    <3>2. QED
      BY <1>1, <1>2, <3>1
  <2>4. QED
    BY <2>2, <2>3
<1>11. CASE Tick
  <2>1. ASSUME NEW x \in User PROVE Eased(x)
    <3>1. /\ users'[x] = [users[x] EXCEPT !.locked = users'[x].locked]
          /\ users'[x].locked <= users[x].locked
      BY <1>11, TickRow
    <3>2. users'[x].failed = users[x].failed
      BY <1>0, <3>1 DEF UserRow
    <3>3. QED
      BY <1>0, <3>1, <3>2 DEF Eased
  <2>2. QED
    BY <2>1
<1>12. CASE ~UserStep
  BY <1>1, <1>12, UsersElsewhere
<1>13. QED
  BY <1>3, <1>5, <1>6, <1>7, <1>8, <1>9, <1>10, <1>11, <1>12 DEF UserStep

LEMMA FailingFinite ==
  \A u : IsFiniteSet(Failing(u)) /\ Cardinality(Failing(u)) \in Nat
<1> SUFFICES ASSUME NEW u PROVE IsFiniteSet(Failing(u)) /\ Cardinality(Failing(u)) \in Nat
  OBVIOUS
<1>1. Failing(u) \subseteq Request /\ IsFiniteSet(Request)
  BY AccountsAssumption DEF Failing
<1>2. QED
  BY <1>1, FS_Subset, FS_CardinalityType

LEMMA InitLock == Init => LockInv
<1> SUFFICES ASSUME Init PROVE LockInv
  OBVIOUS
<1>1. \A u \in User : Failing(u) = {}
  BY IdleOK DEF Init, Failing
<1>2. Cardinality({}) = 0
  BY FS_EmptySet
<1>3. \A u \in User : users[u].failed = 0 /\ users[u].locked = 0 /\ wrong[u] = 0
  BY DEF Init, NoUser
<1>4. \A r \in Request : requests[r].pc = "idle"
  BY IdleOK DEF Init
<1>5. FailuresCounted
  <2>1. \A u \in User : Cardinality(Failing(u)) = 0
    BY <1>1, <1>2
  <2>2. QED
    BY <1>3, <1>4, <2>1 DEF FailuresCounted
<1>6. LocksEarned
  BY <1>3, <1>4 DEF LocksEarned
<1>7. QED
  BY <1>5, <1>6 DEF LockInv

(* A lock follows from a count that was read, which was no more than the   *)
(* wrong passwords so far.                                                 *)
LEMMA LockIsEarned ==
  ASSUME TypeOK, NEW u \in User, NEW n \in Nat, n + 1 <= wrong[u], LockUntil(n) > 0
  PROVE  Earned(u)
<1>1. policy > 0 /\ n + 1 >= policy
  BY AccountsAssumption DEF LockUntil
<1>2. policy \in MaxFailed \ {0} /\ policy \in Nat /\ wrong[u] \in Nat
  BY <1>1, AccountsAssumption DEF TypeOK
<1>3. wrong[u] >= policy
  BY <1>1, <1>2
<1>4. QED
  BY <1>2, <1>3 DEF Earned

(* A step that is not about a failure. *)
LEMMA OtherRequests ==
  ASSUME TypeOK, LockInv, UNCHANGED wrong, \A x \in User : Eased(x), users' \in [User -> UserRow],
         \A q \in Request : \/ requests'[q] = requests[q]
                            \/ /\ requests[q].pc \notin {"policy", "fail"}
                               /\ requests'[q].pc \notin {"policy", "fail"}
  PROVE  LockInv'
<1>2. \A u \in User : Failing(u)' = Failing(u)
  BY DEF Failing
<1>3. \A u \in User : /\ users[u].failed \in Nat /\ users'[u].failed \in Nat
                      /\ users[u].locked \in Nat /\ users'[u].locked \in Nat
                      /\ wrong[u] \in Nat
  BY DEF TypeOK, UserRow
<1>4. \A u \in User : users'[u].failed + Cardinality(Failing(u))' <= wrong'[u]
  BY <1>2, <1>3, FailingFinite DEF Eased, LockInv, FailuresCounted
<1>5. \A q \in Request : requests'[q].pc = "policy" => requests'[q].failed + 1 <= wrong'[requests'[q].user]
  BY DEF LockInv, FailuresCounted
<1>6. \A u : Earned(u) => Earned(u)'
  BY DEF Earned
<1>7. \A u \in User : users'[u].locked > 0 => Earned(u)'
  BY <1>3, <1>6 DEF Eased, LockInv, LocksEarned
<1>8. \A q \in Request : requests'[q].pc = "fail" /\ requests'[q].locked > 0
                            => \E max \in MaxFailed \ {0} : wrong'[requests'[q].user] >= max
  BY DEF LockInv, LocksEarned, Earned
<1>9. QED
  BY <1>4, <1>5, <1>7, <1>8 DEF LockInv, FailuresCounted, LocksEarned, Earned

LEMMA LookupLock ==
  ASSUME TypeOK, LockInv, NEW r \in Request, NEW u \in User, NEW match \in BOOLEAN,
         LoginLookup(r, u, match), ~match
  PROVE  LockInv'
<1>1. PICK row : /\ requests' = [requests EXCEPT ![r] = row] /\ requests[r] = Idle
                 /\ row.user = u /\ row.pc = "policy" /\ row.failed = users[u].failed
  BY LookupRow
<1>2. requests'[r] = row /\ \A q \in Request \ {r} : requests'[q] = requests[q]
  BY <1>1 DEF TypeOK
<1>3. UNCHANGED users /\ wrong' = [wrong EXCEPT ![u] = @ + 1]
  BY DEF LoginLookup
<1>4. \A x \in User : wrong[x] \in Nat /\ users[x].failed \in Nat /\ users[x].locked \in Nat
  BY DEF TypeOK, UserRow
<1>5. wrong'[u] = wrong[u] + 1 /\ \A x \in User \ {u} : wrong'[x] = wrong[x]
  BY <1>3 DEF TypeOK
<1>6. Failing(u)' = Failing(u) \cup {r} /\ r \notin Failing(u)
  BY <1>1, <1>2, IdleOK DEF Failing
<1>7. Cardinality(Failing(u))' = Cardinality(Failing(u)) + 1
  BY <1>6, FailingFinite, FS_AddElement
<1>8. \A x \in User \ {u} : Failing(x)' = Failing(x)
  BY <1>1, <1>2, IdleOK DEF Failing
<1>9. \A x \in User : users'[x].failed + Cardinality(Failing(x))' <= wrong'[x]
  <2>1. \A x \in User : users[x].failed + Cardinality(Failing(x)) <= wrong[x]
    BY DEF LockInv, FailuresCounted
  <2>2. users'[u].failed + Cardinality(Failing(u))' <= wrong'[u]
    BY <1>3, <1>4, <1>5, <1>7, <2>1, FailingFinite
  <2>3. QED
    BY <1>3, <1>5, <1>8, <2>1, <2>2
<1>10. users[u].failed <= wrong[u]
  <2>1. users[u].failed + Cardinality(Failing(u)) <= wrong[u]
    BY DEF LockInv, FailuresCounted
  <2>2. QED
    BY <1>4, <2>1, FailingFinite
<1>11. ASSUME NEW q \in Request, requests'[q].pc = "policy"
       PROVE  requests'[q].failed + 1 <= wrong'[requests'[q].user]
  <2>1. CASE q = r
    BY <1>1, <1>2, <1>4, <1>5, <1>10, <2>1
  <2>2. CASE q # r
    <3>1. requests[q].user \in User /\ requests[q].failed \in Nat
      BY <1>2, <1>11, <2>2 DEF TypeOK, RequestState
    <3>2. requests[q].failed + 1 <= wrong[requests[q].user]
      BY <1>2, <1>11, <2>2 DEF LockInv, FailuresCounted
    <3>3. QED
      BY <1>2, <1>4, <1>5, <2>2, <3>1, <3>2
  <2>3. QED
    BY <2>1, <2>2
<1>12. ASSUME NEW x \in User, Earned(x)
       PROVE  \E max \in MaxFailed \ {0} : wrong'[x] >= max
  <2>1. PICK max \in MaxFailed \ {0} : wrong[x] >= max
    BY <1>12 DEF Earned
  <2>2. max \in Nat
    BY AccountsAssumption
  <2>3. wrong'[x] >= max
    BY <1>4, <1>5, <2>1, <2>2
  <2>4. QED
    BY <2>3
<1>13. ASSUME NEW q \in Request, requests'[q].pc = "fail", requests'[q].locked > 0
       PROVE  \E max \in MaxFailed \ {0} : wrong'[requests'[q].user] >= max
  <2>1. q # r /\ requests'[q] = requests[q]
    BY <1>1, <1>2, <1>13
  <2>2. requests[q].user \in User /\ Earned(requests[q].user)
    BY <1>13, <2>1 DEF TypeOK, LockInv, LocksEarned
  <2>3. QED
    BY <1>12, <2>1, <2>2
<1>14. \A x \in User : users'[x].locked > 0 => \E max \in MaxFailed \ {0} : wrong'[x] >= max
  BY <1>3, <1>12 DEF LockInv, LocksEarned
<1>15. QED
  BY <1>9, <1>11, <1>13, <1>14 DEF LockInv, FailuresCounted, LocksEarned, Earned

LEMMA PolicyLock ==
  ASSUME TypeOK, LockInv, NEW r \in Request, LoginPolicy(r)
  PROVE  LockInv'
<1>1. PICK row : /\ requests' = [requests EXCEPT ![r] = row]
                 /\ row.user = requests[r].user /\ row.pc = "fail"
                 /\ row.locked = LockUntil(requests[r].failed)
  BY PolicyRow
<1>2. requests'[r] = row /\ \A q \in Request \ {r} : requests'[q] = requests[q]
  BY <1>1 DEF TypeOK
<1>3. UNCHANGED <<users, wrong>> /\ requests[r].pc = "policy"
  BY DEF LoginPolicy
<1>4. \A u : Failing(u)' = Failing(u)
  BY <1>1, <1>2, <1>3 DEF Failing
<1>5. requests[r].user \in User /\ requests[r].failed \in Nat
  BY <1>3 DEF TypeOK, RequestState
<1>6. requests[r].failed + 1 <= wrong[requests[r].user]
  BY <1>3 DEF LockInv, FailuresCounted
<1>7. row.locked > 0 => Earned(row.user)
  BY <1>1, <1>5, <1>6, LockIsEarned
<1>8. ASSUME NEW q \in Request, requests'[q].pc = "fail", requests'[q].locked > 0
      PROVE  \E max \in MaxFailed \ {0} : wrong'[requests'[q].user] >= max
  BY <1>2, <1>3, <1>7, <1>8 DEF LockInv, LocksEarned, Earned
<1>9. \A q \in Request : requests'[q].pc = "policy" => requests'[q].failed + 1 <= wrong'[requests'[q].user]
  BY <1>1, <1>2, <1>3 DEF LockInv, FailuresCounted
<1>10. \A x \in User : users'[x].failed + Cardinality(Failing(x))' <= wrong'[x]
  BY <1>3, <1>4 DEF LockInv, FailuresCounted
<1>11. \A x \in User : users'[x].locked > 0 => \E max \in MaxFailed \ {0} : wrong'[x] >= max
  BY <1>3 DEF LockInv, LocksEarned, Earned
<1>12. QED
  BY <1>8, <1>9, <1>10, <1>11 DEF LockInv, FailuresCounted, LocksEarned, Earned

LEMMA FailLock ==
  ASSUME TypeOK, LockInv, NEW r \in Request, LoginFail(r)
  PROVE  LockInv'
<1> SUFFICES ASSUME NEW u \in User, u = requests[r].user PROVE LockInv'
  BY FailRow
<1> DEFINE n == users[u].failed + 1
<1>1. requests' = [requests EXCEPT ![r] = Idle] /\ UNCHANGED wrong /\ requests[r].pc = "fail"
  BY DEF LoginFail
<1>2. requests'[r] = Idle /\ \A q \in Request \ {r} : requests'[q] = requests[q]
  BY <1>1 DEF TypeOK
<1>3. /\ u \in User /\ users[u] \in UserRow
      /\ \A x \in User \ {u} : users'[x] = users[x]
      /\ \/ users'[u] = users[u]
         \/ users'[u] = [users[u] EXCEPT !.failed = n, !.locked = requests[r].locked]
  BY FailRow DEF TypeOK
<1>4. \A x \in User : wrong[x] \in Nat /\ users[x].failed \in Nat /\ users[x].locked \in Nat
  BY DEF TypeOK, UserRow
<1> HIDE DEF n
<1>5. /\ users'[u].failed = users[u].failed \/ users'[u].failed = n
      /\ users'[u].locked = users[u].locked \/ users'[u].locked = requests[r].locked
  BY <1>3 DEF UserRow
<1>6. Failing(u)' = Failing(u) \ {r} /\ r \in Failing(u)
  BY <1>1, <1>2, IdleOK DEF Failing
<1>7. Cardinality(Failing(u))' = Cardinality(Failing(u)) - 1
  BY <1>6, FailingFinite, FS_RemoveElement
<1>8. \A x \in User \ {u} : Failing(x)' = Failing(x)
  BY <1>1, <1>2, IdleOK DEF Failing
<1>9. \A x \in User : users'[x].failed + Cardinality(Failing(x))' <= wrong'[x]
  <2>1. \A x \in User : users[x].failed + Cardinality(Failing(x)) <= wrong[x]
    BY DEF LockInv, FailuresCounted
  <2>2. users'[u].failed + Cardinality(Failing(u))' <= wrong'[u]
    BY <1>1, <1>3, <1>4, <1>5, <1>7, <2>1, FailingFinite DEF n
  <2>3. QED
    BY <1>1, <1>3, <1>8, <2>1, <2>2
<1>10. \A q \in Request : requests'[q].pc = "policy" => requests'[q].failed + 1 <= wrong'[requests'[q].user]
  BY <1>1, <1>2, IdleOK DEF LockInv, FailuresCounted
<1>11. \A q \in Request : requests'[q].pc = "fail" /\ requests'[q].locked > 0
                            => \E max \in MaxFailed \ {0} : wrong'[requests'[q].user] >= max
  BY <1>1, <1>2, IdleOK DEF LockInv, LocksEarned, Earned
<1>12. \A x \in User : users'[x].locked > 0 => \E max \in MaxFailed \ {0} : wrong'[x] >= max
  <2>1. users[u].locked > 0 \/ requests[r].locked > 0 => Earned(u)
    BY <1>1, <1>3 DEF LockInv, LocksEarned
  <2>2. \A x \in User : users'[x].locked > 0 => Earned(x)
    BY <1>3, <1>5, <2>1 DEF LockInv, LocksEarned
  <2>3. QED
    BY <1>1, <2>2 DEF Earned
<1>13. QED
  BY <1>9, <1>10, <1>11, <1>12 DEF LockInv, FailuresCounted, LocksEarned, Earned

LEMMA LockStep == TypeOK /\ LockInv /\ [Next]_vars => LockInv'
<1> SUFFICES ASSUME TypeOK, LockInv, [Next]_vars PROVE LockInv'
  OBVIOUS
<1>0. users' \in [User -> UserRow]
  BY TypeStep DEF TypeOK
<1>1. CASE \E r \in Request : LoginFail(r)
  BY <1>1, FailLock
<1>2. CASE \E r \in Request : LoginPolicy(r)
  BY <1>2, PolicyLock
<1>3. ASSUME NEW r \in Request, NEW u \in User, NEW match \in BOOLEAN, LoginLookup(r, u, match), ~match
      PROVE  LockInv'
  BY <1>3, LookupLock
<1>4. ASSUME ~\E r \in Request : LoginFail(r), NEW r \in Request, UNCHANGED wrong,
             NEW row, requests' = [requests EXCEPT ![r] = row],
             requests[r].pc \notin {"policy", "fail"}, row.pc \notin {"policy", "fail"}
      PROVE  LockInv'
  <2>1. requests'[r] = row /\ \A q \in Request \ {r} : requests'[q] = requests[q]
    BY <1>4 DEF TypeOK
  <2>2. \A x \in User : Eased(x)
    BY <1>4, RowsEased
  <2>3. QED
    BY <1>0, <1>4, <2>1, <2>2, OtherRequests
<1>5. ASSUME ~\E r \in Request : LoginFail(r),
             NEW r \in Request, NEW u \in User, NEW match \in BOOLEAN, LoginLookup(r, u, match), match
      PROVE  LockInv'
  <2> DEFINE row == [Idle EXCEPT !.pc = "reset", !.user = u, !.force = users[u].force]
  <2>1. row.pc = "reset"
    BY DEF Idle
  <2>2. requests' = [requests EXCEPT ![r] = row] /\ requests[r] = Idle /\ UNCHANGED wrong
    BY <1>5 DEF LoginLookup
  <2> HIDE DEF row
  <2>3. QED
    BY <1>4, <1>5, <2>1, <2>2, IdleOK
<1>6. ASSUME ~\E r \in Request : LoginFail(r),
             NEW r \in Request, NEW u \in User, NEW s \in Session \cup {Nobody}, ChangeStart(r, u, s)
      PROVE  LockInv'
  <2>1. PICK row : requests' = [requests EXCEPT ![r] = row] /\ requests[r] = Idle /\ row.pc = "write"
    BY <1>6, StartRow
  <2>2. UNCHANGED wrong
    BY <1>6 DEF ChangeStart
  <2>3. QED
    BY <1>4, <1>6, <2>1, <2>2, IdleOK
<1>7. ASSUME ~\E r \in Request : LoginFail(r), NEW r \in Request, LoginReset(r)
      PROVE  LockInv'
  <2>1. PICK row : requests' = [requests EXCEPT ![r] = row] /\ row.pc = "create"
    BY <1>7, ResetRow
  <2>2. UNCHANGED wrong /\ requests[r].pc = "reset"
    BY <1>7 DEF LoginReset
  <2>3. QED
    BY <1>4, <1>7, <2>1, <2>2
<1>8. ASSUME ~\E r \in Request : LoginFail(r), NEW r \in Request, ChangeWrite(r)
      PROVE  LockInv'
  <2>1. PICK row : requests' = [requests EXCEPT ![r] = row] /\ row.pc \in {"idle", "save"}
    BY <1>8, WriteRow, IdleOK
  <2>2. UNCHANGED wrong /\ requests[r].pc = "write"
    BY <1>8 DEF ChangeWrite
  <2>3. QED
    BY <1>4, <1>8, <2>1, <2>2
<1>9. ASSUME ~\E r \in Request : LoginFail(r), NEW r \in Request,
             LoginCreate(r) \/ RefreshSave(r) \/ RequestFails(r)
      PROVE  LockInv'
  <2>1. requests' = [requests EXCEPT ![r] = Idle]
    BY <1>9, EndRow
  <2>2. UNCHANGED wrong /\ requests[r].pc \in {"create", "save"}
    BY <1>9 DEF LoginCreate, RefreshSave, RequestFails
  <2>3. QED
    BY <1>4, <1>9, <2>1, <2>2, IdleOK
<1>10. CASE ~(\E r \in Request : RequestStep(r)) /\ ~(\E r \in Request : LoginFail(r))
  BY <1>0, <1>10, RequestsElsewhere, RowsEased, OtherRequests
<1>11. CASE \E r \in Request : RequestStep(r)
  BY <1>1, <1>2, <1>3, <1>5, <1>6, <1>7, <1>8, <1>9, <1>11 DEF RequestStep, LoginStep, ChangeStep
<1>12. QED
  BY <1>1, <1>10, <1>11

(* An account is locked only after as many wrong passwords as some limit   *)
(* the policy may set, whatever the interleaving of the logins that fail,  *)
(* of those that succeed and of the changes of the policy.                 *)
THEOREM LocksNeedFailures == Spec => []LockNeedsFailures
<1>1. LockInv => LockNeedsFailures
  BY DEF LockInv, LocksEarned, Earned, LockNeedsFailures
<1>2. QED
  BY <1>1, InitTypeOK, TypeStep, InitLock, LockStep, PTL DEF Spec

----------------------------------------------------------------------------
(* The printed password *)

LEMMA InitPrint == Init => PrintInv
  BY DEF Init, PrintInv, PrintedInserted, PrintedPasswordWorks, Exists, NoUser

(* A row is only written again, and a second administrator not inserted. *)
LEMMA RewrittenRows ==
  ASSUME TypeOK, PrintInv, UNCHANGED printed, \A x \in User : RowStep(x),
         \A x \in User : Exists(x)' /\ users'[x].root => Exists(x) /\ users[x].root
  PROVE  PrintInv'
<1>1. \A u \in User, v \in Server : <<u, v>> \in printed => users'[u].status # "absent"
  BY DEF PrintInv, PrintedInserted, RowStep
<1>2. ASSUME NEW u \in User, NEW v \in Server, <<u, v>> \in printed
      PROVE  users'[u].password \in {v, "set"}
  BY <1>2 DEF PrintInv, PrintedInserted, PrintedPasswordWorks, RowStep
<1>3. \A u, x \in User : Exists(u)' /\ users'[u].root /\ Exists(x)' /\ users'[x].root => u = x
  BY DEF PrintInv, PrintedPasswordWorks
<1>4. QED
  BY <1>1, <1>2, <1>3 DEF PrintInv, PrintedInserted, PrintedPasswordWorks

LEMMA PrintStep == TypeOK /\ PrintInv /\ [Next]_vars => PrintInv'
<1> SUFFICES ASSUME TypeOK, PrintInv, [Next]_vars PROVE PrintInv'
  OBVIOUS
<1>1. ASSUME NEW v \in Server, BootstrapAdmin(v)
      PROVE  PrintInv'
  <2>1. CASE UNCHANGED <<users, printed>>
    BY <2>1 DEF PrintInv, PrintedInserted, PrintedPasswordWorks, Exists
  <2>2. CASE ~UNCHANGED <<users, printed>>
    <3>1. /\ \A x \in User : ~(Exists(x) /\ users[x].root)
          /\ \E u \in User :
               /\ users[u].status = "absent" /\ \A x \in User \ {u} : users'[x] = users[x]
               /\ users'[u].status = "active"
               /\ users'[u].password = (IF Injected THEN "set" ELSE v)
               /\ printed' = IF Injected THEN printed ELSE printed \cup {<<u, v>>}
      BY <1>1, <2>2, BootstrapRow
    <3>2. PICK u \in User :
               /\ users[u].status = "absent" /\ \A x \in User \ {u} : users'[x] = users[x]
               /\ users'[u].status = "active"
               /\ users'[u].password = (IF Injected THEN "set" ELSE v)
               /\ printed' = IF Injected THEN printed ELSE printed \cup {<<u, v>>}
      BY <3>1
    <3>3. \A w \in Server : <<u, w>> \notin printed
      BY <3>2 DEF PrintInv, PrintedInserted
    <3>4. \A x \in User, w \in Server : <<x, w>> \in printed' =>
            \/ x # u /\ <<x, w>> \in printed
            \/ x = u /\ w = v /\ ~Injected
      BY <3>2, <3>3
    <3>5. PrintedInserted'
      BY <3>2, <3>4 DEF PrintInv, PrintedInserted
    <3>6. \A x \in User, w \in Server : <<x, w>> \in printed' => users'[x].password \in {w, "set"}
      BY <3>2, <3>4 DEF PrintInv, PrintedPasswordWorks
    <3>7. \A x \in User \ {u} : ~(Exists(x)' /\ users'[x].root)
      BY <3>1, <3>2 DEF Exists
    <3>8. QED
      BY <3>5, <3>6, <3>7 DEF PrintInv, PrintedPasswordWorks
  <2>3. QED
    BY <2>1, <2>2
<1>2. CASE UserStep /\ ~\E v \in Server : BootstrapAdmin(v)
  <2>1. UNCHANGED printed
    BY <1>2 DEF UserStep, LoginFail, LoginReset, ChangeWrite, HandleCreateUser,
         HandleUpdateUser, HandleDeleteUser, HandleResetPassword, Tick
  <2>2. \A x \in User : RowStep(x)
    BY <1>2, RowSteps
  <2>3. ASSUME NEW x \in User, users[x].status = "absent", Exists(x)', users'[x].root
        PROVE  FALSE
    <3>1. ASSUME NEW r \in Request, LoginFail(r) \/ LoginReset(r) \/ ChangeWrite(r)
          PROVE  users'[x] = users[x] \/ Exists(x)
      BY <3>1, FailRow, ResetFailedRow, PasswordRow DEF ChangeWrite, TypeOK
    <3>2. ASSUME NEW u \in User, HandleResetPassword(u)
          PROVE  users'[x] = users[x] \/ Exists(x)
      BY <3>2, PasswordRow DEF HandleResetPassword
    <3>3. ASSUME NEW u \in User, NEW super \in NewSuper, HandleCreateUser(u, super)
          PROVE  users'[x] = users[x] \/ ~users'[x].root
      BY <3>3, CreateUserRow
    <3>4. ASSUME NEW u \in User, NEW status \in {"active", "inactive"}, HandleUpdateUser(u, status)
          PROVE  users'[x] = users[x] \/ Exists(x)
      BY <3>4, UpdateUserRow
    <3>5. ASSUME NEW u \in User, HandleDeleteUser(u)
          PROVE  users'[x] = users[x] \/ Exists(x)
      BY <3>5, DeleteUserRow
    <3>6. ASSUME Tick
          PROVE  users'[x].status = users[x].status
      <4>1. users'[x] = [users[x] EXCEPT !.locked = users'[x].locked] /\ users[x] \in UserRow
        BY <3>6, TickRow DEF TypeOK
      <4>2. QED
        BY <4>1 DEF UserRow
    <3>7. ~Exists(x) /\ users'[x].status # "absent"
      BY <2>3 DEF Exists
    <3>8. QED
      BY <1>2, <2>3, <3>1, <3>2, <3>3, <3>4, <3>5, <3>6, <3>7 DEF UserStep
  <2>4. ASSUME NEW x \in User, users[x].status = "deleted"
        PROVE  ~Exists(x)'
    <3>1. ~Exists(x)
      BY <2>4 DEF Exists
    <3>2. ASSUME Tick
          PROVE  users'[x].status = users[x].status
      <4>1. users'[x] = [users[x] EXCEPT !.locked = users'[x].locked] /\ users[x] \in UserRow
        BY <3>2, TickRow DEF TypeOK
      <4>2. QED
        BY <4>1 DEF UserRow
    <3>3. ASSUME NEW r \in Request, LoginFail(r) \/ LoginReset(r) \/ ChangeWrite(r)
          PROVE  users'[x] = users[x]
      BY <3>1, <3>3, FailRow, ResetFailedRow, PasswordRow DEF ChangeWrite, TypeOK
    <3>4. ASSUME NEW u \in User, HandleResetPassword(u)
          PROVE  users'[x] = users[x]
      BY <3>1, <3>4, PasswordRow DEF HandleResetPassword
    <3>5. ASSUME NEW u \in User, NEW super \in NewSuper, HandleCreateUser(u, super)
          PROVE  users'[x] = users[x]
      BY <2>4, <3>5, CreateUserRow
    <3>6. ASSUME NEW u \in User, NEW status \in {"active", "inactive"}, HandleUpdateUser(u, status)
          PROVE  users'[x] = users[x]
      BY <3>1, <3>6, UpdateUserRow
    <3>7. ASSUME NEW u \in User, HandleDeleteUser(u)
          PROVE  users'[x] = users[x]
      BY <3>1, <3>7, DeleteUserRow
    <3>8. users'[x].status = "deleted"
      BY <1>2, <2>4, <3>2, <3>3, <3>4, <3>5, <3>6, <3>7 DEF UserStep
    <3>9. QED
      BY <3>8 DEF Exists
  <2>5. \A x \in User : users[x].status \in {"absent", "active", "inactive", "deleted"}
    BY DEF TypeOK, UserRow
  <2>6. \A x \in User : Exists(x)' /\ users'[x].root => Exists(x) /\ users[x].root
    BY <2>2, <2>3, <2>4, <2>5 DEF RowStep, Exists
  <2>7. QED
    BY <2>1, <2>2, <2>6, RewrittenRows
<1>3. CASE ~UserStep
  BY <1>3, UsersElsewhere DEF PrintInv, PrintedInserted, PrintedPasswordWorks, Exists
<1>4. QED
  BY <1>1, <1>2, <1>3

(* Of the replicas that start together on an empty database one prints a   *)
(* password, and it is the administrator's until somebody replaces it.     *)
THEOREM PrintedPasswordsWork == Spec => []PrintedPasswordWorks
<1>1. PrintInv => PrintedPasswordWorks
  BY DEF PrintInv
<1>2. QED
  BY <1>1, InitTypeOK, TypeStep, InitPrint, PrintStep, PTL DEF Spec

(* The whole inductive invariant: what the copies in flight, the counters  *)
(* and the rows owe to each other.                                         *)
THEOREM AccountsInductive == Spec => []AccountsInv
<1>1. Init => AccountsInv
  BY InitTypeOK, InitTrust, InitLock, InitPrint DEF AccountsInv
<1>2. AccountsInv /\ [Next]_vars => AccountsInv'
  BY TypeStep, TrustStep, LockStep, PrintStep DEF AccountsInv
<1>3. QED
  BY <1>1, <1>2, PTL DEF Spec
============================================================================
