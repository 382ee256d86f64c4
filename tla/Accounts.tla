------------------------------- MODULE Accounts -------------------------------
(***************************************************************************)
(* User accounts of Service-hub: AuthService (register, login, refresh,    *)
(* logout), the guards that let a request in, and the status changes of    *)
(* AdminUserService, over the users table and the audit log.               *)
(*                                                                         *)
(* Nothing here runs in a transaction.  A handler step is one statement of *)
(* the database; what a handler read is kept in its record, and the        *)
(* process may stop between any two steps.  Names, passwords and the login *)
(* time are left out: nothing decides on them once the password matched.   *)
(***************************************************************************)
EXTENDS Naturals, FiniteSets

CONSTANTS
  Users,     \* ids of user rows
  Admins,    \* the rows that exist at the start, see Init
  Emails,
  Phones,
  Handlers,  \* HTTP requests in flight at once
  Statuses,  \* the statuses administrators ask for
  None       \* no user, no email, no phone

UserStatus == {"ACTIVE", "INACTIVE", "BLOCKED", "SUSPENDED"}

ASSUME AccountAssumption ==
  /\ IsFiniteSet(Users)
  /\ Admins \subseteq Users /\ Admins # {}
  /\ None \notin Users \cup Emails \cup Phones
  /\ Statuses \subseteq UserStatus

VARIABLES
  user,     \* table users
  audit,    \* audit_logs: the newValue of every entry about a user
  req,      \* the handlers
  crossed,  \* history: two status changes were under way at once
  closed    \* history: users logged out with no sign-in under way since

vars == <<user, audit, req, crossed, closed>>

-----------------------------------------------------------------------------
(* Types and initial state *)

\* role "NONE": there is no such row.  session: refreshTokenHash is not null.
\* bcrypt reads 72 bytes, which end inside the subject claim of a token, so a
\* hash that is there matches every refresh token of its user.
User == [role : {"NONE", "USER", "ADMIN"}, status : UserStatus,
         email : Emails \cup {None}, phone : Phones \cup {None},
         session : BOOLEAN]

NoUser == [role |-> "NONE", status |-> "ACTIVE", email |-> None,
           phone |-> None, session |-> FALSE]

Step == {"idle", "register_phone", "register_create", "tokens", "logout",
         "status_read", "status_count", "status_audit", "status_write"}

Request == [pc : Step, u : Users \cup {None}, actor : Users \cup {None},
            email : Emails \cup {None}, phone : Phones \cup {None},
            status : UserStatus]

Idle == [pc |-> "idle", u |-> None, actor |-> None, email |-> None,
         phone |-> None, status |-> "ACTIVE"]

Exists(u) == user[u].role # "NONE"

Distinct(t) ==
  \A u, v \in Users :
    u # v /\ t[u].role # "NONE" /\ t[v].role # "NONE" =>
      t[u].email # t[v].email /\ t[u].phone # t[v].phone

\* Administrators are made outside the program: register gives the role USER
\* and no operation changes a role.
Init ==
  /\ \E e \in [Admins -> Emails], p \in [Admins -> Phones] :
       user = [u \in Users |->
                 IF u \in Admins
                 THEN [NoUser EXCEPT !.role = "ADMIN", !.email = e[u],
                                     !.phone = p[u]]
                 ELSE NoUser]
  /\ Distinct(user)
  /\ audit = [u \in Users |-> {}]
  /\ req = [h \in Handlers |-> Idle]
  /\ crossed = FALSE
  /\ closed = {}

-----------------------------------------------------------------------------
(* Requests and guards *)

At(h, step) == req[h].pc = step

Goto(h, step) == req' = [req EXCEPT ![h].pc = step]

\* The response is sent, or an exception ends the request.
Return(h) == req' = [req EXCEPT ![h] = Idle]

\* JwtStrategy.validate: the row is read again on every request.
Authenticated(u) == Exists(u) /\ user[u].status = "ACTIVE"

\* RoleGuard on a controller with @Auth(Role.ADMIN).
AdminAuthenticated(u) == Authenticated(u) /\ user[u].role = "ADMIN"

-----------------------------------------------------------------------------
(* AuthService.register *)

\* findByEmail; an email that is taken ends the request.
Register(h, e, p) ==
  /\ At(h, "idle")
  /\ \A v \in Users : Exists(v) => user[v].email # e
  /\ req' = [req EXCEPT ![h] = [Idle EXCEPT !.pc = "register_phone",
                                            !.email = e, !.phone = p]]
  /\ UNCHANGED <<user, audit, crossed, closed>>

RegisterPhone(h) ==
  /\ At(h, "register_phone")
  /\ IF \E v \in Users : Exists(v) /\ user[v].phone = req[h].phone
     THEN Return(h) ELSE Goto(h, "register_create")
  /\ UNCHANGED <<user, audit, crossed, closed>>

\* The unique indexes of users.email and users.phone.
\* (Mutant: the schema has no such index.)
NoIndex(e, p) == FALSE

UniqueViolation(e, p) ==
  \E v \in Users : Exists(v) /\ (user[v].email = e \/ user[v].phone = p)

\* The insert; a unique violation ends the request.
RegisterCreate(h, u) ==
  /\ At(h, "register_create")
  /\ ~Exists(u)
  /\ IF UniqueViolation(req[h].email, req[h].phone)
     THEN Return(h) /\ UNCHANGED user
     ELSE /\ user' = [user EXCEPT ![u] =
                        [NoUser EXCEPT !.role = "USER",
                                       !.email = req[h].email,
                                       !.phone = req[h].phone]]
          /\ req' = [req EXCEPT ![h] = [@ EXCEPT !.pc = "tokens", !.u = u]]
  /\ UNCHANGED <<audit, crossed, closed>>

-----------------------------------------------------------------------------
(* AuthService.login, refresh, logout *)

\* Email and password match; the status of the account is not looked at.
Login(h, u) ==
  /\ At(h, "idle")
  /\ Exists(u)
  /\ req' = [req EXCEPT ![h] = [Idle EXCEPT !.pc = "tokens", !.u = u]]
  /\ closed' = closed \ {u}
  /\ UNCHANGED <<user, audit, crossed>>

\* (Mutant: refresh accepts every token whose signature verifies.)
AnySession(u) == Exists(u)

\* findById and the test of refreshTokenHash.
HasSession(u) == Exists(u) /\ user[u].session

Refresh(h, u) ==
  /\ At(h, "idle")
  /\ HasSession(u)
  /\ req' = [req EXCEPT ![h] = [Idle EXCEPT !.pc = "tokens", !.u = u]]
  /\ UNCHANGED <<user, audit, crossed, closed>>

\* generateTokens, whose last statement stores the hash of the new token.
GenerateTokens(h) ==
  /\ At(h, "tokens")
  /\ user' = [user EXCEPT ![req[h].u].session = TRUE]
  /\ Return(h)
  /\ UNCHANGED <<audit, crossed, closed>>

Logout(h, u) ==
  /\ At(h, "idle")
  /\ Authenticated(u)
  /\ req' = [req EXCEPT ![h] = [Idle EXCEPT !.pc = "logout", !.u = u]]
  /\ UNCHANGED <<user, audit, crossed, closed>>

\* A request that is about to store a hash for u.
SigningIn(u) == \E g \in Handlers : At(g, "tokens") /\ req[g].u = u

LogoutWrite(h) ==
  LET u == req[h].u IN
  /\ At(h, "logout")
  /\ user' = [user EXCEPT ![u].session = FALSE]
  /\ closed' = IF SigningIn(u) THEN closed ELSE closed \cup {u}
  /\ Return(h)
  /\ UNCHANGED <<audit, crossed>>

-----------------------------------------------------------------------------
(* AdminUserService.updateStatus *)

\* The guards let the administrator a in, who asks to give u the status s.
UpdateStatus(h, a, u, s) ==
  /\ At(h, "idle")
  /\ AdminAuthenticated(a)
  /\ req' = [req EXCEPT ![h] = [Idle EXCEPT !.pc = "status_read", !.u = u,
                                            !.actor = a, !.status = s]]
  /\ UNCHANGED <<user, audit, crossed, closed>>

\* Between the read of the target and the update of it.
ChangingStatus(h) ==
  req[h].pc \in {"status_count", "status_audit", "status_write"}

\* Only an active administrator who is to lose that status is counted.
MustCount(u, s) ==
  user[u].role = "ADMIN" /\ user[u].status = "ACTIVE" /\ s # "ACTIVE"

\* Invariant 1.
TargetsSelf(h) == req[h].u = req[h].actor

\* findOne, and the checks that need no further query.
StatusRead(h) ==
  LET u == req[h].u IN
  /\ At(h, "status_read")
  /\ \/ /\ ~Exists(u) \/ TargetsSelf(h)
        /\ Return(h)
        /\ UNCHANGED crossed
     \/ /\ Exists(u) /\ ~TargetsSelf(h)
        /\ Goto(h, IF MustCount(u, req[h].status)
                   THEN "status_count" ELSE "status_audit")
        /\ crossed' = (crossed \/ \E g \in Handlers \ {h} : ChangingStatus(g))
  /\ UNCHANGED <<user, audit, closed>>

ActiveAdmins ==
  {u \in Users : user[u].role = "ADMIN" /\ user[u].status = "ACTIVE"}

\* Invariant 2.  (Mutant: one is enough.)
EnoughWithOne == Cardinality(ActiveAdmins) >= 1

EnoughAdmins == Cardinality(ActiveAdmins) > 1

StatusCount(h) ==
  /\ At(h, "status_count")
  /\ IF EnoughAdmins THEN Goto(h, "status_audit") ELSE Return(h)
  /\ UNCHANGED <<user, audit, crossed, closed>>

\* (Mutant: only a suspension is logged.)
LogSuspension(h) ==
  IF req[h].status = "SUSPENDED"
  THEN audit' = [audit EXCEPT ![req[h].u] = @ \cup {req[h].status}]
  ELSE UNCHANGED audit

LogStatus(h) == audit' = [audit EXCEPT ![req[h].u] = @ \cup {req[h].status}]

StatusAudit(h) ==
  /\ At(h, "status_audit")
  /\ LogStatus(h)
  /\ Goto(h, "status_write")
  /\ UNCHANGED <<user, crossed, closed>>

\* The update is by id, whatever the row has become since it was read.
StatusWrite(h) ==
  /\ At(h, "status_write")
  /\ user' = [user EXCEPT ![req[h].u].status = req[h].status]
  /\ Return(h)
  /\ UNCHANGED <<audit, crossed, closed>>

\* The process stops, or a statement fails.
Stops(h) ==
  /\ ~At(h, "idle")
  /\ Return(h)
  /\ UNCHANGED <<user, audit, crossed, closed>>

-----------------------------------------------------------------------------

AuthRequest(h) ==
  \/ \E e \in Emails, p \in Phones : Register(h, e, p)
  \/ RegisterPhone(h)
  \/ \E u \in Users : RegisterCreate(h, u) \/ Login(h, u) \/ Refresh(h, u)
                        \/ Logout(h, u)
  \/ GenerateTokens(h) \/ LogoutWrite(h)

AdminRequest(h) ==
  \/ \E a, u \in Users, s \in Statuses : UpdateStatus(h, a, u, s)
  \/ StatusRead(h) \/ StatusCount(h) \/ StatusAudit(h) \/ StatusWrite(h)

Next ==
  \E h \in Handlers : AuthRequest(h) \/ AdminRequest(h) \/ Stops(h)

Spec == Init /\ [][Next]_vars

-----------------------------------------------------------------------------
(* Correctness *)

\* Types of the tables and the handlers.
TypeOK ==
  /\ user \in [Users -> User]
  /\ audit \in [Users -> SUBSET UserStatus]
  /\ req \in [Handlers -> Request]
  /\ crossed \in BOOLEAN
  /\ closed \subseteq Users

\* Registrations that looked for the same email or phone at the same time do
\* not both succeed (register checks first, the unique indexes decide).
IdentityIsUnique == Distinct(user)

\* An administrator stays active, unless two status changes were under way at
\* once: also when the acting administrator lost that status after the guards
\* let the request in (the count and the self check of updateStatus).
AdminRemains == ~crossed => ActiveAdmins # {}

\* Whatever status an account has, other than the one it was created with, is
\* announced in the audit log, wherever the process stopped (updateStatus
\* writes the log first).
StatusIsAudited ==
  \A u \in Users : user[u].status # "ACTIVE" => user[u].status \in audit[u]

\* A logout is final until the next login, unless a login or refresh was about
\* to store its hash at that moment (logout, refresh).
LogoutIsFinal == \A u \in closed : ~user[u].session

=============================================================================
