----------------------------- MODULE AccountProofs -----------------------------
(***************************************************************************)
(* What holds of accounts, sessions and administrators for any number of   *)
(* users and requests.                                                     *)
(***************************************************************************)
EXTENDS Accounts, FiniteSetTheorems, TLAPS

-----------------------------------------------------------------------------
(* Types *)

\* What a request carries at each step; a row that was found stays.
ReqBound(h) ==
  /\ req[h].pc \in {"register_phone", "register_create"} =>
       req[h].email \in Emails /\ req[h].phone \in Phones
  /\ req[h].pc = "status_read" => req[h].u \in Users /\ req[h].actor \in Users
  /\ req[h].pc \in {"tokens", "logout", "status_count", "status_audit",
                    "status_write"} => req[h].u \in Users /\ Exists(req[h].u)

Types == TypeOK /\ \A h \in Handlers : ReqBound(h)

LEMMA IdleRow == Idle \in Request /\ Idle.pc = "idle"
BY DEF Idle, Request, Step, UserStatus

LEMMA NoUserRow == NoUser \in User
BY DEF NoUser, User, UserStatus

LEMMA ReqRow ==
  ASSUME Types, NEW h \in Handlers, NEW r \in Request,
         req' = [req EXCEPT ![h] = r]
  PROVE  /\ req' \in [Handlers -> Request] /\ req'[h] = r
         /\ \A g \in Handlers \ {h} : req'[g] = req[g]
BY DEF Types, TypeOK

\* Goto as the assignment of a record.
LEMMA GotoRow ==
  ASSUME Types, NEW h \in Handlers, NEW step \in Step, Goto(h, step)
  PROVE  \E r \in Request :
           /\ req' = [req EXCEPT ![h] = r] /\ r.pc = step
           /\ r.u = req[h].u /\ r.actor = req[h].actor /\ r.status = req[h].status
           /\ r.email = req[h].email /\ r.phone = req[h].phone
<1> DEFINE r == [req[h] EXCEPT !.pc = step]
<1>1. req[h] \in Request
  BY DEF Types, TypeOK
<1>2. /\ r \in Request /\ r.pc = step
      /\ r.u = req[h].u /\ r.actor = req[h].actor /\ r.status = req[h].status
      /\ r.email = req[h].email /\ r.phone = req[h].phone
  BY <1>1 DEF Request
<1>3. req' = [req EXCEPT ![h] = r]
  BY DEF Goto
<1> QED BY <1>2, <1>3

\* A step of one request that leaves every existing row in place.
LEMMA StepTypes ==
  ASSUME Types, NEW h \in Handlers, NEW r \in Request,
         req' = [req EXCEPT ![h] = r],
         user' \in [Users -> User], audit' \in [Users -> SUBSET UserStatus],
         crossed' \in BOOLEAN, closed' \subseteq Users,
         \A u \in Users : Exists(u) => Exists(u)',
         r.pc \in {"register_phone", "register_create"} =>
           r.email \in Emails /\ r.phone \in Phones,
         r.pc = "status_read" => r.u \in Users /\ r.actor \in Users,
         r.pc \in {"tokens", "logout", "status_count", "status_audit",
                   "status_write"} => r.u \in Users /\ user'[r.u].role # "NONE"
  PROVE  Types'
<1>1. req' \in [Handlers -> Request] /\ req'[h] = r
      /\ \A g \in Handlers \ {h} : req'[g] = req[g]
  BY ReqRow
<1>2. TypeOK'
  BY <1>1 DEF TypeOK
<1>3. ASSUME NEW g \in Handlers PROVE ReqBound(g)'
  <2>1. CASE g = h
    BY <1>1, <2>1 DEF ReqBound, Exists
  <2>2. CASE g # h
    <3>1. ReqBound(g) /\ req'[g] = req[g]
      BY <1>1, <2>2 DEF Types
    <3> QED BY <3>1 DEF ReqBound, Exists
  <2> QED BY <2>1, <2>2
<1> QED BY <1>2, <1>3 DEF Types

LEMMA InitRows ==
  ASSUME Init, NEW u \in Users
  PROVE  /\ user[u].status = "ACTIVE"
         /\ u \in Admins => user[u].role = "ADMIN"
<1>1. PICK e \in [Admins -> Emails], p \in [Admins -> Phones] :
        user = [v \in Users |->
                  IF v \in Admins
                  THEN [NoUser EXCEPT !.role = "ADMIN", !.email = e[v],
                                      !.phone = p[v]]
                  ELSE NoUser]
  BY DEF Init
<1>2. CASE u \in Admins
  <2>1. user[u] = [NoUser EXCEPT !.role = "ADMIN", !.email = e[u], !.phone = p[u]]
    BY <1>1, <1>2
  <2> QED BY <2>1 DEF NoUser
<1>3. CASE u \notin Admins
  <2>1. user[u] = NoUser
    BY <1>1, <1>3
  <2> QED BY <1>3, <2>1 DEF NoUser
<1> QED BY <1>2, <1>3

LEMMA InitTypes == Init => Types
<1> SUFFICES ASSUME Init PROVE Types
  OBVIOUS
<1>1. PICK e \in [Admins -> Emails], p \in [Admins -> Phones] :
        user = [u \in Users |->
                  IF u \in Admins
                  THEN [NoUser EXCEPT !.role = "ADMIN", !.email = e[u],
                                      !.phone = p[u]]
                  ELSE NoUser]
  BY DEF Init
<1>2. ASSUME NEW u \in Admins
      PROVE  [NoUser EXCEPT !.role = "ADMIN", !.email = e[u], !.phone = p[u]] \in User
  BY DEF NoUser, User, UserStatus
<1>3. user \in [Users -> User]
  BY <1>1, <1>2, NoUserRow
<1>4. \A h \in Handlers : req[h] = Idle
  BY DEF Init
<1>5. TypeOK
  BY <1>3, IdleRow DEF Init, TypeOK
<1> QED BY <1>4, <1>5, IdleRow DEF Types, ReqBound

\* The requests that only move on, or end.
LEMMA QuietTypes ==
  ASSUME Types, NEW h \in Handlers, NEW r \in Request,
         req' = [req EXCEPT ![h] = r], UNCHANGED <<user, audit>>,
         crossed' \in BOOLEAN, closed' \subseteq Users,
         r.pc \in {"register_phone", "register_create"} =>
           r.email \in Emails /\ r.phone \in Phones,
         r.pc = "status_read" => r.u \in Users /\ r.actor \in Users,
         r.pc \in {"tokens", "logout", "status_count", "status_audit",
                   "status_write"} => r.u \in Users /\ Exists(r.u)
  PROVE  Types'
<1>1. user' \in [Users -> User] /\ audit' \in [Users -> SUBSET UserStatus]
  BY DEF Types, TypeOK
<1>2. \A u \in Users : Exists(u) => Exists(u)'
  BY DEF Exists
<1>3. r.pc \in {"tokens", "logout", "status_count", "status_audit",
                "status_write"} => r.u \in Users /\ user'[r.u].role # "NONE"
  BY DEF Exists
<1> QED BY <1>1, <1>2, <1>3, StepTypes

LEMMA AuthTypes ==
  ASSUME Types, NEW h \in Handlers, AuthRequest(h)
  PROVE  Types'
<1>0. req[h] \in Request /\ ReqBound(h) /\ crossed \in BOOLEAN /\ closed \subseteq Users
  BY DEF Types, TypeOK
<1>1. ASSUME NEW e \in Emails, NEW p \in Phones, Register(h, e, p)
      PROVE  Types'
  <2> DEFINE r == [Idle EXCEPT !.pc = "register_phone", !.email = e, !.phone = p]
  <2>1. r \in Request /\ r.pc = "register_phone" /\ r.email = e /\ r.phone = p
    BY DEF Idle, Request, Step, UserStatus
  <2>2. req' = [req EXCEPT ![h] = r] /\ UNCHANGED <<user, audit, crossed, closed>>
    BY <1>1 DEF Register
  <2> HIDE DEF r
  <2> QED BY <1>0, <2>1, <2>2, QuietTypes
<1>2. CASE RegisterPhone(h)
  <2>1. UNCHANGED <<user, audit, crossed, closed>> /\ req[h].pc = "register_phone"
    BY <1>2 DEF RegisterPhone, At
  <2>2. CASE Return(h)
    BY <1>0, <2>1, <2>2, IdleRow, QuietTypes DEF Return
  <2>3. CASE Goto(h, "register_create")
    <3>1. "register_create" \in Step
      BY DEF Step
    <3>2. PICK r \in Request :
            /\ req' = [req EXCEPT ![h] = r] /\ r.pc = "register_create"
            /\ r.email = req[h].email /\ r.phone = req[h].phone
      BY <2>3, <3>1, GotoRow
    <3> QED BY <1>0, <2>1, <3>2, QuietTypes DEF ReqBound
  <2> QED BY <1>2, <2>2, <2>3 DEF RegisterPhone
<1>3. ASSUME NEW u \in Users, RegisterCreate(h, u)
      PROVE  Types'
  <2>1. UNCHANGED <<audit, crossed, closed>> /\ req[h].pc = "register_create" /\ ~Exists(u)
    BY <1>3 DEF RegisterCreate, At
  <2>2. CASE UniqueViolation(req[h].email, req[h].phone)
    BY <1>0, <1>3, <2>1, <2>2, IdleRow, QuietTypes DEF RegisterCreate, Return
  <2>3. CASE ~UniqueViolation(req[h].email, req[h].phone)
    <3> DEFINE n == [NoUser EXCEPT !.role = "USER", !.email = req[h].email,
                                   !.phone = req[h].phone]
               r == [req[h] EXCEPT !.pc = "tokens", !.u = u]
    <3>1. n \in User /\ n.role = "USER"
      BY <1>0, <2>1 DEF NoUser, User, UserStatus, ReqBound
    <3>2. r \in Request /\ r.pc = "tokens" /\ r.u = u
      BY <1>0 DEF Request, Step
    <3>3. user' = [user EXCEPT ![u] = n] /\ req' = [req EXCEPT ![h] = r]
      BY <1>3, <2>3 DEF RegisterCreate
    <3> HIDE DEF n, r
    <3>4. user' \in [Users -> User] /\ user'[u].role = "USER"
          /\ \A v \in Users \ {u} : user'[v] = user[v]
      BY <3>1, <3>3 DEF Types, TypeOK
    <3>5. \A v \in Users : Exists(v) => Exists(v)'
      BY <3>4 DEF Exists
    <3>6. audit' \in [Users -> SUBSET UserStatus]
      BY <2>1 DEF Types, TypeOK
    <3> QED BY <1>0, <2>1, <3>2, <3>3, <3>4, <3>5, <3>6, StepTypes
  <2> QED BY <2>2, <2>3
<1>4. ASSUME NEW u \in Users, Login(h, u) \/ Refresh(h, u)
      PROVE  Types'
  <2> DEFINE r == [Idle EXCEPT !.pc = "tokens", !.u = u]
  <2>1. r \in Request /\ r.pc = "tokens" /\ r.u = u
    BY DEF Idle, Request, Step, UserStatus
  <2>2. /\ req' = [req EXCEPT ![h] = r] /\ UNCHANGED <<user, audit, crossed>>
        /\ closed' \subseteq Users /\ Exists(u)
    BY <1>0, <1>4 DEF Login, Refresh, HasSession
  <2> HIDE DEF r
  <2> QED BY <1>0, <2>1, <2>2, QuietTypes
<1>5. ASSUME NEW u \in Users, Logout(h, u)
      PROVE  Types'
  <2> DEFINE r == [Idle EXCEPT !.pc = "logout", !.u = u]
  <2>1. r \in Request /\ r.pc = "logout" /\ r.u = u
    BY DEF Idle, Request, Step, UserStatus
  <2>2. req' = [req EXCEPT ![h] = r] /\ UNCHANGED <<user, audit, crossed, closed>> /\ Exists(u)
    BY <1>5 DEF Logout, Authenticated
  <2> HIDE DEF r
  <2> QED BY <1>0, <2>1, <2>2, QuietTypes
<1>6. CASE GenerateTokens(h) \/ LogoutWrite(h)
  <2>1. req[h].u \in Users
    BY <1>0, <1>6 DEF GenerateTokens, LogoutWrite, At, ReqBound
  <2>2. PICK s \in BOOLEAN : user' = [user EXCEPT ![req[h].u].session = s]
    BY <1>6 DEF GenerateTokens, LogoutWrite
  <2>3. user[req[h].u] \in User /\ user \in [Users -> User]
    BY <2>1 DEF Types, TypeOK
  <2>4. [user[req[h].u] EXCEPT !.session = s] \in User
        /\ [user[req[h].u] EXCEPT !.session = s].role = user[req[h].u].role
    BY <2>3 DEF User
  <2>5. user' \in [Users -> User] /\ \A v \in Users : Exists(v) => Exists(v)'
    BY <2>1, <2>2, <2>3, <2>4 DEF Exists
  <2>6. /\ req' = [req EXCEPT ![h] = Idle] /\ UNCHANGED <<audit, crossed>>
        /\ closed' \subseteq Users
    BY <1>0, <1>6, <2>1 DEF GenerateTokens, LogoutWrite, Return
  <2>7. audit' \in [Users -> SUBSET UserStatus]
    BY <2>6 DEF Types, TypeOK
  <2> QED BY <1>0, <2>5, <2>6, <2>7, IdleRow, StepTypes
<1> QED BY <1>1, <1>2, <1>3, <1>4, <1>5, <1>6 DEF AuthRequest

LEMMA AdminTypes ==
  ASSUME Types, NEW h \in Handlers, AdminRequest(h) \/ Stops(h)
  PROVE  Types'
<1>0. req[h] \in Request /\ ReqBound(h) /\ crossed \in BOOLEAN /\ closed \subseteq Users
  BY DEF Types, TypeOK
<1>1. ASSUME NEW a \in Users, NEW u \in Users, NEW s \in Statuses,
             UpdateStatus(h, a, u, s)
      PROVE  Types'
  <2> DEFINE r == [Idle EXCEPT !.pc = "status_read", !.u = u, !.actor = a, !.status = s]
  <2>1. r \in Request /\ r.pc = "status_read" /\ r.u = u /\ r.actor = a
    BY AccountAssumption DEF Idle, Request, Step, UserStatus
  <2>2. req' = [req EXCEPT ![h] = r] /\ UNCHANGED <<user, audit, crossed, closed>>
    BY <1>1 DEF UpdateStatus
  <2> HIDE DEF r
  <2> QED BY <1>0, <2>1, <2>2, QuietTypes
<1>2. CASE StatusRead(h)
  <2>1. UNCHANGED <<user, audit, closed>> /\ req[h].pc = "status_read"
    BY <1>2 DEF StatusRead, At
  <2>2. CASE Return(h) /\ UNCHANGED crossed
    BY <1>0, <2>1, <2>2, IdleRow, QuietTypes DEF Return
  <2>3. ASSUME NEW step \in {"status_count", "status_audit"}, Goto(h, step),
               Exists(req[h].u), crossed' \in BOOLEAN
        PROVE  Types'
    <3>1. step \in Step
      BY DEF Step
    <3>2. PICK r \in Request :
            req' = [req EXCEPT ![h] = r] /\ r.pc = step /\ r.u = req[h].u
      BY <2>3, <3>1, GotoRow
    <3> QED BY <1>0, <2>1, <2>3, <3>2, QuietTypes DEF ReqBound
  <2> QED BY <1>0, <1>2, <2>2, <2>3 DEF StatusRead
<1>3. CASE StatusCount(h)
  <2>1. UNCHANGED <<user, audit, crossed, closed>> /\ req[h].pc = "status_count"
    BY <1>3 DEF StatusCount, At
  <2>2. CASE Return(h)
    BY <1>0, <2>1, <2>2, IdleRow, QuietTypes DEF Return
  <2>3. CASE Goto(h, "status_audit")
    <3>1. "status_audit" \in Step
      BY DEF Step
    <3>2. PICK r \in Request :
            req' = [req EXCEPT ![h] = r] /\ r.pc = "status_audit" /\ r.u = req[h].u
      BY <2>3, <3>1, GotoRow
    <3> QED BY <1>0, <2>1, <3>2, QuietTypes DEF ReqBound
  <2> QED BY <1>3, <2>2, <2>3 DEF StatusCount
<1>4. CASE StatusAudit(h)
  <2>1. UNCHANGED <<user, crossed, closed>> /\ req[h].pc = "status_audit"
    BY <1>4 DEF StatusAudit, At
  <2>2. req[h].u \in Users /\ Exists(req[h].u) /\ req[h].status \in UserStatus
    BY <1>0, <2>1 DEF ReqBound, Request
  <2>3. audit' \in [Users -> SUBSET UserStatus]
    BY <1>4, <2>2 DEF StatusAudit, LogStatus, Types, TypeOK
  <2>4. "status_write" \in Step
    BY DEF Step
  <2>5. PICK r \in Request :
          req' = [req EXCEPT ![h] = r] /\ r.pc = "status_write" /\ r.u = req[h].u
    BY <1>4, <2>4, GotoRow DEF StatusAudit
  <2>6. user' \in [Users -> User] /\ \A u \in Users : Exists(u) => Exists(u)'
    BY <2>1 DEF Types, TypeOK, Exists
  <2>7. user'[req[h].u].role # "NONE"
    BY <2>1, <2>2 DEF Exists
  <2> QED BY <1>0, <2>1, <2>2, <2>3, <2>5, <2>6, <2>7, StepTypes
<1>5. CASE StatusWrite(h)
  <2>1. req[h].u \in Users /\ req[h].status \in UserStatus
    BY <1>0, <1>5 DEF StatusWrite, At, ReqBound, Request
  <2>2. user[req[h].u] \in User /\ user \in [Users -> User]
    BY <2>1 DEF Types, TypeOK
  <2> DEFINE n == [user[req[h].u] EXCEPT !.status = req[h].status]
  <2>3. n \in User /\ n.role = user[req[h].u].role
    BY <2>1, <2>2 DEF User
  <2>4. user' = [user EXCEPT ![req[h].u] = n]
    BY <1>5 DEF StatusWrite
  <2> HIDE DEF n
  <2>5. user' \in [Users -> User] /\ \A v \in Users : Exists(v) => Exists(v)'
    BY <2>1, <2>2, <2>3, <2>4 DEF Exists
  <2>6. /\ req' = [req EXCEPT ![h] = Idle]
        /\ UNCHANGED <<audit, crossed, closed>>
    BY <1>5 DEF StatusWrite, Return
  <2>7. audit' \in [Users -> SUBSET UserStatus]
    BY <2>6 DEF Types, TypeOK
  <2> QED BY <1>0, <2>5, <2>6, <2>7, IdleRow, StepTypes
<1>6. CASE Stops(h)
  BY <1>0, <1>6, IdleRow, QuietTypes DEF Stops, Return
<1> QED BY <1>1, <1>2, <1>3, <1>4, <1>5, <1>6 DEF AdminRequest

\* The types, with what the requests carry.
THEOREM TypesInvariance == Spec => []Types
<1>1. Types /\ UNCHANGED vars => Types'
  BY DEF Types, TypeOK, ReqBound, Exists, vars
<1>2. Types /\ [Next]_vars => Types'
  BY <1>1, AuthTypes, AdminTypes DEF Next
<1> QED BY <1>2, InitTypes, PTL DEF Spec

\* Every table and request stays well typed.
THEOREM TypeCorrect == Spec => []TypeOK
<1>1. Types => TypeOK
  BY DEF Types
<1> QED BY <1>1, TypesInvariance, PTL

-----------------------------------------------------------------------------
(* What a step does to the rows *)

\* A registration that succeeds.
NewRow(h, u) ==
  /\ ~Exists(u)
  /\ ~UniqueViolation(req[h].email, req[h].phone)
  /\ user'[u].role = "USER" /\ user'[u].status = "ACTIVE"
  /\ user'[u].email = req[h].email /\ user'[u].phone = req[h].phone
  /\ ~user'[u].session
  /\ \A v \in Users \ {u} : user'[v] = user[v]

SameIdentity(v) ==
  /\ user'[v].role = user[v].role
  /\ user'[v].email = user[v].email /\ user'[v].phone = user[v].phone

LEMMA CreateRow ==
  ASSUME Types, NEW h \in Handlers, NEW u \in Users, RegisterCreate(h, u)
  PROVE  user' = user \/ NewRow(h, u)
<1>1. CASE UniqueViolation(req[h].email, req[h].phone)
  BY <1>1 DEF RegisterCreate
<1>2. CASE ~UniqueViolation(req[h].email, req[h].phone)
  <2> DEFINE n == [NoUser EXCEPT !.role = "USER", !.email = req[h].email,
                                 !.phone = req[h].phone]
  <2>1. /\ n.role = "USER" /\ n.status = "ACTIVE" /\ n.email = req[h].email
        /\ n.phone = req[h].phone /\ ~n.session
    BY DEF NoUser
  <2>2. user' = [user EXCEPT ![u] = n] /\ ~Exists(u)
    BY <1>2 DEF RegisterCreate
  <2> HIDE DEF n
  <2>3. user'[u] = n /\ \A v \in Users \ {u} : user'[v] = user[v]
    BY <2>2 DEF Types, TypeOK
  <2> QED BY <1>2, <2>1, <2>2, <2>3 DEF NewRow
<1> QED BY <1>1, <1>2

LEMMA SessionRow ==
  ASSUME Types, NEW h \in Handlers, NEW s \in BOOLEAN, req[h].u \in Users,
         user' = [user EXCEPT ![req[h].u].session = s]
  PROVE  /\ user'[req[h].u].session = s
         /\ \A v \in Users : SameIdentity(v) /\ user'[v].status = user[v].status
         /\ \A v \in Users \ {req[h].u} : user'[v] = user[v]
<1>1. \A v \in Users : user[v] \in User
  BY DEF Types, TypeOK
<1>2. user'[req[h].u] = [user[req[h].u] EXCEPT !.session = s]
      /\ \A v \in Users \ {req[h].u} : user'[v] = user[v]
  BY DEF Types, TypeOK
<1>3. /\ user'[req[h].u].session = s
      /\ user'[req[h].u].role = user[req[h].u].role
      /\ user'[req[h].u].email = user[req[h].u].email
      /\ user'[req[h].u].phone = user[req[h].u].phone
      /\ user'[req[h].u].status = user[req[h].u].status
  BY <1>1, <1>2 DEF User
<1> QED BY <1>2, <1>3 DEF SameIdentity

LEMMA StatusRow ==
  ASSUME Types, NEW h \in Handlers, StatusWrite(h)
  PROVE  /\ req[h].u \in Users
         /\ user'[req[h].u].status = req[h].status
         /\ \A v \in Users : SameIdentity(v) /\ user'[v].session = user[v].session
         /\ \A v \in Users \ {req[h].u} : user'[v] = user[v]
<1>0. req[h].u \in Users
  BY DEF StatusWrite, At, Types, ReqBound
<1>1. user[req[h].u] \in User
  BY <1>0 DEF Types, TypeOK
<1>2. user'[req[h].u] = [user[req[h].u] EXCEPT !.status = req[h].status]
      /\ \A v \in Users \ {req[h].u} : user'[v] = user[v]
  BY <1>0 DEF StatusWrite, Types, TypeOK
<1>3. /\ user'[req[h].u].status = req[h].status
      /\ user'[req[h].u].role = user[req[h].u].role
      /\ user'[req[h].u].email = user[req[h].u].email
      /\ user'[req[h].u].phone = user[req[h].u].phone
      /\ user'[req[h].u].session = user[req[h].u].session
  BY <1>1, <1>2 DEF User
<1> QED BY <1>0, <1>2, <1>3 DEF SameIdentity

\* The writers of the users table.
LEMMA Writers ==
  ASSUME Types, Next
  PROVE  \/ UNCHANGED user
         \/ \E h \in Handlers, u \in Users : RegisterCreate(h, u) /\ NewRow(h, u)
         \/ \E h \in Handlers : GenerateTokens(h) \/ LogoutWrite(h)
         \/ \E h \in Handlers : StatusWrite(h)
BY CreateRow
   DEF Next, AuthRequest, AdminRequest, Register, RegisterPhone, Login, Refresh,
       Logout, UpdateStatus, StatusRead, StatusCount, StatusAudit, Stops

LEMMA SessionWriter ==
  ASSUME Types, NEW h \in Handlers, GenerateTokens(h) \/ LogoutWrite(h)
  PROVE  /\ req[h].u \in Users
         /\ LogoutWrite(h) => ~user'[req[h].u].session
         /\ \A v \in Users : SameIdentity(v) /\ user'[v].status = user[v].status
         /\ \A v \in Users \ {req[h].u} : user'[v] = user[v]
<1>1. req[h].u \in Users
  BY DEF GenerateTokens, LogoutWrite, At, Types, ReqBound
<1>2. CASE GenerateTokens(h)
  <2>1. user' = [user EXCEPT ![req[h].u].session = TRUE] /\ ~LogoutWrite(h)
    BY <1>2 DEF LogoutWrite, GenerateTokens, At
  <2> QED BY <1>1, <2>1, SessionRow
<1>3. CASE LogoutWrite(h)
  <2>1. user' = [user EXCEPT ![req[h].u].session = FALSE]
    BY <1>3 DEF LogoutWrite
  <2> QED BY <1>1, <2>1, SessionRow
<1> QED BY <1>2, <1>3

-----------------------------------------------------------------------------
(* Identities *)

LEMMA IdentityStep ==
  ASSUME Types, IdentityIsUnique, Next
  PROVE  IdentityIsUnique'
<1>1. CASE \A v \in Users : SameIdentity(v)
  BY <1>1 DEF IdentityIsUnique, Distinct, SameIdentity
<1>2. CASE UNCHANGED user
  BY <1>2 DEF IdentityIsUnique, Distinct
<1>3. ASSUME NEW h \in Handlers, NEW u \in Users, NewRow(h, u)
      PROVE  IdentityIsUnique'
  <2>1. \A v \in Users \ {u} :
          user'[v] = user[v] /\
          (user[v].role # "NONE" => user[v].email # user'[u].email
                                     /\ user[v].phone # user'[u].phone)
    BY <1>3 DEF NewRow, UniqueViolation, Exists
  <2> SUFFICES ASSUME NEW v \in Users, NEW w \in Users, v # w,
                      user'[v].role # "NONE", user'[w].role # "NONE"
               PROVE  user'[v].email # user'[w].email /\ user'[v].phone # user'[w].phone
    BY DEF IdentityIsUnique, Distinct
  <2>2. CASE v # u /\ w # u
    BY <2>1, <2>2 DEF IdentityIsUnique, Distinct
  <2>3. CASE v = u
    BY <2>1, <2>3
  <2>4. CASE w = u
    BY <2>1, <2>4
  <2> QED BY <2>2, <2>3, <2>4
<1>4. CASE \E h \in Handlers : GenerateTokens(h) \/ LogoutWrite(h)
  <2>1. \A v \in Users : SameIdentity(v)
    BY <1>4, SessionWriter
  <2> QED BY <1>1, <2>1
<1>5. CASE \E h \in Handlers : StatusWrite(h)
  <2>1. \A v \in Users : SameIdentity(v)
    BY <1>5, StatusRow
  <2> QED BY <1>1, <2>1
<1> QED BY <1>2, <1>3, <1>4, <1>5, Writers

\* No two accounts share an email or a phone number, however registrations
\* overlap (the lookups of register and the unique indexes).
THEOREM IdentitiesAreUnique == Spec => []IdentityIsUnique
<1>1. Init => IdentityIsUnique
  BY DEF Init, IdentityIsUnique
<1>2. Types /\ IdentityIsUnique /\ [Next]_vars => IdentityIsUnique'
  BY IdentityStep DEF vars, IdentityIsUnique, Distinct
<1> QED BY <1>1, <1>2, TypesInvariance, PTL DEF Spec

-----------------------------------------------------------------------------
(* Requests *)

\* One handler moves in a step, to a step that follows the one it was at.
LEMMA OneMoves ==
  ASSUME Types, NEW h \in Handlers, AuthRequest(h) \/ AdminRequest(h) \/ Stops(h)
  PROVE  /\ \A g \in Handlers \ {h} : req'[g] = req[g]
         /\ req'[h].pc = "status_write" =>
              StatusAudit(h) /\ req'[h].u = req[h].u /\ req'[h].status = req[h].status
         /\ req'[h].pc = "status_audit" =>
              /\ StatusRead(h) \/ StatusCount(h)
              /\ req'[h].u = req[h].u /\ req'[h].status = req[h].status
         /\ req'[h].pc = "status_count" =>
              StatusRead(h) /\ req'[h].u = req[h].u /\ req'[h].status = req[h].status
         /\ req'[h].pc = "tokens" =>
              \E u \in Users : /\ RegisterCreate(h, u) \/ Login(h, u) \/ Refresh(h, u)
                               /\ req'[h].u = u
<1> DEFINE Goal ==
         /\ \A g \in Handlers \ {h} : req'[g] = req[g]
         /\ req'[h].pc = "status_write" =>
              StatusAudit(h) /\ req'[h].u = req[h].u /\ req'[h].status = req[h].status
         /\ req'[h].pc = "status_audit" =>
              /\ StatusRead(h) \/ StatusCount(h)
              /\ req'[h].u = req[h].u /\ req'[h].status = req[h].status
         /\ req'[h].pc = "status_count" =>
              StatusRead(h) /\ req'[h].u = req[h].u /\ req'[h].status = req[h].status
         /\ req'[h].pc = "tokens" =>
              \E u \in Users : /\ RegisterCreate(h, u) \/ Login(h, u) \/ Refresh(h, u)
                               /\ req'[h].u = u
<1> SUFFICES Goal
  OBVIOUS
<1>0. req[h] \in Request
  BY DEF Types, TypeOK
<1>1. CASE Return(h)
  <2>1. req'[h] = Idle /\ \A g \in Handlers \ {h} : req'[g] = req[g]
    BY <1>1, IdleRow, ReqRow DEF Return
  <2> QED BY <2>1, IdleRow
<1>2. ASSUME NEW step \in Step, Goto(h, step)
      PROVE  /\ req'[h].pc = step
             /\ req'[h].u = req[h].u /\ req'[h].status = req[h].status
             /\ \A g \in Handlers \ {h} : req'[g] = req[g]
  <2>1. PICK r \in Request :
          /\ req' = [req EXCEPT ![h] = r] /\ r.pc = step
          /\ r.u = req[h].u /\ r.status = req[h].status
    BY <1>2, GotoRow
  <2> QED BY <2>1, ReqRow
<1>3. ASSUME NEW e \in Emails, NEW p \in Phones, Register(h, e, p)
      PROVE  Goal
  <2> DEFINE r == [Idle EXCEPT !.pc = "register_phone", !.email = e, !.phone = p]
  <2>1. r \in Request /\ r.pc = "register_phone"
    BY DEF Idle, Request, Step, UserStatus
  <2>2. req' = [req EXCEPT ![h] = r]
    BY <1>3 DEF Register
  <2> HIDE DEF r
  <2>3. req'[h].pc = "register_phone" /\ \A g \in Handlers \ {h} : req'[g] = req[g]
    BY <2>1, <2>2, ReqRow
  <2> QED BY <2>3
<1>4. CASE RegisterPhone(h)
  <2>1. Return(h) \/ Goto(h, "register_create")
    BY <1>4 DEF RegisterPhone
  <2>2. CASE Goto(h, "register_create")
    <3>1. /\ req'[h].pc = "register_create"
          /\ \A g \in Handlers \ {h} : req'[g] = req[g]
      BY <1>2, <2>2 DEF Step
    <3> QED BY <3>1
  <2> QED BY <1>1, <2>1, <2>2
<1>5. ASSUME NEW u \in Users, RegisterCreate(h, u)
      PROVE  Goal
  <2> DEFINE r == [req[h] EXCEPT !.pc = "tokens", !.u = u]
  <2>1. r \in Request /\ r.pc = "tokens" /\ r.u = u
    BY <1>0 DEF Request, Step
  <2>2. Return(h) \/ req' = [req EXCEPT ![h] = r]
    BY <1>5 DEF RegisterCreate
  <2> HIDE DEF r
  <2>3. CASE req' = [req EXCEPT ![h] = r]
    <3>1. req'[h] = r /\ \A g \in Handlers \ {h} : req'[g] = req[g]
      BY <2>1, <2>3, ReqRow
    <3> QED BY <1>5, <2>1, <3>1
  <2> QED BY <1>1, <2>2, <2>3
<1>6. ASSUME NEW u \in Users, Login(h, u) \/ Refresh(h, u)
      PROVE  Goal
  <2> DEFINE r == [Idle EXCEPT !.pc = "tokens", !.u = u]
  <2>1. r \in Request /\ r.pc = "tokens" /\ r.u = u
    BY DEF Idle, Request, Step, UserStatus
  <2>2. req' = [req EXCEPT ![h] = r]
    BY <1>6 DEF Login, Refresh
  <2> HIDE DEF r
  <2>3. req'[h] = r /\ \A g \in Handlers \ {h} : req'[g] = req[g]
    BY <2>1, <2>2, ReqRow
  <2> QED BY <1>6, <2>1, <2>3
<1>7. ASSUME NEW u \in Users, Logout(h, u)
      PROVE  Goal
  <2> DEFINE r == [Idle EXCEPT !.pc = "logout", !.u = u]
  <2>1. r \in Request /\ r.pc = "logout"
    BY DEF Idle, Request, Step, UserStatus
  <2>2. req' = [req EXCEPT ![h] = r]
    BY <1>7 DEF Logout
  <2> HIDE DEF r
  <2>3. req'[h].pc = "logout" /\ \A g \in Handlers \ {h} : req'[g] = req[g]
    BY <2>1, <2>2, ReqRow
  <2> QED BY <2>3
<1>8. CASE GenerateTokens(h) \/ LogoutWrite(h) \/ StatusWrite(h) \/ Stops(h)
  BY <1>1, <1>8 DEF GenerateTokens, LogoutWrite, StatusWrite, Stops
<1>9. ASSUME NEW a \in Users, NEW u \in Users, NEW s \in Statuses,
             UpdateStatus(h, a, u, s)
      PROVE  Goal
  <2> DEFINE r == [Idle EXCEPT !.pc = "status_read", !.u = u, !.actor = a, !.status = s]
  <2>1. r \in Request /\ r.pc = "status_read"
    BY AccountAssumption DEF Idle, Request, Step, UserStatus
  <2>2. req' = [req EXCEPT ![h] = r]
    BY <1>9 DEF UpdateStatus
  <2> HIDE DEF r
  <2>3. req'[h].pc = "status_read" /\ \A g \in Handlers \ {h} : req'[g] = req[g]
    BY <2>1, <2>2, ReqRow
  <2> QED BY <2>3
<1>10. CASE StatusRead(h)
  <2>1. Return(h) \/ Goto(h, "status_count") \/ Goto(h, "status_audit")
    BY <1>10 DEF StatusRead
  <2> QED BY <1>1, <1>2, <1>10, <2>1 DEF Step
<1>11. CASE StatusCount(h)
  <2>1. Return(h) \/ Goto(h, "status_audit")
    BY <1>11 DEF StatusCount
  <2> QED BY <1>1, <1>2, <1>11, <2>1 DEF Step
<1>12. CASE StatusAudit(h)
  <2>1. Goto(h, "status_write")
    BY <1>12 DEF StatusAudit
  <2> QED BY <1>2, <1>12, <2>1 DEF Step
<1> HIDE DEF Goal
<1> QED
  BY <1>3, <1>4, <1>5, <1>6, <1>7, <1>8, <1>9, <1>10, <1>11, <1>12
     DEF AuthRequest, AdminRequest

\* The same, of a step of the specification.
LEMMA MoverExists ==
  ASSUME Next
  PROVE  \E h \in Handlers : AuthRequest(h) \/ AdminRequest(h) \/ Stops(h)
BY DEF Next

-----------------------------------------------------------------------------
(* The audit log *)

\* A status about to be written is in the log already.
Announced(h) ==
  req[h].pc = "status_write" => req[h].status \in audit[req[h].u]

AuditInv == StatusIsAudited /\ \A h \in Handlers : Announced(h)

LEMMA AuditGrows ==
  ASSUME Types, Next
  PROVE  /\ \A u \in Users : audit[u] \subseteq audit'[u]
         /\ \A h \in Handlers : StatusAudit(h) => req[h].status \in audit'[req[h].u]
<1>1. CASE UNCHANGED audit /\ \A h \in Handlers : ~StatusAudit(h)
  BY <1>1
<1>2. ASSUME NEW h \in Handlers, StatusAudit(h)
      PROVE  /\ \A u \in Users : audit[u] \subseteq audit'[u]
             /\ req[h].status \in audit'[req[h].u]
  <2>1. req[h].u \in Users
    BY <1>2 DEF StatusAudit, At, Types, ReqBound
  <2>2. audit' = [audit EXCEPT ![req[h].u] = @ \cup {req[h].status}]
    BY <1>2 DEF StatusAudit, LogStatus
  <2>3. audit \in [Users -> SUBSET UserStatus]
    BY DEF Types, TypeOK
  <2> QED BY <2>1, <2>2, <2>3
<1>3. UNCHANGED audit \/ \E h \in Handlers : StatusAudit(h)
  BY DEF Next, AuthRequest, AdminRequest, Register, RegisterPhone, RegisterCreate,
         Login, Refresh, Logout, GenerateTokens, LogoutWrite, UpdateStatus,
         StatusRead, StatusCount, StatusWrite, Stops
<1> QED BY <1>2, <1>3

LEMMA AuditStep ==
  ASSUME Types, AuditInv, Next
  PROVE  AuditInv'
<1>1. ASSUME NEW g \in Handlers PROVE Announced(g)'
  <2>1. PICK h \in Handlers : AuthRequest(h) \/ AdminRequest(h) \/ Stops(h)
    BY MoverExists
  <2>2. CASE g = h
    <3>1. SUFFICES ASSUME req'[h].pc = "status_write"
                   PROVE  req'[h].status \in audit'[req'[h].u]
      BY <2>2 DEF Announced
    <3>2. StatusAudit(h) /\ req'[h].u = req[h].u /\ req'[h].status = req[h].status
      BY <2>1, <3>1, OneMoves
    <3> QED BY <3>2, AuditGrows
  <2>3. CASE g # h
    <3>1. req'[g] = req[g]
      BY <2>1, <2>3, OneMoves
    <3>2. req[g].pc = "status_write" => req[g].u \in Users
      BY DEF Types, ReqBound
    <3> QED BY <3>1, <3>2, AuditGrows DEF AuditInv, Announced
  <2> QED BY <2>2, <2>3
<1>2. ASSUME NEW u \in Users, user'[u].status # "ACTIVE"
      PROVE  user'[u].status \in audit'[u]
  <2>1. CASE user'[u].status = user[u].status
    BY <1>2, <2>1, AuditGrows DEF AuditInv, StatusIsAudited
  <2>2. ASSUME NEW h \in Handlers, StatusWrite(h), user'[u].status # user[u].status
        PROVE  user'[u].status \in audit'[u]
    <3>1. u = req[h].u /\ user'[u].status = req[h].status
      BY <2>2, StatusRow
    <3>2. req[h].status \in audit[u]
      BY <2>2, <3>1 DEF AuditInv, Announced, StatusWrite, At
    <3> QED BY <3>1, <3>2, AuditGrows
  <2>3. ASSUME NEW h \in Handlers, NEW v \in Users, NewRow(h, v)
        PROVE  user'[u].status = user[u].status
    BY <1>2, <2>3 DEF NewRow
  <2>4. ASSUME NEW h \in Handlers, GenerateTokens(h) \/ LogoutWrite(h)
        PROVE  user'[u].status = user[u].status
    BY <2>4, SessionWriter
  <2> QED BY <2>1, <2>2, <2>3, <2>4, Writers
<1> QED BY <1>1, <1>2 DEF AuditInv, StatusIsAudited

\* A status that an account has and was not created with is in the audit log,
\* wherever updateStatus stopped.
THEOREM StatusesAreAudited == Spec => []StatusIsAudited
<1>1. Init => AuditInv
  <2> SUFFICES ASSUME Init PROVE AuditInv
    OBVIOUS
  <2>1. \A h \in Handlers : req[h].pc = "idle"
    BY IdleRow DEF Init
  <2>2. \A u \in Users : user[u].status = "ACTIVE"
    BY InitRows
  <2> QED BY <2>1, <2>2 DEF AuditInv, StatusIsAudited, Announced
<1>2. Types /\ AuditInv /\ [Next]_vars => AuditInv'
  BY AuditStep DEF vars, AuditInv, StatusIsAudited, Announced
<1>3. AuditInv => StatusIsAudited
  BY DEF AuditInv
<1> QED BY <1>1, <1>2, <1>3, TypesInvariance, PTL DEF Spec

-----------------------------------------------------------------------------
(* Sessions *)

\* Who logged out last has no session and nobody is about to give him one.
LoggedOut(u) == Exists(u) /\ ~user[u].session /\ ~SigningIn(u)

SessionInv == \A u \in closed : LoggedOut(u)

LEMMA ClosedBy ==
  ASSUME Types, Next
  PROVE  \/ closed' = closed
         \/ \E h \in Handlers, u \in Users : Login(h, u)
         \/ \E h \in Handlers : LogoutWrite(h)
BY DEF Next, AuthRequest, AdminRequest, Register, RegisterPhone, RegisterCreate,
       Refresh, Logout, GenerateTokens, UpdateStatus, StatusRead, StatusCount,
       StatusAudit, StatusWrite, Stops

\* A user who stays logged out.
LEMMA StaysOut ==
  ASSUME Types, Next, NEW u \in Users, u \in closed', LoggedOut(u)
  PROVE  LoggedOut(u)'
<1>1. PICK h \in Handlers : AuthRequest(h) \/ AdminRequest(h) \/ Stops(h)
  BY MoverExists
<1>2. Exists(u)' /\ ~user'[u].session
  <2>1. CASE UNCHANGED user
    BY <2>1 DEF LoggedOut, Exists
  <2>2. ASSUME NEW g \in Handlers, NEW v \in Users, NewRow(g, v)
        PROVE  Exists(u)' /\ ~user'[u].session
    BY <2>2 DEF LoggedOut, NewRow, Exists
  <2>3. ASSUME NEW g \in Handlers, GenerateTokens(g)
        PROVE  Exists(u)' /\ ~user'[u].session
    <3>1. req[g].u # u
      BY <2>3 DEF LoggedOut, SigningIn, GenerateTokens
    <3>2. user'[u] = user[u]
      BY <2>3, <3>1, SessionWriter
    <3> QED BY <3>2 DEF LoggedOut, Exists
  <2>4. ASSUME NEW g \in Handlers, LogoutWrite(g)
        PROVE  Exists(u)' /\ ~user'[u].session
    <3>1. user'[u].role = user[u].role
      BY <2>4, SessionWriter DEF SameIdentity
    <3>2. req[g].u = u => ~user'[u].session
      BY <2>4, SessionWriter
    <3>3. req[g].u # u => user'[u] = user[u]
      BY <2>4, SessionWriter
    <3> QED BY <3>1, <3>2, <3>3 DEF LoggedOut, Exists
  <2>5. ASSUME NEW g \in Handlers, StatusWrite(g)
        PROVE  Exists(u)' /\ ~user'[u].session
    <3>1. SameIdentity(u) /\ user'[u].session = user[u].session
      BY <2>5, StatusRow
    <3> QED BY <3>1 DEF LoggedOut, Exists, SameIdentity
  <2> QED BY <2>1, <2>2, <2>3, <2>4, <2>5, Writers
<1>3. ASSUME NEW g \in Handlers, req'[g].pc = "tokens", req'[g].u = u
      PROVE  FALSE
  <2>1. CASE g # h
    <3>1. req'[g] = req[g]
      BY <1>1, <2>1, OneMoves
    <3> QED BY <1>3, <3>1 DEF LoggedOut, SigningIn, At
  <2>2. CASE g = h
    <3>1. RegisterCreate(h, u) \/ Login(h, u) \/ Refresh(h, u)
      BY <1>1, <1>3, <2>2, OneMoves
    <3> QED BY <3>1 DEF RegisterCreate, Login, Refresh, HasSession, LoggedOut
  <2> QED BY <2>1, <2>2
<1>4. ~SigningIn(u)'
  BY <1>3 DEF SigningIn, At
<1> QED BY <1>2, <1>4 DEF LoggedOut

LEMMA SessionStep ==
  ASSUME Types, SessionInv, Next
  PROVE  SessionInv'
<1> SUFFICES ASSUME NEW u \in closed' PROVE LoggedOut(u)'
  BY DEF SessionInv
<1>0. closed \subseteq Users
  BY DEF Types, TypeOK
<1>1. CASE u \in closed
  BY <1>0, <1>1, StaysOut DEF SessionInv
<1>2. CASE u \notin closed
  <2>1. PICK h \in Handlers : LogoutWrite(h)
    BY <1>2, ClosedBy DEF Login
  <2>2. u = req[h].u /\ ~SigningIn(u) /\ req' = [req EXCEPT ![h] = Idle]
    BY <1>2, <2>1 DEF LogoutWrite, Return
  <2>3. u \in Users /\ Exists(u)
    BY <2>1, <2>2 DEF LogoutWrite, At, Types, ReqBound
  <2>4. ~user'[u].session /\ user'[u].role = user[u].role
    BY <2>1, <2>2, <2>3, SessionWriter DEF SameIdentity
  <2>5. req'[h].pc = "idle" /\ \A g \in Handlers \ {h} : req'[g] = req[g]
    BY <2>2, IdleRow, ReqRow
  <2>6. ~SigningIn(u)'
    BY <2>2, <2>5 DEF SigningIn, At
  <2> QED BY <2>3, <2>4, <2>6 DEF LoggedOut, Exists
<1> QED BY <1>1, <1>2

\* After a logout that no sign-in overlapped, a user has no session until the
\* next login.
THEOREM LogoutsAreFinal == Spec => []LogoutIsFinal
<1>1. Init => SessionInv
  BY DEF Init, SessionInv
<1>2. Types /\ SessionInv /\ [Next]_vars => SessionInv'
  BY SessionStep DEF vars, SessionInv, LoggedOut, Exists, SigningIn, At
<1>3. SessionInv => LogoutIsFinal
  BY DEF SessionInv, LoggedOut, LogoutIsFinal
<1> QED BY <1>1, <1>2, <1>3, TypesInvariance, PTL DEF Spec

-----------------------------------------------------------------------------
(* Administrators *)

\* A change that passed the count takes away no last administrator.
OneIsLeft(h) ==
  req[h].pc \in {"status_audit", "status_write"} =>
    req[h].status = "ACTIVE" \/ \E v \in ActiveAdmins : v # req[h].u

AdminInv ==
  ~crossed =>
    /\ ActiveAdmins # {}
    /\ \A g, h \in Handlers : ChangingStatus(g) /\ ChangingStatus(h) => g = h
    /\ \A h \in Handlers : OneIsLeft(h)

LEMMA AdminsKept ==
  ASSUME Types, Next, NEW v \in ActiveAdmins,
         \A h \in Handlers : StatusWrite(h) => req[h].u # v \/ req[h].status = "ACTIVE"
  PROVE  v \in ActiveAdmins'
<1>0. v \in Users /\ user[v].role = "ADMIN" /\ user[v].status = "ACTIVE"
  BY DEF ActiveAdmins
<1>1. CASE user'[v] = user[v]
  BY <1>0, <1>1 DEF ActiveAdmins
<1>2. ASSUME NEW g \in Handlers, NEW u \in Users, NewRow(g, u)
      PROVE  user'[v] = user[v]
  BY <1>0, <1>2 DEF NewRow, Exists
<1>3. ASSUME NEW g \in Handlers, GenerateTokens(g) \/ LogoutWrite(g)
      PROVE  v \in ActiveAdmins'
  <2>1. SameIdentity(v) /\ user'[v].status = user[v].status
    BY <1>0, <1>3, SessionWriter
  <2> QED BY <1>0, <2>1 DEF ActiveAdmins, SameIdentity
<1>4. ASSUME NEW g \in Handlers, StatusWrite(g)
      PROVE  v \in ActiveAdmins'
  <2>1. user'[v].role = "ADMIN"
    BY <1>0, <1>4, StatusRow DEF SameIdentity
  <2>2. user'[v].status = "ACTIVE"
    <3>1. CASE req[g].u = v
      BY <1>4, <3>1, StatusRow
    <3>2. CASE req[g].u # v
      BY <1>0, <1>4, <3>2, StatusRow
    <3> QED BY <3>1, <3>2
  <2> QED BY <1>0, <2>1, <2>2 DEF ActiveAdmins
<1> QED BY <1>1, <1>2, <1>3, <1>4, Writers

LEMMA CountFindsAnother ==
  ASSUME EnoughAdmins, NEW u
  PROVE  \E v \in ActiveAdmins : v # u
<1> SUFFICES ASSUME \A v \in ActiveAdmins : v = u PROVE FALSE
  OBVIOUS
<1>1. ActiveAdmins \subseteq {u}
  OBVIOUS
<1>2. IsFiniteSet({u}) /\ Cardinality({u}) = 1
  BY FS_Singleton
<1>3. Cardinality(ActiveAdmins) <= 1 /\ Cardinality(ActiveAdmins) \in Nat
  BY <1>1, <1>2, FS_Subset, FS_CardinalityType
<1> QED BY <1>3 DEF EnoughAdmins

\* What a step does to the requests that change a status.
LEMMA CrossedBy ==
  ASSUME Types, Next, ~crossed', NEW h \in Handlers,
         AuthRequest(h) \/ AdminRequest(h) \/ Stops(h)
  PROVE  /\ ~crossed
         /\ StatusRead(h) /\ ChangingStatus(h)' =>
              \A g \in Handlers \ {h} : ~ChangingStatus(g)
<1>1. StatusRead(h) \/ UNCHANGED crossed
  BY DEF AuthRequest, AdminRequest, Register, RegisterPhone, RegisterCreate, Login,
         Refresh, Logout, GenerateTokens, LogoutWrite, UpdateStatus, StatusCount,
         StatusAudit, StatusWrite, Stops
<1>2. CASE StatusRead(h) /\ Return(h) /\ UNCHANGED crossed
  <2>1. req'[h].pc = "idle"
    BY <1>2, IdleRow, ReqRow DEF Return
  <2> QED BY <1>2, <2>1 DEF ChangingStatus
<1>3. CASE crossed' = (crossed \/ \E g \in Handlers \ {h} : ChangingStatus(g))
  BY <1>3
<1>4. CASE StatusRead(h)
  BY <1>2, <1>3, <1>4 DEF StatusRead
<1>5. CASE ~StatusRead(h)
  BY <1>1, <1>5
<1> QED BY <1>4, <1>5

LEMMA AdminStep ==
  ASSUME Types, AdminInv, Next
  PROVE  AdminInv'
<1> SUFFICES ASSUME ~crossed'
             PROVE  /\ ActiveAdmins' # {}
                    /\ \A g, h \in Handlers :
                         ChangingStatus(g)' /\ ChangingStatus(h)' => g = h
                    /\ \A h \in Handlers : OneIsLeft(h)'
  BY DEF AdminInv
<1>1. PICK h \in Handlers : AuthRequest(h) \/ AdminRequest(h) \/ Stops(h)
  BY MoverExists
<1>2. ~crossed
  BY <1>1, CrossedBy
<1>3. /\ ActiveAdmins # {}
      /\ \A f, g \in Handlers : ChangingStatus(f) /\ ChangingStatus(g) => f = g
      /\ \A g \in Handlers : OneIsLeft(g)
  BY <1>2 DEF AdminInv
<1>4. \A g \in Handlers \ {h} :
        req'[g] = req[g] /\ (ChangingStatus(g)' <=> ChangingStatus(g))
  BY <1>1, OneMoves DEF ChangingStatus
<1>5. ChangingStatus(h)' => \A g \in Handlers \ {h} : ~ChangingStatus(g)
  <2> SUFFICES ASSUME ChangingStatus(h)'
               PROVE  \A g \in Handlers \ {h} : ~ChangingStatus(g)
    OBVIOUS
  <2>1. StatusRead(h) \/ StatusCount(h) \/ StatusAudit(h)
    BY <1>1, OneMoves DEF ChangingStatus
  <2>2. StatusRead(h) \/ ChangingStatus(h)
    BY <2>1 DEF StatusCount, StatusAudit, At, ChangingStatus
  <2> QED BY <1>1, <1>3, <2>2, CrossedBy
<1>6. \A f, g \in Handlers : ChangingStatus(f)' /\ ChangingStatus(g)' => f = g
  BY <1>3, <1>4, <1>5
\* A write leaves an active administrator.
<1>7. ASSUME NEW g \in Handlers, StatusWrite(g)
      PROVE  ActiveAdmins' # {} /\ \A f \in Handlers : ~ChangingStatus(f)'
  <2>1. req[g].pc = "status_write" /\ req' = [req EXCEPT ![g] = Idle]
    BY <1>7 DEF StatusWrite, At, Return
  <2>2. \A f \in Handlers \ {g} : ~ChangingStatus(f)
    BY <1>3, <2>1 DEF ChangingStatus
  <2>3. req'[g].pc = "idle" /\ \A f \in Handlers \ {g} : req'[f] = req[f]
    BY <2>1, IdleRow, ReqRow
  <2>4. \A f \in Handlers : ~ChangingStatus(f)'
    BY <2>2, <2>3 DEF ChangingStatus
  <2>5. \A f \in Handlers : StatusWrite(f) => f = g
    BY <2>1, <2>2 DEF StatusWrite, At, ChangingStatus
  <2>6. PICK v \in ActiveAdmins : req[g].status = "ACTIVE" \/ v # req[g].u
    BY <1>3, <2>1 DEF OneIsLeft
  <2>7. v \in ActiveAdmins'
    BY <2>5, <2>6, AdminsKept
  <2> QED BY <2>4, <2>7
\* Any other step leaves them all.
<1>8. CASE \A g \in Handlers : ~StatusWrite(g)
  <2>1. ActiveAdmins \subseteq ActiveAdmins'
    BY <1>8, AdminsKept
  <2>2. ASSUME NEW g \in Handlers PROVE OneIsLeft(g)'
    <3>1. CASE g # h
      <4>1. req'[g] = req[g] /\ OneIsLeft(g)
        BY <1>3, <1>4, <3>1
      <4> QED BY <2>1, <4>1 DEF OneIsLeft
    <3>2. CASE g = h
      <4> SUFFICES ASSUME req'[h].pc \in {"status_audit", "status_write"},
                          req'[h].status # "ACTIVE"
                   PROVE  \E v \in ActiveAdmins' : v # req'[h].u
        BY <3>2 DEF OneIsLeft
      <4>1. req'[h].u = req[h].u /\ req'[h].status = req[h].status
        BY <1>1, OneMoves
      <4>2. \E v \in ActiveAdmins : v # req[h].u
        <5>1. CASE StatusAudit(h)
          BY <1>3, <4>1, <5>1 DEF StatusAudit, At, OneIsLeft
        <5>2. CASE StatusCount(h)
          <6>1. EnoughAdmins
            <7>1. CASE Return(h)
              <8>1. req'[h].pc = "idle"
                BY <7>1, IdleRow, ReqRow DEF Return
              <8> QED BY <8>1
            <7> QED BY <5>2, <7>1 DEF StatusCount
          <6> QED BY <6>1, CountFindsAnother
        <5>3. CASE StatusRead(h)
          <6>1. ~MustCount(req[h].u, req[h].status)
            <7>1. CASE Return(h)
              <8>1. req'[h].pc = "idle"
                BY <7>1, IdleRow, ReqRow DEF Return
              <8> QED BY <8>1
            <7>2. CASE Goto(h, "status_count")
              <8>1. "status_count" \in Step
                BY DEF Step
              <8>2. PICK r \in Request :
                      req' = [req EXCEPT ![h] = r] /\ r.pc = "status_count"
                BY <7>2, <8>1, GotoRow
              <8>3. req'[h].pc = "status_count"
                BY <8>2, ReqRow
              <8> QED BY <8>3
            <7> QED BY <5>3, <7>1, <7>2 DEF StatusRead
          <6>2. req[h].u \notin ActiveAdmins
            BY <4>1, <6>1 DEF MustCount, ActiveAdmins
          <6> QED BY <1>3, <6>2
        <5> QED BY <1>1, <5>1, <5>2, <5>3, OneMoves
      <4> QED BY <2>1, <4>1, <4>2
    <3> QED BY <3>1, <3>2
  <2> QED BY <1>3, <1>6, <2>1, <2>2
<1>9. CASE \E g \in Handlers : StatusWrite(g)
  <2>1. ActiveAdmins' # {} /\ \A f \in Handlers : ~ChangingStatus(f)'
    BY <1>7, <1>9
  <2>2. \A f \in Handlers : OneIsLeft(f)'
    BY <2>1 DEF OneIsLeft, ChangingStatus
  <2> QED BY <1>6, <2>1, <2>2
<1> QED BY <1>8, <1>9

\* Unless two status changes overlapped, an active administrator is left.
THEOREM AnAdminRemains == Spec => []AdminRemains
<1>1. Init => AdminInv
  <2> SUFFICES ASSUME Init PROVE AdminInv
    OBVIOUS
  <2>1. \A h \in Handlers : req[h].pc = "idle"
    BY IdleRow DEF Init
  <2>2. Admins \subseteq ActiveAdmins
    BY InitRows, AccountAssumption DEF ActiveAdmins
  <2> QED BY <2>1, <2>2, AccountAssumption DEF AdminInv, ChangingStatus, OneIsLeft
<1>2. Types /\ AdminInv /\ [Next]_vars => AdminInv'
  BY AdminStep DEF vars, AdminInv, ActiveAdmins, ChangingStatus, OneIsLeft
<1>3. AdminInv => AdminRemains
  BY DEF AdminInv, AdminRemains
<1> QED BY <1>1, <1>2, <1>3, TypesInvariance, PTL DEF Spec

=============================================================================
