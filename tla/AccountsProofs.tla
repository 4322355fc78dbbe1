--------------------------- MODULE AccountsProofs ---------------------------
(***************************************************************************)
(* What is proved about Accounts for every set of users, names, roles,      *)
(* tokens and requests.                                                    *)
(***************************************************************************)
EXTENDS Accounts, FiniteSetTheorems, TLAPS

(***************************************************************************)
(* Types                                                                   *)
(***************************************************************************)

\* What the locals l fit at a label, with the users known being k.
Fits(label, l, k) ==
  /\ label \in {"first", "identity"} => l.name \in Names
  /\ label \in {"token", "start", "read", "identity", "disable"} => l.target \in k
  /\ label \in {"token", "ready"} => l.token \in Tokens
  /\ label \in {"start", "identity"} => l.roles \in RoleSets
  /\ label = "start" => l.password \in Passwords

\* The parts of the type invariant that the two tables satisfy after a step.
TablesOK ==
  /\ user \in [Users -> User \cup {NoUser}]
  /\ session \in [Tokens -> Session \cup {NoSession}]
  /\ \A t \in Tokens : session[t] # NoSession => session[t].user \in Known

\* A request that goes on is at the label and has the locals it was given; no other moves.
LEMMA Continuing ==
  ASSUME TypeOK, NEW r \in Requests, NEW label \in Labels, NEW l \in Locals,
         Continue(r, label, l)
  PROVE  /\ pc' \in [Requests -> Labels] /\ loc' \in [Requests -> Locals]
         /\ pc'[r] = label /\ loc'[r] = l
         /\ \A q \in Requests \ {r} : pc'[q] = pc[q] /\ loc'[q] = loc[q]
BY DEF TypeOK, Continue

\* A step of one request keeps the types when it fits its label and no user is lost.
LEMMA StepTyped ==
  ASSUME TypeOK, NEW r \in Requests, NEW label \in Labels, NEW l \in Locals,
         Continue(r, label, l), TablesOK', Known \subseteq Known', Fits(label, l, Known')
  PROVE  TypeOK'
<1>1. \A q \in Requests : RequestOK(q)'
  <2> TAKE q \in Requests
  <2>1. CASE q = r
    BY <2>1, Continuing DEF RequestOK, Fits
  <2>2. CASE q # r
    BY <2>2, Continuing DEF RequestOK, TypeOK
  <2> QED BY <2>1, <2>2
<1> QED BY <1>1, Continuing DEF TypeOK, TablesOK

\* What a request knows before it has read anything.
LEMMA NothingTyped == NoLocals \in Locals
BY DEF NoLocals, Locals

\* The fields of a request that a step sets.
LEMMA NameSet ==
  ASSUME NEW l \in Locals, NEW n \in Names
  PROVE  [l EXCEPT !.name = n] \in Locals /\ [l EXCEPT !.name = n].name = n
BY DEF Locals

\* The tables when no session changes and rows are only added or replaced.
LEMMA UsersChange ==
  ASSUME TypeOK, user' \in [Users -> User \cup {NoUser}],
         \A u \in Known : user'[u] # NoUser, UNCHANGED session
  PROVE  TablesOK' /\ Known \subseteq Known'
BY DEF TypeOK, TablesOK, Known

\* Replacing the row of a known user.
LEMMA RowSet ==
  ASSUME TypeOK, NEW u \in Known, NEW row \in User, user' = [user EXCEPT ![u] = row]
  PROVE  /\ user' \in [Users -> User \cup {NoUser}]
         /\ Known' = Known
         /\ user'[u] = row /\ \A v \in Known \ {u} : user'[v] = user[v]
BY NullAssumption DEF TypeOK, Known

\* The fields of a row that is there.
LEMMA RowTyped ==
  ASSUME TypeOK, NEW u \in Known
  PROVE  /\ user[u] \in User /\ u \in Users
         /\ user[u].name \in Names /\ user[u].roles \in RoleSets
         /\ user[u].enabled \in BOOLEAN /\ user[u].password \in Passwords
BY DEF TypeOK, Known, User

\* A new row.
LEMMA RowAdded ==
  ASSUME TypeOK, NEW u \in Users, NEW n \in Names, NEW roles \in RoleSets,
         NEW p \in Passwords, AddUser(u, n, roles, p)
  PROVE  /\ user' \in [Users -> User \cup {NoUser}]
         /\ Known' = Known \cup {u} /\ u \notin Known
         /\ user'[u] = [name |-> n, roles |-> roles, enabled |-> TRUE, password |-> p]
         /\ user'[u] \in User
         /\ \A v \in Known : user'[v] = user[v]
<1> DEFINE row == [name |-> n, roles |-> roles, enabled |-> TRUE, password |-> p]
<1>1. row \in User
  BY DEF User
<1>2. row # NoUser
  BY <1>1, NullAssumption
<1>3. user' = [user EXCEPT ![u] = row] /\ u \notin Known
  BY DEF AddUser
<1> HIDE DEF row
<1>4. /\ user' \in [Users -> User \cup {NoUser}] /\ user'[u] = row
      /\ \A v \in Users \ {u} : user'[v] = user[v]
  BY <1>1, <1>3 DEF TypeOK
<1> QED
  BY <1>1, <1>2, <1>3, <1>4 DEF Known, row

\* What is left of the sessions when those of u end, or stay.
LEMMA Ended ==
  ASSUME TypeOK, NEW u, EndSessions(u)
  PROVE  /\ session' \in [Tokens -> Session \cup {NoSession}]
         /\ \A t \in Tokens : session'[t] # NoSession =>
              session'[t] = session[t] /\ session[t].user # u
BY DEF TypeOK, EndSessions

\* The sessions that go on when those of a user may have been kept by a race.
LEMMA Kept ==
  ASSUME TypeOK, NEW u, NEW race \in BOOLEAN, KeepSessions(u, race)
  PROVE  /\ session' \in [Tokens -> Session \cup {NoSession}]
         /\ \A t \in Tokens : session'[t] # NoSession =>
              /\ session[t] # NoSession /\ session'[t].user = session[t].user
              /\ session'[t].roles = session[t].roles
              /\ session'[t].password = session[t].password
              /\ session'[t].raced = (session[t].raced \/ (race /\ session[t].user = u))
<1>1. \A s \in Session : /\ [s EXCEPT !.raced = @ \/ race] \in Session
                         /\ [s EXCEPT !.raced = @ \/ race] # NoSession
  BY NullAssumption DEF Session
<1>2. \A t \in Tokens : /\ session[t] \in Session \cup {NoSession}
                        /\ session'[t] \in Session \cup {NoSession}
  BY <1>1 DEF TypeOK, KeepSessions
<1>3. session' \in [Tokens -> Session \cup {NoSession}]
  BY <1>2 DEF KeepSessions
<1>4. ASSUME NEW t \in Tokens, session'[t] # NoSession
      PROVE  /\ session[t] # NoSession /\ session'[t].user = session[t].user
             /\ session'[t].roles = session[t].roles
             /\ session'[t].password = session[t].password
             /\ session'[t].raced = (session[t].raced \/ (race /\ session[t].user = u))
  <2>1. session[t] \in Session
    BY <1>2, <1>4 DEF KeepSessions
  <2>2. CASE session[t].user = u
    BY <2>1, <2>2, <1>4, NullAssumption DEF KeepSessions, Session
  <2>3. CASE session[t].user # u
    BY <2>1, <2>3, <1>4, NullAssumption DEF KeepSessions, Session
  <2> QED BY <2>2, <2>3
<1> QED BY <1>3, <1>4

\* The tables when a session ends.
LEMMA FewerSessions ==
  ASSUME TypeOK, NEW t \in Tokens, session' = [session EXCEPT ![t] = NoSession], UNCHANGED user
  PROVE  TablesOK' /\ Known \subseteq Known'
BY NullAssumption DEF TypeOK, TablesOK, Known

\* The tables when neither is written.
LEMMA NobodyChanges ==
  ASSUME TypeOK, UNCHANGED <<user, session>>
  PROVE  TablesOK' /\ Known' = Known
BY DEF TypeOK, TablesOK, Known

\* What a request knows.
LEMMA LocalTyped ==
  ASSUME TypeOK, NEW r \in Requests
  PROVE  /\ loc[r] \in Locals /\ pc[r] \in Labels
         /\ loc[r].name \in Names \cup {Keep} /\ loc[r].roles \in RoleSets \cup {Keep}
         /\ loc[r].token \in Tokens \cup {NoSession} /\ loc[r].admins \in SUBSET Users
         /\ loc[r].disabled \in {"keep", "yes", "no"}
         /\ RequestOK(r)
BY DEF TypeOK, Locals

\* The name and the roles that a PATCH will write.
LEMMA NewValues ==
  ASSUME TypeOK, NEW r \in Requests, NEW row \in User
  PROVE  /\ NewName(r, row) \in Names /\ NewRoles(r, row) \in RoleSets
         /\ row.roles \in RoleSets
BY LocalTyped DEF User, NewName, NewRoles

\* Whoever returns fits.
LEMMA ReturnTyped ==
  ASSUME TypeOK, NEW r \in Requests, Return(r), TablesOK', Known \subseteq Known'
  PROVE  TypeOK'
<1>1. Fits("idle", NoLocals, Known')
  BY DEF Fits
<1> QED
  BY <1>1, NothingTyped, StepTyped DEF Return, Labels

\* The tables when the row of a known user is replaced and its sessions end or stay.
LEMMA RowChange ==
  ASSUME TypeOK, NEW u \in Known, NEW row \in User, user' = [user EXCEPT ![u] = row],
         \/ UNCHANGED session
         \/ EndSessions(u)
         \/ \E race \in BOOLEAN : KeepSessions(u, race)
  PROVE  TablesOK' /\ Known' = Known
<1>1. user' \in [Users -> User \cup {NoUser}] /\ Known' = Known
  BY RowSet
<1>2. CASE UNCHANGED session
  BY <1>1, <1>2 DEF TypeOK, TablesOK
<1>3. CASE EndSessions(u)
  BY <1>1, <1>3, Ended DEF TypeOK, TablesOK
<1>4. CASE \E race \in BOOLEAN : KeepSessions(u, race)
  BY <1>1, <1>4, Kept DEF TypeOK, TablesOK
<1> QED BY <1>2, <1>3, <1>4

\* What a PATCH writes is a row.
LEMMA PatchedRow ==
  ASSUME TypeOK, NEW u \in Known
  PROVE  /\ \A n \in Names, roles \in RoleSets :
              [user[u] EXCEPT !.name = n, !.roles = roles] \in User
         /\ \A b \in BOOLEAN : [user[u] EXCEPT !.enabled = b] \in User
         /\ \A p \in Passwords : [user[u] EXCEPT !.password = p] \in User
BY RowTyped DEF User

\* The steps of signing in keep the types.
LEMMA SignInTyped ==
  ASSUME TypeOK, NEW r \in Requests, SignIn(r)
  PROVE  TypeOK'
<1>1. CASE \E n \in Names : FindNoUsers(r, n)
  <2>1. PICK n \in Names : FindNoUsers(r, n)
    BY <1>1
  <2>2. [NoLocals EXCEPT !.name = n] \in Locals /\ [NoLocals EXCEPT !.name = n].name = n
    BY NothingTyped, NameSet
  <2>3. Fits("first", [NoLocals EXCEPT !.name = n], Known')
    BY <2>2 DEF Fits
  <2> QED BY <2>1, <2>2, <2>3, NobodyChanges, StepTyped DEF FindNoUsers, Labels
<1>2. CASE CreateFirstAdmin(r)
  <2>1. PICK u \in Users, p \in Passwords :
          /\ AddUser(u, loc[r].name, Roles, p)
          /\ Authenticated(r, u, Roles, p)
    BY <1>2 DEF CreateFirstAdmin
  <2>2. loc[r].name \in Names
    BY <1>2, LocalTyped DEF CreateFirstAdmin, RequestOK
  <2>3. /\ user' \in [Users -> User \cup {NoUser}] /\ Known' = Known \cup {u}
        /\ user'[u] \in User
        /\ \A v \in Known : user'[v] = user[v]
    BY <2>1, <2>2, RolesAssumption, RowAdded
  <2>4. TablesOK'
    BY <2>3, <1>2, UsersChange DEF CreateFirstAdmin, Known
  <2> DEFINE l == [NoLocals EXCEPT !.target = u, !.roles = Roles, !.password = p]
  <2>6. l \in Locals /\ l.target = u /\ l.roles = Roles /\ l.password = p
    BY RolesAssumption DEF NoLocals, Locals
  <2>8. Continue(r, "start", l)
    BY <2>1 DEF Authenticated
  <2> HIDE DEF l
  <2>7. Fits("start", l, Known')
    BY <2>3, <2>6, RolesAssumption DEF Fits
  <2> QED BY <2>3, <2>4, <2>6, <2>7, <2>8, StepTyped DEF Labels
<1>3. CASE \E u \in Known : Authenticate(r, u)
  <2>1. PICK u \in Known : Authenticate(r, u)
    BY <1>3
  <2> DEFINE l == [NoLocals EXCEPT !.target = u, !.roles = user[u].roles,
                                   !.password = user[u].password]
  <2>3. /\ l \in Locals /\ l.target = u /\ l.roles \in RoleSets
        /\ l.password \in Passwords
    BY RowTyped DEF NoLocals, Locals
  <2>4. TablesOK' /\ Known' = Known
    BY <2>1, NobodyChanges DEF Authenticate
  <2>6. Continue(r, "start", l)
    BY <2>1 DEF Authenticate, Authenticated
  <2> HIDE DEF l
  <2>5. Fits("start", l, Known')
    BY <2>3, <2>4 DEF Fits
  <2> QED BY <2>3, <2>4, <2>5, <2>6, StepTyped DEF Labels
<1>4. CASE StartSession(r)
  <2>1. /\ loc[r].target \in Known /\ loc[r].roles \in RoleSets
        /\ loc[r].password \in Passwords
    BY <1>4, LocalTyped DEF StartSession, RequestOK
  <2>2. PICK t \in Tokens :
          session' = [session EXCEPT ![t] =
            [user |-> loc[r].target, roles |-> loc[r].roles,
             password |-> loc[r].password, raced |-> Overtaken(r)]]
    BY <1>4 DEF StartSession
  <2>3. Overtaken(r) \in BOOLEAN
    BY DEF Overtaken
  <2>4. [user |-> loc[r].target, roles |-> loc[r].roles,
         password |-> loc[r].password, raced |-> Overtaken(r)] \in Session
    BY <2>1, <2>3 DEF Session, User, Known
  <2>5. TablesOK' /\ Known' = Known
    BY <1>4, <2>1, <2>2, <2>4 DEF StartSession, TypeOK, TablesOK, Known
  <2> QED BY <1>4, <2>5, ReturnTyped DEF StartSession
<1>5. CASE \E t \in Tokens : FindSession(r, t)
  <2>1. PICK t \in Tokens : FindSession(r, t)
    BY <1>5
  <2>2. CASE session' = [session EXCEPT ![t] = NoSession] /\ UNCHANGED <<pc, loc>>
    <3>1. TablesOK' /\ UNCHANGED user
      BY <2>1, <2>2, FewerSessions DEF FindSession
    <3> QED BY <2>2, <3>1 DEF TypeOK, TablesOK, RequestOK, Known
  <2>3. DEFINE l == [NoLocals EXCEPT !.token = t, !.target = session[t].user]
  <2>4. CASE Continue(r, "token", l) /\ UNCHANGED session
    <3>1. session[t].user \in Known
      BY <2>1 DEF TypeOK, FindSession
    <3>2. l \in Locals /\ l.target = session[t].user /\ l.token = t
      BY <2>1, <3>1, NothingTyped DEF NoLocals, Locals, Known
    <3>3. TablesOK' /\ Known' = Known
      BY <2>1, <2>4, NobodyChanges DEF FindSession
    <3>4. Fits("token", l, Known')
      BY <3>1, <3>2, <3>3 DEF Fits
    <3> QED BY <2>4, <3>2, <3>3, <3>4, StepTyped DEF Labels
  <2> QED BY <2>1, <2>2, <2>4 DEF FindSession
<1>6. CASE FindUser(r)
  <2>1. loc[r].target \in Known /\ loc[r].token \in Tokens
    BY <1>6, LocalTyped DEF FindUser, RequestOK
  <2>2. CASE user[loc[r].target].enabled
    <3> DEFINE b == Admin \in user[loc[r].target].roles
               l == [NoLocals EXCEPT !.token = loc[r].token, !.manager = b]
    <3>1. l \in Locals /\ l.token = loc[r].token
      <4>1. b \in BOOLEAN
        OBVIOUS
      <4> HIDE DEF b
      <4> QED BY <2>1, <4>1, NothingTyped DEF NoLocals, Locals
    <3>2. TablesOK' /\ Known' = Known
      BY <1>6, <2>2, NobodyChanges DEF FindUser
    <3>3. Fits("ready", l, Known')
      BY <2>1, <3>1 DEF Fits
    <3>4. Continue(r, "ready", l)
      BY <1>6, <2>2 DEF FindUser
    <3> QED BY <3>1, <3>2, <3>3, <3>4, StepTyped DEF Labels
  <2>3. CASE ~user[loc[r].target].enabled
    BY <1>6, <2>1, <2>3, FewerSessions, ReturnTyped DEF FindUser
  <2> QED BY <2>2, <2>3
<1>7. CASE Logout(r)
  <2>1. PICK t \in Tokens : session' = [session EXCEPT ![t] = NoSession]
    BY <1>7 DEF Logout
  <2> QED BY <1>7, <2>1, FewerSessions, ReturnTyped DEF Logout
<1> QED BY <1>1, <1>2, <1>3, <1>4, <1>5, <1>6, <1>7 DEF SignIn

\* The steps of managing users keep the types.
LEMMA ManageTyped ==
  ASSUME TypeOK, NEW r \in Requests, Manage(r)
  PROVE  TypeOK'
<1>1. CASE CreateUser(r)
  <2>1. PICK u \in Users, n \in Names, roles \in RoleSets, p \in Passwords :
          AddUser(u, n, roles, p)
    BY <1>1 DEF CreateUser
  <2>2. TablesOK' /\ Known \subseteq Known'
    BY <1>1, <2>1, RowAdded, UsersChange DEF CreateUser, Known
  <2> QED BY <1>1, <2>2, ReturnTyped DEF CreateUser
<1>2. CASE ResetPassword(r)
  <2>1. PICK u \in Known, p \in Passwords :
          user' = [user EXCEPT ![u] = [user[u] EXCEPT !.password = p]] /\ EndSessions(u)
    BY <1>2 DEF ResetPassword
  <2>2. TablesOK' /\ Known' = Known
    BY <2>1, PatchedRow, RowChange
  <2> QED BY <1>2, <2>2, ReturnTyped DEF ResetPassword
<1>3. CASE \E u \in Known, n \in Names \cup {Keep}, roles \in RoleSets \cup {Keep},
              disabled \in {"keep", "yes", "no"} : BeginPatch(r, u, n, roles, disabled)
  <2>1. PICK u \in Known, n \in Names \cup {Keep}, roles \in RoleSets \cup {Keep},
             disabled \in {"keep", "yes", "no"} : BeginPatch(r, u, n, roles, disabled)
    BY <1>3
  <2> DEFINE admins == IF disabled = "yes" THEN EnabledAdmins ELSE {}
             l == [NoLocals EXCEPT !.target = u, !.name = n, !.roles = roles,
                                   !.disabled = disabled, !.admins = admins]
             label == IF n = Keep /\ roles = Keep THEN "disable" ELSE "read"
  <2>2. l \in Locals /\ l.target = u
    <3>1. admins \in SUBSET Users /\ u \in Users
      BY DEF EnabledAdmins, Known
    <3> HIDE DEF admins
    <3> QED BY <3>1, NothingTyped DEF NoLocals, Locals
  <2>3. TablesOK' /\ Known' = Known
    BY <2>1, NobodyChanges DEF BeginPatch
  <2>4. Continue(r, label, l)
    BY <2>1 DEF BeginPatch
  <2>5. label \in {"read", "disable"} /\ Fits(label, l, Known')
    <3> HIDE DEF l
    <3> QED BY <2>2, <2>3 DEF Fits
  <2> HIDE DEF l, label
  <2> QED BY <2>2, <2>3, <2>4, <2>5, StepTyped DEF Labels
<1>4. CASE ReadTarget(r)
  <2> DEFINE row == user[loc[r].target]
             l == [loc[r] EXCEPT !.name = NewName(r, row), !.roles = NewRoles(r, row),
                                 !.seen = row.roles]
  <2>1. loc[r].target \in Known
    BY <1>4, LocalTyped DEF ReadTarget, RequestOK
  <2>2. /\ l \in Locals /\ l.target = loc[r].target
        /\ l.name \in Names /\ l.roles \in RoleSets
    <3>1. /\ NewName(r, row) \in Names /\ NewRoles(r, row) \in RoleSets
          /\ row.roles \in RoleSets /\ loc[r] \in Locals
      BY <2>1, LocalTyped, RowTyped, NewValues
    <3> QED BY ONLY <3>1 DEF Locals
  <2>3. TablesOK' /\ Known' = Known
    BY <1>4, NobodyChanges DEF ReadTarget
  <2>4. Continue(r, "identity", l)
    BY <1>4 DEF ReadTarget
  <2> HIDE DEF l
  <2>5. Fits("identity", l, Known')
    BY <2>1, <2>2, <2>3 DEF Fits
  <2> QED BY <2>2, <2>3, <2>4, <2>5, StepTyped DEF Labels
<1>5. CASE WriteIdentity(r)
  <2> DEFINE u == loc[r].target
             l == [NoLocals EXCEPT !.target = u, !.applied = TRUE,
                     !.disabled = loc[r].disabled, !.admins = loc[r].admins]
  <2>1. u \in Known /\ loc[r].name \in Names /\ loc[r].roles \in RoleSets
    BY <1>5, LocalTyped DEF WriteIdentity, RequestOK
  <2>2. TablesOK' /\ Known' = Known
    <3>1. user' = [user EXCEPT ![u] = [user[u] EXCEPT !.name = loc[r].name, !.roles = loc[r].roles]]
      BY <1>5 DEF WriteIdentity
    <3>2. [user[u] EXCEPT !.name = loc[r].name, !.roles = loc[r].roles] \in User
      BY <2>1, PatchedRow
    <3>3. EndSessions(u) \/ \E race \in BOOLEAN : KeepSessions(u, race)
      BY <1>5 DEF WriteIdentity
    <3> HIDE DEF u
    <3> QED BY <2>1, <3>1, <3>2, <3>3, RowChange
  <2>3. CASE Return(r)
    BY <2>2, <2>3, ReturnTyped
  <2>4. CASE Continue(r, "disable", l)
    <3>1. l \in Locals /\ l.target = u
      BY <2>1, LocalTyped DEF Known, NoLocals, Locals
    <3>2. Fits("disable", l, Known')
      BY <2>1, <2>2, <3>1 DEF Fits
    <3> HIDE DEF l, u
    <3> QED BY <2>2, <2>4, <3>1, <3>2, StepTyped DEF Labels
  <2> QED BY <1>5, <2>3, <2>4 DEF WriteIdentity
<1>6. CASE SetDisabled(r)
  <2> DEFINE u == loc[r].target
             on == ~(loc[r].disabled = "yes")
  <2>1. u \in Known
    BY <1>6, LocalTyped DEF SetDisabled, RequestOK
  <2>2. /\ user' = [user EXCEPT ![u] = [user[u] EXCEPT !.enabled = on]]
        /\ EndSessions(u) \/ UNCHANGED session
        /\ Return(r) /\ on \in BOOLEAN
    BY <1>6 DEF SetDisabled
  <2> HIDE DEF u, on
  <2>3. TablesOK' /\ Known' = Known
    BY <2>1, <2>2, PatchedRow, RowChange
  <2> QED BY <2>2, <2>3, ReturnTyped
<1> QED BY <1>1, <1>2, <1>3, <1>4, <1>5, <1>6 DEF Manage

\* Every step keeps the types.
LEMMA TypeNext == TypeOK /\ [Next]_vars => TypeOK'
<1> SUFFICES ASSUME TypeOK, [Next]_vars PROVE TypeOK'
  OBVIOUS
<1>1. CASE UNCHANGED vars
  BY <1>1 DEF vars, TypeOK, Known, RequestOK
<1>2. CASE Next
  <2>1. PICK r \in Requests : SignIn(r) \/ Manage(r) \/ Refuse(r)
    BY <1>2 DEF Next
  <2>2. CASE Refuse(r)
    BY <2>2, NobodyChanges, ReturnTyped DEF Refuse
  <2> QED BY <2>1, <2>2, SignInTyped, ManageTyped
<1> QED BY <1>1, <1>2

\* They hold before the first request.
LEMMA TypeInit == Init => TypeOK
<1> SUFFICES ASSUME Init PROVE TypeOK
  OBVIOUS
<1>1. NoLocals \in Locals
  BY NothingTyped
<1>2. \A r \in Requests : RequestOK(r)
  BY DEF Init, RequestOK
<1> QED BY <1>1, <1>2 DEF Init, TypeOK, Labels

\* The tables hold rows and sessions of users that exist, and a request has at each
\* of its points what it needs there, a known user or a token.
THEOREM TypesHold == Spec => []TypeOK
BY TypeInit, TypeNext, PTL DEF Spec

(***************************************************************************)
(* Administrators                                                          *)
(***************************************************************************)

\* The enabled administrators can be counted.
LEMMA AdminsFinite == IsFiniteSet(EnabledAdmins) /\ Cardinality(EnabledAdmins) \in Nat
<1>1. EnabledAdmins \subseteq Users
  BY DEF EnabledAdmins, Known
<1> QED BY <1>1, UsersAssumption, FS_Subset, FS_CardinalityType

\* An administrator who is not the last one is not the only one.
LEMMA OtherAdmin ==
  ASSUME NEW u \in Known, IsAdmin(user[u]), ~LastAdmin(u)
  PROVE  \E v \in EnabledAdmins : v # u
<1>1. SUFFICES ASSUME \A v \in EnabledAdmins : v = u PROVE FALSE
  OBVIOUS
<1>2. EnabledAdmins = {u}
  BY <1>1 DEF EnabledAdmins
<1>3. Cardinality(EnabledAdmins) = 1
  BY <1>2, FS_Singleton
<1> QED BY <1>3 DEF LastAdmin

\* The last administrator is the only one.
LEMMA OnlyAdmin ==
  ASSUME NEW u \in Known, LastAdmin(u)
  PROVE  EnabledAdmins = {u}
<1>1. u \in EnabledAdmins /\ Cardinality(EnabledAdmins) <= 1
  BY DEF LastAdmin, EnabledAdmins
<1>2. Cardinality(EnabledAdmins \ {u}) = Cardinality(EnabledAdmins) - 1
  BY <1>1, AdminsFinite, FS_RemoveElement
<1>3. /\ IsFiniteSet(EnabledAdmins \ {u}) /\ Cardinality(EnabledAdmins \ {u}) \in Nat
  BY AdminsFinite, FS_Subset, FS_CardinalityType
<1>4. Cardinality(EnabledAdmins \ {u}) = 0
  BY <1>1, <1>2, <1>3, AdminsFinite
<1>5. EnabledAdmins \ {u} = {}
  BY <1>3, <1>4, FS_EmptySet
<1> QED BY <1>1, <1>5

(***************************************************************************)
(* The invariant                                                           *)
(***************************************************************************)

\* A request with the permissions of a user was let in for one.
LetIn == \A r \in Requests : pc[r] = "ready" => Known # {}

\* A PATCH that disables its user began when there was another enabled
\* administrator, or none at all.
OthersSeen ==
  \A r \in Requests :
    /\ pc[r] \in {"read", "identity", "disable"} /\ loc[r].disabled = "yes"
    /\ loc[r].admins # {}
    => loc[r].admins \ {loc[r].target} # {}

\* In server mode alone, where there are users there is an enabled administrator.
AdminsThere == FALSE \notin Modes /\ Known # {} => EnabledAdmins # {}

IInv == /\ TypeOK /\ LetIn /\ OthersSeen
        /\ AdminsThere /\ NamesDistinct /\ SessionsCurrent

\* The steps that change the table of users.
NewUser(u, n, roles, p) ==
  /\ AddUser(u, n, roles, p)
  /\ Known # {} \/ Admin \in roles \/ FALSE \in Modes
  /\ UNCHANGED session

NewPassword(u, p) ==
  /\ user' = [user EXCEPT ![u] = [user[u] EXCEPT !.password = p]]
  /\ EndSessions(u)

\* The steps that write the table of users: a new row, a new password, the two halves
\* of a PATCH.
LEMMA UserSteps ==
  ASSUME IInv, NEW r \in Requests, SignIn(r) \/ Manage(r) \/ Refuse(r), user' # user
  PROVE  \/ \E u \in Users, n \in Names, roles \in RoleSets, p \in Passwords :
              NewUser(u, n, roles, p)
         \/ \E u \in Known, p \in Passwords : NewPassword(u, p)
         \/ WriteIdentity(r)
         \/ SetDisabled(r)
<1>1. CASE SignIn(r)
  <2>1. CreateFirstAdmin(r)
    BY <1>1 DEF SignIn, FindNoUsers, Authenticate, StartSession, FindSession, FindUser, Logout
  <2>2. loc[r].name \in Names
    BY <2>1, LocalTyped DEF CreateFirstAdmin, RequestOK, IInv
  <2> QED BY <2>1, <2>2, RolesAssumption DEF CreateFirstAdmin, NewUser
<1>2. CASE Manage(r)
  <2>1. CASE CreateUser(r)
    BY <2>1 DEF CreateUser, NewUser, MayManage, Local, IInv, LetIn
  <2>2. CASE ResetPassword(r)
    BY <2>2 DEF ResetPassword, NewPassword
  <2> QED BY <1>2, <2>1, <2>2 DEF Manage, BeginPatch, ReadTarget
<1> QED BY <1>1, <1>2 DEF Refuse

\* What a PATCH leaves in the table.
LEMMA Written ==
  ASSUME TypeOK, NEW r \in Requests, WriteIdentity(r)
  PROVE  /\ loc[r].target \in Known /\ Known' = Known
         /\ user[loc[r].target] \in User
         /\ user'[loc[r].target].name = loc[r].name
         /\ user'[loc[r].target].roles = loc[r].roles
         /\ user'[loc[r].target].enabled = user[loc[r].target].enabled
         /\ user'[loc[r].target].password = user[loc[r].target].password
         /\ \A v \in Known : v # loc[r].target => user'[v] = user[v]
<1> DEFINE u == loc[r].target
           row == [user[u] EXCEPT !.name = loc[r].name, !.roles = loc[r].roles]
<1>1. u \in Known /\ loc[r].name \in Names /\ loc[r].roles \in RoleSets
  BY LocalTyped DEF WriteIdentity, RequestOK
<1>2. row \in User
  BY <1>1, PatchedRow
<1>3. user' = [user EXCEPT ![u] = row]
  BY DEF WriteIdentity
<1>5. /\ user[u] \in User /\ row.name = loc[r].name /\ row.roles = loc[r].roles
      /\ row.enabled = user[u].enabled /\ row.password = user[u].password
  BY <1>1, RowTyped DEF User
<1> HIDE DEF row, u
<1>4. Known' = Known /\ user'[u] = row /\ \A v \in Known : v # u => user'[v] = user[v]
  BY <1>1, <1>2, <1>3, RowSet
<1> QED BY <1>1, <1>4, <1>5 DEF u

\* What enabling or disabling a user does to the table.
LEMMA Toggled ==
  ASSUME TypeOK, NEW r \in Requests, SetDisabled(r)
  PROVE  /\ loc[r].target \in Known /\ Known' = Known
         /\ user'[loc[r].target] =
              [user[loc[r].target] EXCEPT !.enabled = (loc[r].disabled # "yes")]
         /\ \A v \in Known : v # loc[r].target => user'[v] = user[v]
<1> DEFINE u == loc[r].target
           on == loc[r].disabled # "yes"
           row == [user[u] EXCEPT !.enabled = on]
<1>1. u \in Known
  BY LocalTyped DEF SetDisabled, RequestOK
<1>2. row \in User
  <2>1. on \in BOOLEAN
    OBVIOUS
  <2> HIDE DEF on, u
  <2> QED BY <1>1, <2>1, PatchedRow
<1>3. user' = [user EXCEPT ![u] = row]
  BY DEF SetDisabled
<1> HIDE DEF row, u
<1>4. Known' = Known /\ user'[u] = row /\ \A v \in Known : v # u => user'[v] = user[v]
  BY <1>1, <1>2, <1>3, RowSet
<1> QED BY <1>1, <1>4 DEF row, u

\* What a new password does to the table.
LEMMA Reset ==
  ASSUME TypeOK, NEW u \in Known, NEW p \in Passwords, NewPassword(u, p)
  PROVE  /\ Known' = Known
         /\ user'[u] = [user[u] EXCEPT !.password = p]
         /\ \A v \in Known : v # u => user'[v] = user[v]
BY PatchedRow, RowSet DEF NewPassword

\* No step takes the last enabled administrator away.
LEMMA AdminKept ==
  ASSUME IInv, NEW r \in Requests, SignIn(r) \/ Manage(r) \/ Refuse(r)
  PROVE  EnabledAdmins # {} => EnabledAdmins' # {}
<1> USE DEF IInv
<1> SUFFICES ASSUME EnabledAdmins # {} PROVE EnabledAdmins' # {}
  OBVIOUS
<1>1. CASE user' = user
  BY <1>1 DEF EnabledAdmins, Known
<1>2. CASE \E u \in Users, n \in Names, roles \in RoleSets, p \in Passwords :
             NewUser(u, n, roles, p)
  <2>1. PICK u \in Users, n \in Names, roles \in RoleSets, p \in Passwords :
             NewUser(u, n, roles, p)
    BY <1>2
  <2>2. /\ Known' = Known \cup {u} /\ \A v \in Known : user'[v] = user[v]
        /\ user'[u] = [name |-> n, roles |-> roles, enabled |-> TRUE, password |-> p]
    BY <2>1, RowAdded DEF NewUser
  <2>3. EnabledAdmins \subseteq EnabledAdmins'
    BY <2>2 DEF EnabledAdmins
  <2> QED BY <2>3
<1>3. CASE \E u \in Known, p \in Passwords : NewPassword(u, p)
  <2>1. PICK u \in Known, p \in Passwords : NewPassword(u, p)
    BY <1>3
  <2>2. Known' = Known /\ user'[u] = [user[u] EXCEPT !.password = p]
    BY <2>1, Reset
  <2>3. user'[u].enabled = user[u].enabled /\ user'[u].roles = user[u].roles
    BY <2>2, RowTyped DEF User
  <2>4. \A v \in Known : IsAdmin(user[v]) => IsAdmin(user'[v])
    BY <2>1, <2>3, Reset DEF IsAdmin
  <2> QED BY <2>2, <2>4 DEF EnabledAdmins
<1>4. CASE WriteIdentity(r)
  <2> DEFINE u == loc[r].target
  <2>1. /\ u \in Known /\ Known' = Known /\ user[u] \in User
        /\ user'[u].enabled = user[u].enabled /\ user'[u].roles = loc[r].roles
        /\ \A v \in Known : v # u => user'[v] = user[v]
    BY <1>4, Written
  <2> HIDE DEF u
  <2>2. CASE \E v \in EnabledAdmins : v # u
    BY <2>1, <2>2 DEF EnabledAdmins
  <2>3. CASE \A v \in EnabledAdmins : v = u
    <3>1. u \in EnabledAdmins
      BY <2>3
    <3>2. IsAdmin(user[u])
      BY <3>1 DEF EnabledAdmins
    <3>3. LastAdmin(u)
      BY <2>1, <2>3, <3>2, OtherAdmin
    <3>4. Admin \in loc[r].roles
      BY <1>4, <3>3 DEF WriteIdentity, u
    <3>5. IsAdmin(user'[u])
      BY <2>1, <3>2, <3>4 DEF IsAdmin
    <3> QED BY <2>1, <3>5 DEF EnabledAdmins
  <2> QED BY <2>2, <2>3
<1>5. CASE SetDisabled(r)
  <2> DEFINE u == loc[r].target
  <2>1. /\ u \in Known /\ Known' = Known /\ user[u] \in User
        /\ user'[u].enabled = (loc[r].disabled # "yes") /\ user'[u].roles = user[u].roles
        /\ \A v \in Known : v # u => user'[v] = user[v]
    BY <1>5, Toggled, RowTyped DEF User
  <2>2. ~(loc[r].disabled = "yes" /\ LastAdmin(u))
    BY <1>5 DEF SetDisabled
  <2> HIDE DEF u
  <2>3. CASE \E v \in EnabledAdmins : v # u
    BY <2>1, <2>3 DEF EnabledAdmins
  <2>4. CASE \A v \in EnabledAdmins : v = u
    <3>1. u \in EnabledAdmins
      BY <2>4
    <3>2. IsAdmin(user[u])
      BY <3>1 DEF EnabledAdmins
    <3>3. LastAdmin(u)
      BY <2>1, <2>4, <3>2, OtherAdmin
    <3>4. IsAdmin(user'[u])
      BY <2>1, <2>2, <3>2, <3>3 DEF IsAdmin
    <3> QED BY <2>1, <3>4 DEF EnabledAdmins
  <2> QED BY <2>3, <2>4
<1> QED BY <1>1, <1>2, <1>3, <1>4, <1>5, UserSteps

\* In server mode alone a first user is an administrator.
LEMMA AdminsThereKept ==
  ASSUME IInv, NEW r \in Requests, SignIn(r) \/ Manage(r) \/ Refuse(r)
  PROVE  AdminsThere'
<1> USE DEF IInv
<1>1. SUFFICES ASSUME FALSE \notin Modes, Known' # {} PROVE EnabledAdmins' # {}
  BY DEF AdminsThere
<1>2. CASE Known # {}
  BY <1>1, <1>2, AdminKept DEF AdminsThere
<1>3. CASE Known = {}
  <2>1. user' # user
    BY <1>1, <1>3 DEF Known
  <2>2. PICK u \in Users, n \in Names, roles \in RoleSets, p \in Passwords :
             NewUser(u, n, roles, p)
    BY <1>1, <1>3, <2>1, UserSteps, Written, Toggled
  <2>3. /\ Known' = {u} /\ Admin \in roles
        /\ user'[u] = [name |-> n, roles |-> roles, enabled |-> TRUE, password |-> p]
    BY <1>1, <1>3, <2>2, RowAdded DEF NewUser
  <2> QED BY <2>3 DEF EnabledAdmins, IsAdmin
<1> QED BY <1>2, <1>3

\* No step gives a user the name of another.
LEMMA NamesKept ==
  ASSUME IInv, NEW r \in Requests, SignIn(r) \/ Manage(r) \/ Refuse(r)
  PROVE  NamesDistinct'
<1> USE DEF IInv
<1>1. CASE user' = user
  BY <1>1 DEF NamesDistinct, Known
<1>2. CASE \E u \in Users, n \in Names, roles \in RoleSets, p \in Passwords :
             NewUser(u, n, roles, p)
  <2>1. PICK u \in Users, n \in Names, roles \in RoleSets, p \in Passwords :
             NewUser(u, n, roles, p)
    BY <1>2
  <2>2. /\ Known' = Known \cup {u} /\ u \notin Known /\ \A v \in Known : user'[v] = user[v]
        /\ user'[u] = [name |-> n, roles |-> roles, enabled |-> TRUE, password |-> p]
    BY <2>1, RowAdded DEF NewUser
  <2>3. \A v \in Known : user[v].name # n
    BY <2>1, <2>2 DEF NewUser, AddUser, NameFree
  <2> QED BY <2>2, <2>3 DEF NamesDistinct
<1>3. CASE \E u \in Known, p \in Passwords : NewPassword(u, p)
  <2>1. PICK u \in Known, p \in Passwords : NewPassword(u, p)
    BY <1>3
  <2>2. Known' = Known /\ user'[u] = [user[u] EXCEPT !.password = p]
    BY <2>1, Reset
  <2>3. user'[u].name = user[u].name
    BY <2>2, RowTyped DEF User
  <2>4. \A v \in Known : user'[v].name = user[v].name
    BY <2>1, <2>3, Reset
  <2> QED BY <2>2, <2>4 DEF NamesDistinct
<1>4. CASE WriteIdentity(r)
  <2> DEFINE u == loc[r].target
  <2>1. /\ u \in Known /\ Known' = Known
        /\ user'[u].name = loc[r].name
        /\ \A v \in Known : v # u => user'[v] = user[v]
    BY <1>4, Written
  <2>2. \A v \in Known \ {u} : user[v].name # loc[r].name
    BY <1>4 DEF WriteIdentity, NameFree
  <2> HIDE DEF u
  <2> QED BY <2>1, <2>2 DEF NamesDistinct
<1>5. CASE SetDisabled(r)
  <2> DEFINE u == loc[r].target
  <2>1. /\ u \in Known /\ Known' = Known
        /\ user'[u].name = user[u].name
        /\ \A v \in Known : v # u => user'[v] = user[v]
    BY <1>5, Toggled, RowTyped DEF User
  <2> HIDE DEF u
  <2> QED BY <2>1 DEF NamesDistinct
<1> QED BY <1>1, <1>2, <1>3, <1>4, <1>5, UserSteps

\* The row of a user stands for what a session was opened with.
Stands(s, row) ==
  s.raced \/ (row.enabled /\ row.roles = s.roles /\ row.password = s.password)

\* SessionsCurrent, session by session.
LEMMA SessionsStand ==
  SessionsCurrent <=> \A t \in Tokens : session[t] # NoSession => Stands(session[t], user[session[t].user])
BY DEF SessionsCurrent, Stands

\* The steps that only open or close sessions.
LEMMA SessionSteps ==
  ASSUME IInv, NEW r \in Requests, SignIn(r) \/ Manage(r) \/ Refuse(r), user' = user
  PROVE  SessionsCurrent'
<1> USE DEF IInv
<1>1. CASE StartSession(r)
  <2>1. PICK t \in Tokens :
          session' = [session EXCEPT ![t] =
            [user |-> loc[r].target, roles |-> loc[r].roles,
             password |-> loc[r].password, raced |-> Overtaken(r)]]
    BY <1>1 DEF StartSession
  <2> DEFINE new == [user |-> loc[r].target, roles |-> loc[r].roles,
                     password |-> loc[r].password, raced |-> Overtaken(r)]
  <2>2. Stands(new, user[new.user])
    BY DEF Stands, Overtaken
  <2> HIDE DEF new
  <2>3. session' = [session EXCEPT ![t] = new]
    BY <2>1 DEF new
  <2>4. \A q \in Tokens : session'[q] = IF q = t THEN new ELSE session[q]
    BY <2>3 DEF TypeOK
  <2>5. \A q \in Tokens : session'[q] # NoSession => Stands(session'[q], user'[session'[q].user])
    BY <2>2, <2>4, SessionsStand
  <2> QED BY <2>5 DEF Stands, SessionsCurrent
<1>2. CASE ~StartSession(r) /\ \A t \in Tokens : session'[t] \in {session[t], NoSession}
  <2>1. \A q \in Tokens : session'[q] # NoSession => Stands(session'[q], user'[session'[q].user])
    BY <1>2, SessionsStand
  <2> QED BY <2>1 DEF Stands, SessionsCurrent
<1>3. CASE SignIn(r) /\ ~StartSession(r)
  <2>1. loc[r].token \in Tokens \/ pc[r] \notin {"token", "ready"}
    BY LocalTyped DEF RequestOK
  <2>2. \A t \in Tokens : session'[t] \in {session[t], NoSession}
    BY <1>3, <2>1 DEF SignIn, FindNoUsers, CreateFirstAdmin, Authenticate, FindSession, FindUser,
       Logout, TypeOK
  <2> QED BY <1>2, <1>3, <2>2
<1>4. CASE Manage(r) \/ Refuse(r)
  <2>1. CASE UNCHANGED session
    BY <2>1, <1>1, <1>2
  <2>2. CASE \E u : EndSessions(u)
    <3>1. \A t \in Tokens : session'[t] \in {session[t], NoSession}
      BY <2>2 DEF EndSessions, TypeOK
    <3> QED BY <3>1, <1>1, <1>2
  <2>3. CASE WriteIdentity(r) /\ KeepSessions(loc[r].target, user[loc[r].target].roles # loc[r].seen)
    <3> DEFINE race == user[loc[r].target].roles # loc[r].seen
    <3>1. race \in BOOLEAN /\ KeepSessions(loc[r].target, race)
      BY <2>3
    <3> HIDE DEF race
    <3>2. \A t \in Tokens : session'[t] # NoSession =>
              /\ session[t] # NoSession /\ session'[t].user = session[t].user
              /\ session'[t].roles = session[t].roles
              /\ session'[t].password = session[t].password
              /\ session'[t].raced = (session[t].raced \/ (race /\ session[t].user = loc[r].target))
      BY <3>1, Kept
    <3> SUFFICES ASSUME NEW t \in Tokens, session'[t] # NoSession, ~session'[t].raced
                 PROVE  LET row == user'[session'[t].user]
                        IN row.enabled /\ row.roles = session'[t].roles
                             /\ row.password = session'[t].password
      BY DEF SessionsCurrent
    <3>3. session[t] # NoSession /\ ~session[t].raced
      BY <3>2
    <3>4. LET row == user[session[t].user]
          IN row.enabled /\ row.roles = session[t].roles /\ row.password = session[t].password
      BY <3>3 DEF SessionsCurrent
    <3> QED BY <3>2, <3>4
  <2> QED BY <1>4, <2>1, <2>2, <2>3 DEF Manage, Refuse, CreateUser, ResetPassword, BeginPatch,
             ReadTarget, WriteIdentity, SetDisabled
<1> QED BY <1>1, <1>3, <1>4

\* No step leaves a session open that no longer stands, but by a race.
LEMMA SessionsKept ==
  ASSUME IInv, NEW r \in Requests, SignIn(r) \/ Manage(r) \/ Refuse(r)
  PROVE  SessionsCurrent'
<1> USE DEF IInv
<1>1. CASE user' = user
  BY <1>1, SessionSteps
<1>2. CASE \E u \in Users, n \in Names, roles \in RoleSets, p \in Passwords :
             NewUser(u, n, roles, p)
  <2>1. PICK u \in Users, n \in Names, roles \in RoleSets, p \in Passwords :
             NewUser(u, n, roles, p)
    BY <1>2
  <2>2. \A v \in Known : user'[v] = user[v]
    BY <2>1, RowAdded DEF NewUser
  <2> QED BY <2>1, <2>2 DEF NewUser, SessionsCurrent, TypeOK
<1>3. CASE \E u \in Known, p \in Passwords : NewPassword(u, p)
  <2>1. PICK u \in Known, p \in Passwords : NewPassword(u, p)
    BY <1>3
  <2>2. \A v \in Known : v # u => user'[v] = user[v]
    BY <2>1, Reset
  <2>3. \A t \in Tokens : session'[t] # NoSession =>
          session'[t] = session[t] /\ session[t].user # u
    BY <2>1, Ended DEF NewPassword
  <2> QED BY <2>2, <2>3 DEF SessionsCurrent, TypeOK
<1>4. CASE WriteIdentity(r)
  <2> DEFINE u == loc[r].target
             race == user[u].roles # loc[r].seen
  <2>1. /\ u \in Known
        /\ user'[u].enabled = user[u].enabled /\ user'[u].roles = loc[r].roles
        /\ user'[u].password = user[u].password
        /\ \A v \in Known : v # u => user'[v] = user[v]
    BY <1>4, Written
  <2>2. CASE EndSessions(u)
    <3>1. \A t \in Tokens : session'[t] # NoSession =>
            session'[t] = session[t] /\ session[t].user # u
      BY <2>2, Ended
    <3> HIDE DEF u
    <3> QED BY <2>1, <3>1 DEF SessionsCurrent, TypeOK
  <2>3. CASE ~RolesChanged(r) /\ KeepSessions(u, race)
    <3>1. race \in BOOLEAN /\ (race <=> user[u].roles # loc[r].roles)
      BY <2>3 DEF RolesChanged
    <3> HIDE DEF race
    <3>3. \A t \in Tokens : session'[t] # NoSession =>
              /\ session[t] # NoSession /\ session'[t].user = session[t].user
              /\ session'[t].roles = session[t].roles
              /\ session'[t].password = session[t].password
              /\ session'[t].raced = (session[t].raced \/ (race /\ session[t].user = u))
      BY <2>3, <3>1, Kept
    <3> HIDE DEF u
    <3> SUFFICES ASSUME NEW t \in Tokens, session'[t] # NoSession, ~session'[t].raced
                 PROVE  LET row == user'[session'[t].user]
                        IN row.enabled /\ row.roles = session'[t].roles
                             /\ row.password = session'[t].password
      BY DEF SessionsCurrent
    <3>4. /\ session[t] # NoSession /\ ~session[t].raced /\ session[t].user \in Known
          /\ session'[t].user = session[t].user /\ ~(race /\ session[t].user = u)
      BY <3>3 DEF TypeOK
    <3>5. LET row == user[session[t].user]
          IN row.enabled /\ row.roles = session[t].roles /\ row.password = session[t].password
      BY <3>4 DEF SessionsCurrent
    <3>6. CASE session[t].user = u
      BY <2>1, <3>1, <3>3, <3>4, <3>5, <3>6
    <3>7. CASE session[t].user # u
      BY <2>1, <3>3, <3>4, <3>5, <3>7
    <3> QED BY <3>6, <3>7
  <2> QED BY <1>4, <2>2, <2>3 DEF WriteIdentity
<1>5. CASE SetDisabled(r)
  <2> DEFINE u == loc[r].target
             on == loc[r].disabled # "yes"
  <2>1. /\ u \in Known /\ user'[u].enabled = on
        /\ user'[u].roles = user[u].roles /\ user'[u].password = user[u].password
        /\ \A v \in Known : v # u => user'[v] = user[v]
    BY <1>5, Toggled, RowTyped DEF User
  <2>2. CASE EndSessions(u)
    <3>1. \A t \in Tokens : session'[t] # NoSession =>
            session'[t] = session[t] /\ session[t].user # u
      BY <2>2, Ended
    <3> HIDE DEF u
    <3> QED BY <2>1, <3>1 DEF SessionsCurrent, TypeOK
  <2>3. CASE on /\ UNCHANGED session
    <3> HIDE DEF u, on
    <3> SUFFICES ASSUME NEW t \in Tokens, session[t] # NoSession, ~session[t].raced
                 PROVE  LET row == user'[session[t].user]
                        IN row.enabled /\ row.roles = session[t].roles
                             /\ row.password = session[t].password
      BY <2>3 DEF SessionsCurrent
    <3>1. session[t].user \in Known
      BY DEF TypeOK
    <3>2. LET row == user[session[t].user]
          IN row.enabled /\ row.roles = session[t].roles /\ row.password = session[t].password
      BY DEF SessionsCurrent
    <3> QED BY <2>1, <2>3, <3>1, <3>2
  <2> QED BY <1>5, <2>2, <2>3 DEF SetDisabled
<1> QED BY <1>1, <1>2, <1>3, <1>4, <1>5, UserSteps

\* Users are never deleted.
LEMMA KnownRemain ==
  ASSUME IInv, NEW r \in Requests, SignIn(r) \/ Manage(r) \/ Refuse(r)
  PROVE  Known \subseteq Known'
<1> USE DEF IInv
<1>1. CASE user' = user
  BY <1>1 DEF Known
<1>2. CASE \E u \in Users, n \in Names, roles \in RoleSets, p \in Passwords :
             NewUser(u, n, roles, p)
  BY <1>2, RowAdded DEF NewUser
<1>3. CASE \E u \in Known, p \in Passwords : NewPassword(u, p)
  BY <1>3, Reset
<1> QED BY <1>1, <1>2, <1>3, UserSteps, Written, Toggled

\* Whoever was let in was let in for a user.
LEMMA LetInKept ==
  ASSUME IInv, NEW r \in Requests, SignIn(r) \/ Manage(r) \/ Refuse(r)
  PROVE  LetIn'
<1>1. \A q \in Requests : pc'[q] = "ready" => pc[q] = "ready" \/ Known # {}
  <2>1. CASE FindUser(r)
    BY <2>1, LocalTyped DEF FindUser, RequestOK, IInv
  <2>2. CASE ~FindUser(r)
    <3>1. \E label \in Labels \ {"ready"} : \E l : Continue(r, label, l)
            \/ UNCHANGED pc
      BY <2>2 DEF SignIn, Manage, Refuse, FindNoUsers, CreateFirstAdmin, Authenticate, Authenticated,
         StartSession, FindSession, Logout, CreateUser, ResetPassword, BeginPatch, ReadTarget, WriteIdentity,
         SetDisabled, Return, Labels
    <3> QED BY <3>1 DEF Continue, IInv, TypeOK
  <2> QED BY <2>1, <2>2
<1> QED BY <1>1, KnownRemain DEF LetIn, IInv

\* A PATCH that disables began with another enabled administrator there, or with none.
LEMMA OthersKept ==
  ASSUME IInv, NEW r \in Requests, SignIn(r) \/ Manage(r) \/ Refuse(r)
  PROVE  OthersSeen'
<1> USE DEF IInv
<1> DEFINE Seen(label, l) ==
             label \in {"read", "identity", "disable"} /\ l.disabled = "yes" /\ l.admins # {}
               => l.admins \ {l.target} # {}
<1>1. SUFFICES Seen(pc'[r], loc'[r])
  <2>1. UNCHANGED <<pc, loc>> \/ \E label, l : Continue(r, label, l)
    <3>1. CASE SignIn(r) \/ Refuse(r)
      BY <3>1 DEF SignIn, Refuse, FindNoUsers, CreateFirstAdmin, Authenticate, Authenticated,
         StartSession, FindSession, FindUser, Logout, Return
    <3>2. CASE Manage(r)
      BY <3>2 DEF Manage, CreateUser, ResetPassword, BeginPatch, ReadTarget, WriteIdentity,
         SetDisabled, Return
    <3> QED BY <3>1, <3>2
  <2>2. \A q \in Requests \ {r} : pc'[q] = pc[q] /\ loc'[q] = loc[q]
    BY <2>1 DEF Continue, TypeOK
  <2> QED BY <1>1, <2>2 DEF OthersSeen
<1>2. CASE \E u \in Known, n \in Names \cup {Keep}, roles \in RoleSets \cup {Keep},
              disabled \in {"keep", "yes", "no"} : BeginPatch(r, u, n, roles, disabled)
  <2>1. PICK u \in Known, n \in Names \cup {Keep}, roles \in RoleSets \cup {Keep},
             disabled \in {"keep", "yes", "no"} : BeginPatch(r, u, n, roles, disabled)
    BY <1>2
  <2> DEFINE admins == IF disabled = "yes" THEN EnabledAdmins ELSE {}
             l == [NoLocals EXCEPT !.target = u, !.name = n, !.roles = roles,
                                   !.disabled = disabled, !.admins = admins]
  <2>2. loc'[r] = l
    BY <2>1 DEF BeginPatch, Continue, TypeOK
  <2>3. l.disabled = disabled /\ l.target = u /\ l.admins = admins
    BY DEF NoLocals
  <2>4. ASSUME disabled = "yes", EnabledAdmins # {} PROVE EnabledAdmins \ {u} # {}
    <3>1. ~LastAdmin(u)
      BY <2>1, <2>4 DEF BeginPatch
    <3>2. CASE IsAdmin(user[u])
      BY <3>1, <3>2, OtherAdmin
    <3>3. CASE ~IsAdmin(user[u])
      BY <2>4, <3>3 DEF EnabledAdmins
    <3> QED BY <3>2, <3>3
  <2>5. disabled = "yes" /\ admins # {} => admins \ {u} # {}
    BY <2>4
  <2> HIDE DEF l, admins
  <2> QED BY <2>2, <2>3, <2>5
<1>3. CASE ReadTarget(r)
  <2> DEFINE row == user[loc[r].target]
             n == NewName(r, row)
             roles == NewRoles(r, row)
             b == row.roles
  <2>1. loc[r].target \in Known /\ pc[r] = "read"
    BY <1>3, LocalTyped DEF ReadTarget, RequestOK
  <2>2. loc'[r] = [loc[r] EXCEPT !.name = n, !.roles = roles, !.seen = b]
    BY <1>3 DEF ReadTarget, Continue, TypeOK
  <2>3. n \in Names /\ roles \in RoleSets /\ b \in RoleSets
    BY <2>1, RowTyped, NewValues
  <2> HIDE DEF n, roles, b, row
  <2>4. /\ loc'[r].disabled = loc[r].disabled /\ loc'[r].admins = loc[r].admins
        /\ loc'[r].target = loc[r].target
    BY <2>2, <2>3, LocalTyped DEF Locals
  <2> QED BY <2>1, <2>4 DEF OthersSeen
<1>4. CASE WriteIdentity(r) /\ ~Return(r)
  <2>1. pc[r] = "identity" /\ loc[r].target \in Users
    BY <1>4, LocalTyped DEF WriteIdentity, RequestOK, Known
  <2>2. loc'[r] = [NoLocals EXCEPT !.target = loc[r].target, !.applied = TRUE,
                     !.disabled = loc[r].disabled, !.admins = loc[r].admins]
    BY <1>4 DEF WriteIdentity, Continue, TypeOK
  <2>3. /\ loc'[r].disabled = loc[r].disabled /\ loc'[r].admins = loc[r].admins
        /\ loc'[r].target = loc[r].target
    BY <2>2 DEF NoLocals
  <2> QED BY <2>1, <2>3 DEF OthersSeen
<1>5. CASE pc'[r] \in Labels \ {"read", "identity", "disable"}
  BY <1>5
<1>6. CASE UNCHANGED <<pc, loc>>
  BY <1>6 DEF OthersSeen
<1>7. CASE SignIn(r) \/ Refuse(r)
  <2>1. UNCHANGED <<pc, loc>>
          \/ \E label \in Labels \ {"read", "identity", "disable"} : \E l : Continue(r, label, l)
    BY <1>7 DEF SignIn, Refuse, FindNoUsers, CreateFirstAdmin, Authenticate, Authenticated,
       StartSession, FindSession, FindUser, Logout, Return, Labels
  <2> QED BY <1>5, <1>6, <2>1 DEF Continue, TypeOK
<1>8. CASE Return(r)
  BY <1>5, <1>8 DEF Return, Continue, TypeOK, Labels
<1> QED BY <1>2, <1>3, <1>4, <1>7, <1>8 DEF Manage, CreateUser, ResetPassword, SetDisabled

\* Every step keeps the invariant.
LEMMA InvNext == IInv /\ [Next]_vars => IInv'
<1> SUFFICES ASSUME IInv, [Next]_vars PROVE IInv'
  OBVIOUS
<1>1. TypeOK'
  BY TypeNext DEF IInv
<1>2. CASE UNCHANGED vars
  BY <1>1, <1>2 DEF vars, IInv, LetIn, OthersSeen, AdminsThere, NamesDistinct, SessionsCurrent,
     Known, EnabledAdmins
<1>3. CASE Next
  <2>1. PICK r \in Requests : SignIn(r) \/ Manage(r) \/ Refuse(r)
    BY <1>3 DEF Next
  <2> QED BY <1>1, <2>1, LetInKept, OthersKept, AdminsThereKept, NamesKept, SessionsKept DEF IInv
<1> QED BY <1>2, <1>3

\* It holds before the first request.
LEMMA InvInit == Init => IInv
<1> SUFFICES ASSUME Init PROVE IInv
  OBVIOUS
<1>1. Known = {}
  BY DEF Init, Known
<1>2. TypeOK
  BY TypeInit
<1> QED BY <1>1, <1>2 DEF Init, IInv, LetIn, OthersSeen, AdminsThere, NamesDistinct, SessionsCurrent

\* The invariant holds throughout.
LEMMA InvHolds == Spec => []IInv
BY InvInit, InvNext, PTL DEF Spec

\* Where there is an enabled administrator there goes on to be one: the administrators
\* are counted in the transaction that takes one away.
THEOREM AdministratorRemains == Spec => AdminRemains
<1>1. IInv /\ [Next]_vars => (EnabledAdmins # {} => EnabledAdmins' # {})
  <2> SUFFICES ASSUME IInv, [Next]_vars PROVE EnabledAdmins # {} => EnabledAdmins' # {}
    OBVIOUS
  <2>1. CASE UNCHANGED vars
    BY <2>1 DEF vars, EnabledAdmins, Known
  <2>2. CASE Next
    BY <2>2, AdminKept DEF Next
  <2> QED BY <2>1, <2>2
<1> QED BY <1>1, InvHolds, PTL DEF AdminRemains, Spec

\* When CertMon never runs in standalone mode, the users always have an enabled
\* administrator among them: the first of them is one.
THEOREM AdministratorInServerMode == Spec => []AdminsThere
<1>1. IInv => AdminsThere
  BY DEF IInv
<1> QED BY <1>1, InvHolds, PTL

\* No two users have one name, however set-ups, creations and renames race.
THEOREM NamesStayDistinct == Spec => []NamesDistinct
<1>1. IInv => NamesDistinct
  BY DEF IInv
<1> QED BY <1>1, InvHolds, PTL

\* Apart from the two races that SessionsCurrent names, a session stands for an
\* enabled user with the roles and the password with which it was opened.
THEOREM SessionsStayCurrent == Spec => []SessionsCurrent
<1>1. IInv => SessionsCurrent
  BY DEF IInv
<1> QED BY <1>1, InvHolds, PTL

\* A PATCH that began with an administrator there is applied by half only when one of
\* those is none any more.
THEOREM HalfPatchIsARace == Spec => []HalfPatchNeedsRace
<1>1. IInv => HalfPatchNeedsRace
  <2> SUFFICES ASSUME IInv, NEW r \in Requests, pc[r] = "disable", loc[r].disabled = "yes",
                      LastAdmin(loc[r].target), loc[r].admins # {},
                      loc[r].admins \ {loc[r].target} \subseteq EnabledAdmins
               PROVE  FALSE
    BY DEF HalfPatchNeedsRace
  <2>1. loc[r].target \in Known
    BY LocalTyped DEF RequestOK, IInv
  <2>2. EnabledAdmins = {loc[r].target}
    BY <2>1, OnlyAdmin
  <2> QED BY <2>2 DEF IInv, OthersSeen
<1> QED BY <1>1, InvHolds, PTL

=============================================================================
