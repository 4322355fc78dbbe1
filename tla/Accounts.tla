------------------------------ MODULE Accounts ------------------------------
(***************************************************************************)
(* Local users, their sessions and the requests that change them            *)
(* (certmon/auth.py, the tables users and sessions of certmon/db.py, the    *)
(* routes /api/auth and /api/users of app.py).                              *)
(*                                                                         *)
(* Each method of the database is one transaction, the methods of           *)
(* AuthService and the routes are several: a request reads a user, decides, *)
(* and writes later.  An action is what one request does with the database  *)
(* in one transaction or one read.                                         *)
(***************************************************************************)
EXTENDS Naturals, FiniteSets

CONSTANTS
  Users,      \* identifiers of rows of the table users; rows are never deleted
  Names,      \* user names, those that differ in case only being the same
  Passwords,
  Roles,      \* SUPPORTED_ROLES
  Admin,      \* the role that may manage users
  RoleSets,   \* what a user's roles may be set to
  Tokens,     \* session tokens; start_session never repeats one
  Requests,   \* request threads
  Modes,      \* what the configuration may say, which every request reads anew:
              \* whether CertMon runs in server mode (server_mode_enabled)
  NoUser, NoSession, Keep

ASSUME UsersAssumption == IsFiniteSet(Users)
ASSUME RolesAssumption ==
  /\ Admin \in Roles
  /\ RoleSets \subseteq (SUBSET Roles) \ {{}}
  /\ Roles \in RoleSets
ASSUME ModesAssumption == Modes \subseteq BOOLEAN

VARIABLES
  user,      \* the table users
  session,   \* the table sessions
  pc,        \* where each request is
  loc        \* the locals of each request

vars == <<user, session, pc, loc>>

User == [name : Names, roles : RoleSets, enabled : BOOLEAN, password : Passwords]

\* roles and password are those the user had when the login read them, raced is
\* set for a session that the ending of sessions missed because of a stale read
\* (history: no guard looks at the three).
Session == [user : Users, roles : RoleSets, password : Passwords, raced : BOOLEAN]

ASSUME NullAssumption ==
  /\ NoUser \notin User
  /\ NoSession \notin Session
  /\ Keep \notin Names \cup RoleSets \cup Passwords

Labels == {"idle", "first", "start", "token", "ready", "read", "identity", "disable"}

\* A request: its token and whether it may manage users; the user it is about;
\* what a PATCH asks for and, when the user has been read, what it will write (or
\* what a login has read); the enabled administrators there were when a PATCH began
\* and whether it has written something already (history).
Locals ==
  [token : Tokens \cup {NoSession}, manager : BOOLEAN, target : Users \cup {NoUser},
   name : Names \cup {Keep}, roles : RoleSets \cup {Keep},
   password : Passwords \cup {Keep}, seen : RoleSets \cup {Keep},
   disabled : {"keep", "yes", "no"}, admins : SUBSET Users, applied : BOOLEAN]

NoLocals ==
  [token |-> NoSession, manager |-> FALSE, target |-> NoUser,
   name |-> Keep, roles |-> Keep, password |-> Keep, seen |-> Keep,
   disabled |-> "keep", admins |-> {}, applied |-> FALSE]

Known == {u \in Users : user[u] # NoUser}

\* What the locals of a request are at each label.
RequestOK(r) ==
  /\ pc[r] \in {"first", "identity"} => loc[r].name \in Names
  /\ pc[r] \in {"token", "start", "read", "identity", "disable"} => loc[r].target \in Known
  /\ pc[r] \in {"token", "ready"} => loc[r].token \in Tokens
  /\ pc[r] \in {"start", "identity"} => loc[r].roles \in RoleSets
  /\ pc[r] = "start" => loc[r].password \in Passwords

TypeOK ==
  /\ user \in [Users -> User \cup {NoUser}]
  /\ session \in [Tokens -> Session \cup {NoSession}]
  /\ pc \in [Requests -> Labels]
  /\ loc \in [Requests -> Locals]
  /\ \A t \in Tokens : session[t] # NoSession => session[t].user \in Known
  /\ \A r \in Requests : RequestOK(r)

Init ==
  /\ user = [u \in Users |-> NoUser]
  /\ session = [t \in Tokens |-> NoSession]
  /\ pc = [r \in Requests |-> "idle"]
  /\ loc = [r \in Requests |-> NoLocals]

(***************************************************************************)
(* What requests are made of                                               *)
(***************************************************************************)

Continue(r, label, l) ==
  /\ pc' = [pc EXCEPT ![r] = label]
  /\ loc' = [loc EXCEPT ![r] = l]

Return(r) == Continue(r, "idle", NoLocals)

IsAdmin(row) == row.enabled /\ Admin \in row.roles

\* _count_enabled_admins counts these.
EnabledAdmins == {u \in Known : IsAdmin(user[u])}

LastAdmin(u) == IsAdmin(user[u]) /\ Cardinality(EnabledAdmins) <= 1

\* Mutant: the name of a disabled user may be taken again.
NameUnused(n, u) == \A v \in Known \ {u} : user[v].enabled => user[v].name # n

\* No user but u has the name: the index of the table, and the SELECT for a
\* duplicate in the transaction of a PATCH.
NameFree(n, u) == \A v \in Known \ {u} : user[v].name # n

\* DELETE FROM sessions WHERE user_id = u.
EndSessions(u) ==
  session' = [t \in Tokens |->
                IF session[t] # NoSession /\ session[t].user = u THEN NoSession
                                                                 ELSE session[t]]

\* The sessions of u stay; race tells whether they should not have.
KeepSessions(u, race) ==
  session' = [t \in Tokens |->
                IF session[t] # NoSession /\ session[t].user = u
                  THEN [session[t] EXCEPT !.raced = @ \/ race]
                  ELSE session[t]]

\* An INSERT into users, refused when the name is taken.
AddUser(u, n, roles, p) ==
  /\ u \notin Known
  /\ NameFree(n, u)
  /\ user' = [user EXCEPT ![u] = [name |-> n, roles |-> roles, enabled |-> TRUE,
                                  password |-> p]]

(***************************************************************************)
(* The first administrator, logging in and out                             *)
(***************************************************************************)

\* What a login knows of the user it opens a session for.
Authenticated(r, u, roles, p) ==
  Continue(r, "start", [NoLocals EXCEPT !.target = u, !.roles = roles, !.password = p])

\* create_first_admin finds no users ...
FindNoUsers(r, n) ==
  /\ pc[r] = "idle"
  /\ Known = {}
  /\ Continue(r, "first", [NoLocals EXCEPT !.name = n])
  /\ UNCHANGED <<user, session>>

\* ... and creates one, whoever has created another meanwhile.
CreateFirstAdmin(r) ==
  /\ pc[r] = "first"
  /\ \E u \in Users, p \in Passwords :
       /\ AddUser(u, loc[r].name, Roles, p)
       /\ Authenticated(r, u, Roles, p)
  /\ UNCHANGED session

\* authenticate: the password given is that of the row.
Authenticate(r, u) ==
  /\ pc[r] = "idle"
  /\ user[u].enabled
  /\ Authenticated(r, u, user[u].roles, user[u].password)
  /\ UNCHANGED <<user, session>>

\* Whether the row the request has read is out of date in what a session
\* stands for.
Overtaken(r) ==
  LET now == user[loc[r].target] IN
  ~now.enabled \/ now.roles # loc[r].roles \/ now.password # loc[r].password

\* start_session inserts a session under a new token, without another look at
\* the user.
StartSession(r) ==
  /\ pc[r] = "start"
  /\ \E t \in Tokens :
       /\ session[t] = NoSession
       /\ \A q \in Requests : loc[q].token # t
       /\ session' = [session EXCEPT ![t] =
            [user |-> loc[r].target, roles |-> loc[r].roles,
             password |-> loc[r].password, raced |-> Overtaken(r)]]
  /\ Return(r)
  /\ UNCHANGED user

\* In server mode user_for_token finds the session of the cookie; an expired one is
\* deleted.
FindSession(r, t) ==
  /\ TRUE \in Modes
  /\ pc[r] = "idle"
  /\ session[t] # NoSession
  /\ \/ /\ Continue(r, "token", [NoLocals EXCEPT !.token = t, !.target = session[t].user])
        /\ UNCHANGED session
     \/ /\ session' = [session EXCEPT ![t] = NoSession]
        /\ UNCHANGED <<pc, loc>>
  /\ UNCHANGED user

\* It reads the user; the session of a disabled one is deleted.  The permissions
\* of the request are those of the roles read here.
FindUser(r) ==
  LET row == user[loc[r].target] IN
  /\ pc[r] = "token"
  /\ IF row.enabled
       THEN /\ Continue(r, "ready", [NoLocals EXCEPT !.token = loc[r].token,
                                                     !.manager = Admin \in row.roles])
            /\ UNCHANGED session
       ELSE /\ session' = [session EXCEPT ![loc[r].token] = NoSession]
            /\ Return(r)
  /\ UNCHANGED user

\* In standalone mode require_server_authentication returns before it looks at the
\* cookie, and a request without a user has the local permissions, those on users
\* among them: nothing is read before such a request does what it came for.
Local(r) == FALSE \in Modes /\ pc[r] = "idle"

\* end_session: the session of the request, in standalone mode the one of its cookie.
Logout(r) ==
  /\ \E t \in Tokens :
       /\ \/ pc[r] = "ready" /\ t = loc[r].token
          \/ Local(r) /\ session[t] # NoSession
       /\ session' = [session EXCEPT ![t] = NoSession]
  /\ Return(r)
  /\ UNCHANGED user

(***************************************************************************)
(* Managing users                                                          *)
(***************************************************************************)

\* authorize: the permissions of the roles, or the local ones.
MayManage(r) == (pc[r] = "ready" /\ loc[r].manager) \/ Local(r)

CreateUser(r) ==
  /\ MayManage(r)
  /\ \E u \in Users, n \in Names, roles \in RoleSets, p \in Passwords :
       AddUser(u, n, roles, p)
  /\ Return(r)
  /\ UNCHANGED session

\* reset_user_password: one transaction sets the hash and ends the sessions.
ResetPassword(r) ==
  /\ MayManage(r)
  /\ \E u \in Known, p \in Passwords :
       /\ user' = [user EXCEPT ![u] = [@ EXCEPT !.password = p]]
       /\ EndSessions(u)
  /\ Return(r)

\* Mutant: api_users_update leaves the look at the final administrator to the
\* transaction of set_user_disabled.
BeginPatchUnchecked(r, u, n, roles, disabled) ==
  /\ MayManage(r)
  /\ u \in Known
  /\ <<n, roles, disabled>> # <<Keep, Keep, "keep">>
  /\ Continue(r, IF n = Keep /\ roles = Keep THEN "disable" ELSE "read",
       [NoLocals EXCEPT !.target = u, !.name = n, !.roles = roles, !.disabled = disabled,
          !.admins = IF disabled = "yes" THEN EnabledAdmins ELSE {}])
  /\ UNCHANGED <<user, session>>

\* api_users_update looks whether the final administrator would be disabled, so
\* that such a PATCH changes nothing at all.
BeginPatch(r, u, n, roles, disabled) ==
  /\ MayManage(r)
  /\ u \in Known
  /\ <<n, roles, disabled>> # <<Keep, Keep, "keep">>
  /\ ~(disabled = "yes" /\ LastAdmin(u))
  /\ Continue(r, IF n = Keep /\ roles = Keep THEN "disable" ELSE "read",
       [NoLocals EXCEPT !.target = u, !.name = n, !.roles = roles, !.disabled = disabled,
          !.admins = IF disabled = "yes" THEN EnabledAdmins ELSE {}])
  /\ UNCHANGED <<user, session>>

\* Mutant: a name the PATCH does not give is not taken from the row.
NewNameAsSent(r, row) == loc[r].name

NewName(r, row) == IF loc[r].name = Keep THEN row.name ELSE loc[r].name

NewRoles(r, row) == IF loc[r].roles = Keep THEN row.roles ELSE loc[r].roles

\* Mutant: sessions end only when a role is taken away.
RolesTaken(r) == loc[r].seen \ loc[r].roles # {}

\* roles_changed: the roles to be written are not those read.
RolesChanged(r) == loc[r].roles # loc[r].seen

\* update_user reads the user, takes from the row what the PATCH does not ask for
\* and keeps the roles it saw, all before the transaction.
ReadTarget(r) ==
  LET row == user[loc[r].target] IN
  /\ pc[r] = "read"
  /\ Continue(r, "identity", [loc[r] EXCEPT !.name = NewName(r, row),
                                            !.roles = NewRoles(r, row),
                                            !.seen = row.roles])
  /\ UNCHANGED <<user, session>>

\* update_user_identity_and_roles in one transaction: the final administrator
\* and the name are looked up in it; name and roles are both written.
WriteIdentity(r) ==
  LET u == loc[r].target IN
  /\ pc[r] = "identity"
  /\ ~(LastAdmin(u) /\ Admin \notin loc[r].roles)
  /\ NameFree(loc[r].name, u)
  /\ user' = [user EXCEPT ![u] = [@ EXCEPT !.name = loc[r].name, !.roles = loc[r].roles]]
  /\ IF RolesChanged(r) THEN EndSessions(u)
                        ELSE KeepSessions(u, user[u].roles # loc[r].seen)
  /\ IF loc[r].disabled = "keep"
       THEN Return(r)
       ELSE Continue(r, "disable", [NoLocals EXCEPT !.target = u, !.applied = TRUE,
              !.disabled = loc[r].disabled, !.admins = loc[r].admins])

\* Mutant: set_user_disabled relies on the look of the route.
SetDisabledUnguarded(r) ==
  LET u == loc[r].target
      off == loc[r].disabled = "yes"
  IN /\ pc[r] = "disable"
     /\ user' = [user EXCEPT ![u] = [@ EXCEPT !.enabled = ~off]]
     /\ IF off THEN EndSessions(u) ELSE UNCHANGED session
     /\ Return(r)

\* set_user_disabled in one transaction of its own.
SetDisabled(r) ==
  LET u == loc[r].target
      off == loc[r].disabled = "yes"
  IN /\ pc[r] = "disable"
     /\ ~(off /\ LastAdmin(u))
     /\ user' = [user EXCEPT ![u] = [@ EXCEPT !.enabled = ~off]]
     /\ IF off THEN EndSessions(u) ELSE UNCHANGED session
     /\ Return(r)

\* A request ends without doing more: it is refused (403, a name that is taken,
\* the final administrator), the database raises, or the process stops.
Refuse(r) ==
  /\ pc[r] # "idle"
  /\ Return(r)
  /\ UNCHANGED <<user, session>>

(***************************************************************************)

SignIn(r) ==
  \/ \E n \in Names : FindNoUsers(r, n)
  \/ CreateFirstAdmin(r)
  \/ \E u \in Known : Authenticate(r, u)
  \/ StartSession(r)
  \/ \E t \in Tokens : FindSession(r, t)
  \/ FindUser(r)
  \/ Logout(r)

Manage(r) ==
  \/ CreateUser(r)
  \/ ResetPassword(r)
  \/ \E u \in Known, n \in Names \cup {Keep}, roles \in RoleSets \cup {Keep},
        disabled \in {"keep", "yes", "no"} : BeginPatch(r, u, n, roles, disabled)
  \/ ReadTarget(r)
  \/ WriteIdentity(r)
  \/ SetDisabled(r)

Next == \E r \in Requests : SignIn(r) \/ Manage(r) \/ Refuse(r)

Spec == Init /\ [][Next]_vars

(***************************************************************************)
(* Properties                                                              *)
(***************************************************************************)

\* While there is an enabled administrator there goes on to be one, whatever
\* administrators do to each other or to themselves at a time
\* (update_user_identity_and_roles, set_user_disabled).  In server mode the first
\* user is one; in standalone mode POST /api/users may make a first user who is
\* not, and then there are users and no administrator until one is made.
AdminRemains == [][EnabledAdmins # {} => EnabledAdmins' # {}]_vars

\* No two users have one name: set-ups, creations and renames race, and a PATCH
\* that does not rename writes the name it read back (update_user).
NamesDistinct ==
  \A u, v \in Known : u # v => user[u].name # user[v].name

\* A session stands for an enabled user with the roles and the password with
\* which it was opened: a disabling, a change of roles and a reset end the
\* sessions of the user.  Two races escape it: a login that was authenticated
\* before the change and inserts its session after it (start_session), and a
\* PATCH that changes roles back to those it read before another PATCH changed
\* them (roles_changed).
SessionsCurrent ==
  \A t \in Tokens :
    session[t] # NoSession /\ ~session[t].raced =>
      LET row == user[session[t].user] IN
      row.enabled /\ row.roles = session[t].roles /\ row.password = session[t].password

\* A PATCH that has changed the name or the roles and is then refused the
\* disabling lost a race: another administrator there was when it began is none
\* any more (api_users_update).  The exception is a PATCH that began when there was
\* no administrator at all, which only standalone mode leads to: it may make the
\* first one and then fail to disable it.
HalfPatchNeedsRace ==
  \A r \in Requests :
    LET u == loc[r].target IN
    /\ pc[r] = "disable" /\ loc[r].applied /\ loc[r].disabled = "yes"
    /\ LastAdmin(u)
    /\ loc[r].admins # {}
    => ~(loc[r].admins \ {u} \subseteq EnabledAdmins)

=============================================================================
