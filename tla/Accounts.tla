------------------------------ MODULE Accounts ------------------------------
(***************************************************************************)
(* Local accounts (internal/api/handlers_{setup,auth,users}.go,            *)
(* middleware.go, internal/store/{users,sessions,settings}.go): the        *)
(* first-run wizard, sessions, roles and passwords.                        *)
(*                                                                         *)
(* As in the rest of HELBOOT a store method is atomic and a request is a   *)
(* sequence of them; an action is one store method and the code up to the  *)
(* next one.  A password and its hash are one value: hashes are compared   *)
(* only by VerifyPassword.  Names are left out: a name is taken or not, so *)
(* creating an account may fail at its check and at its insert.            *)
(***************************************************************************)
EXTENDS Naturals, FiniteSets

CONSTANTS
  Procs,        \* requests in progress at the same time
  Passwords,
  OtherRoles,   \* the roles below admin
  OtherKeys,    \* the settings that setup writes besides setup.completed
  MaxUsers,     \* bound: accounts ever created
  MaxSessions   \* bound: sessions ever created

ASSUME AccountsAssumption ==
  /\ Passwords # {}
  /\ "admin" \notin OtherRoles
  /\ MaxUsers \in Nat /\ MaxSessions \in Nat

VARIABLES
  users,        \* table users
  sessions,     \* table sessions
  settings,     \* the keys of table settings that setup writes
  userSeq, sessionSeq,  \* ids given out: AUTOINCREMENT, and random tokens
  req           \* the requests in progress

db == <<users, sessions, settings, userSeq, sessionSeq>>
vars == <<users, sessions, settings, userSeq, sessionSeq, req>>

None == 0
Roles == {"admin"} \cup OtherRoles
Keys == OtherKeys \cup {"setup.completed"}
UserIds == 1..MaxUsers
Tokens == 1..MaxSessions

User    == [role : Roles, password : Passwords]
(* password: the one it was opened with.  live: not yet expired. *)
Session == [user : UserIds, password : Passwords, live : BOOLEAN]

Kinds == {"none", "setup", "login", "logout", "create", "role", "reset", "own", "delete"}
Steps == {"idle", "user", "target", "check", "count", "write", "settings"}

(* What a client sends is chosen when the handler looks at it.  given: the *)
(* password a login was found right with.                                  *)
Request ==
  [at : Steps, kind : Kinds, caller : UserIds \cup {None}, target : UserIds \cup {None},
   role : Roles, given : Passwords \cup {None}, token : Tokens \cup {None}, keys : SUBSET Keys]

Idle == [at |-> "idle", kind |-> "none", caller |-> None, target |-> None, role |-> "admin",
         given |-> None, token |-> None, keys |-> {}]

Empty == [x \in {} |-> 0]

Init ==
  /\ users = Empty /\ sessions = Empty
  /\ settings = {}
  /\ userSeq = 0 /\ sessionSeq = 0
  /\ req = [p \in Procs |-> Idle]

Put(f, x, y) == [z \in DOMAIN f \cup {x} |-> IF z = x THEN y ELSE f[z]]
Drop(f, S) == [z \in DOMAIN f \ S |-> f[z]]

Admins == {u \in DOMAIN users : users[u].role = "admin"}
SessionsOf(u) == {t \in DOMAIN sessions : sessions[t].user = u}

-----------------------------------------------------------------------------
(* The store: each method changes a table, or fails and changes nothing. *)

CreateUser(role, password) ==
  /\ userSeq < MaxUsers                                       \* bound
  /\ userSeq' = userSeq + 1
  /\ users' = Put(users, userSeq + 1, [role |-> role, password |-> password])
  /\ UNCHANGED <<sessions, settings, sessionSeq>>

UpdateUserRole(u, role) ==
  IF u \in DOMAIN users
  THEN /\ users' = Put(users, u, [role |-> role, password |-> users[u].password])
       /\ UNCHANGED <<sessions, settings, userSeq, sessionSeq>>
  ELSE UNCHANGED db

(* Mutant: the sessions stay. *)
UpdatePasswordOnly(u, password) ==
  IF u \in DOMAIN users
  THEN /\ users' = Put(users, u, [role |-> users[u].role, password |-> password])
       /\ UNCHANGED <<sessions, settings, userSeq, sessionSeq>>
  ELSE UNCHANGED db

(* One transaction. *)
UpdateUserPassword(u, password) ==
  IF u \in DOMAIN users
  THEN /\ users' = Put(users, u, [role |-> users[u].role, password |-> password])
       /\ sessions' = Drop(sessions, SessionsOf(u))
       /\ UNCHANGED <<settings, userSeq, sessionSeq>>
  ELSE UNCHANGED db

DeleteUser(u) ==
  /\ users' = Drop(users, {u})
  /\ sessions' = Drop(sessions, SessionsOf(u))                \* ON DELETE CASCADE
  /\ UNCHANGED <<settings, userSeq, sessionSeq>>

(* Mutant: without the foreign key. *)
CreateSessionForAnyone(u, password) ==
  IF sessionSeq < MaxSessions
  THEN /\ sessionSeq' = sessionSeq + 1
       /\ sessions' = Put(sessions, sessionSeq + 1,
                          [user |-> u, password |-> password, live |-> TRUE])
       /\ UNCHANGED <<users, settings, userSeq>>
  ELSE UNCHANGED db

CreateSession(u, password) ==
  IF /\ u \in DOMAIN users                                    \* foreign key
     /\ sessionSeq < MaxSessions                              \* bound
  THEN /\ sessionSeq' = sessionSeq + 1
       /\ sessions' = Put(sessions, sessionSeq + 1,
                          [user |-> u, password |-> password, live |-> TRUE])
       /\ UNCHANGED <<users, settings, userSeq>>
  ELSE UNCHANGED db

DeleteSession(t) ==
  /\ sessions' = Drop(sessions, {t})
  /\ UNCHANGED <<users, settings, userSeq, sessionSeq>>

(* Mutant: key and value, both of them strings, the wrong way round. *)
SetSettingSwapped(key) ==
  /\ settings' = settings \cup {IF key = "setup.completed" THEN "true" ELSE "proxy_dhcp"}
  /\ UNCHANGED <<users, sessions, userSeq, sessionSeq>>

SetSetting(key) ==
  /\ settings' = settings \cup {key}
  /\ UNCHANGED <<users, sessions, userSeq, sessionSeq>>

-----------------------------------------------------------------------------
Begin(p, r) ==
  /\ req[p].at = "idle"
  /\ req' = [req EXCEPT ![p] = r]

Become(p, r) == req' = [req EXCEPT ![p] = r]
Goto(p, step) == req' = [req EXCEPT ![p].at = step]
End(p) == req' = [req EXCEPT ![p] = Idle]
At(p, kinds, step) == req[p].kind \in kinds /\ req[p].at = step

(* handleSetupComplete: has it been completed?  Then nothing happens. *)
BeginSetup(p) ==
  /\ "setup.completed" \notin settings
  /\ Begin(p, [Idle EXCEPT !.kind = "setup", !.at = "write", !.keys = Keys])
  /\ UNCHANGED db

SetupCreate(p, password) ==
  /\ At(p, {"setup"}, "write")
  /\ \/ CreateUser("admin", password) /\ Goto(p, "settings")
     \/ UNCHANGED db /\ End(p)                                 \* name taken

(* The settings, in the random order of a Go map. *)
SetupSetting(p, key) ==
  /\ At(p, {"setup"}, "settings")
  /\ key \in req[p].keys
  /\ SetSetting(key)
  /\ IF req[p].keys = {key} THEN End(p)
     ELSE Become(p, [req[p] EXCEPT !.keys = @ \ {key}])

(* handleLogin: a wrong name or password changes nothing. *)
BeginLogin(p, u) ==
  /\ u \in DOMAIN users
  /\ Begin(p, [Idle EXCEPT !.kind = "login", !.at = "write", !.target = u,
                           !.given = users[u].password])
  /\ UNCHANGED db

LoginCreate(p) ==
  /\ At(p, {"login"}, "write")
  /\ CreateSession(req[p].target, req[p].given)
  /\ End(p)

(* require: the session, unexpired, *)
BeginAuthorised(p, t, kind) ==
  /\ t \in DOMAIN sessions /\ sessions[t].live
  /\ Begin(p, [Idle EXCEPT !.kind = kind, !.at = "user", !.caller = sessions[t].user,
                           !.token = IF kind = "logout" THEN t ELSE None])
  /\ UNCHANGED db

(* then its user, whose role must do; user management is for admins. *)
FirstStep ==
  [logout |-> "write", create |-> "check", role |-> "target", reset |-> "target",
   delete |-> "target", own |-> "write"]

RequireUser(p) ==
  /\ req[p].at = "user" /\ req[p].kind # "own"
  /\ IF /\ req[p].caller \in DOMAIN users
        /\ req[p].kind = "logout" \/ req[p].caller \in Admins
     THEN Goto(p, FirstStep[req[p].kind])
     ELSE End(p)
  /\ UNCHANGED db

(* handleChangeOwnPassword: the current password must be right, for the    *)
(* user as just read.                                                      *)
OwnVerify(p, given) ==
  /\ At(p, {"own"}, "user")
  /\ IF req[p].caller \in DOMAIN users /\ given = users[req[p].caller].password
     THEN Goto(p, "write")
     ELSE End(p)
  /\ UNCHANGED db

OwnWrite(p, password) ==
  /\ At(p, {"own"}, "write")
  /\ UpdateUserPassword(req[p].caller, password)
  /\ End(p)

Logout(p) ==
  /\ At(p, {"logout"}, "write")
  /\ DeleteSession(req[p].token)
  /\ End(p)

(* handleCreateUser: is the name taken? *)
CreateCheck(p) ==
  /\ At(p, {"create"}, "check")
  /\ Goto(p, "write") \/ End(p)
  /\ UNCHANGED db

CreateWrite(p, role, password) ==
  /\ At(p, {"create"}, "write")
  /\ CreateUser(role, password) \/ UNCHANGED db                \* name taken
  /\ End(p)

(* handleUpdateUser, handleSetUserPassword and handleDeleteUser read the   *)
(* target.  Taking an administrator away needs another look.               *)
ReadTarget(p, u, role) ==
  /\ At(p, {"role", "reset", "delete"}, "target")
  /\ req[p].kind = "delete" => u # req[p].caller
  /\ IF u \notin DOMAIN users THEN End(p)
     ELSE LET takes == /\ u \in Admins
                       /\ req[p].kind = "role" => role # "admin"
                       /\ req[p].kind # "reset" IN
          Become(p, [req[p] EXCEPT !.at = IF takes THEN "count" ELSE "write", !.target = u,
                                   !.role = IF req[p].kind = "role" THEN role ELSE @])
  /\ UNCHANGED db

(* Mutant: off by one. *)
IsNoAdmin == Cardinality(Admins) <= 0

IsLastAdmin == Cardinality(Admins) <= 1

CountAdmins(p) ==
  /\ At(p, {"role", "delete"}, "count")
  /\ IF IsLastAdmin THEN End(p) ELSE Goto(p, "write")
  /\ UNCHANGED db

UpdateRoleWrite(p) ==
  /\ At(p, {"role"}, "write")
  /\ UpdateUserRole(req[p].target, req[p].role)
  /\ End(p)

DeleteWrite(p) ==
  /\ At(p, {"delete"}, "write")
  /\ DeleteUser(req[p].target)
  /\ End(p)

ResetWrite(p, password) ==
  /\ At(p, {"reset"}, "write")
  /\ UpdateUserPassword(req[p].target, password)
  /\ End(p)

-----------------------------------------------------------------------------
(* A session reaches its end; the housekeeping loop purges those that did. *)
Expire(t) ==
  /\ t \in DOMAIN sessions
  /\ sessions' = Put(sessions, t, [user |-> sessions[t].user,
                                  password |-> sessions[t].password, live |-> FALSE])
  /\ UNCHANGED <<users, settings, userSeq, sessionSeq, req>>

Housekeeping ==
  /\ sessions' = Drop(sessions, {t \in DOMAIN sessions : ~ sessions[t].live})
  /\ UNCHANGED <<users, settings, userSeq, sessionSeq, req>>

(* A store method fails: the handler answers 500 and stops there. *)
StoreFails(p) ==
  /\ req[p].at # "idle"
  /\ End(p)
  /\ UNCHANGED db

(* The process is killed and started again. *)
Restart ==
  /\ req' = [p \in Procs |-> Idle]
  /\ UNCHANGED db

Arrive(p) ==
  \/ BeginSetup(p)
  \/ \E u \in UserIds : BeginLogin(p, u)
  \/ \E t \in Tokens, kind \in DOMAIN FirstStep : BeginAuthorised(p, t, kind)

Step(p) ==
  \/ \E key \in Keys : SetupSetting(p, key)
  \/ \E password \in Passwords :
       \/ SetupCreate(p, password)
       \/ OwnVerify(p, password) \/ OwnWrite(p, password)
       \/ ResetWrite(p, password)
  \/ \E role \in Roles, password \in Passwords : CreateWrite(p, role, password)
  \/ \E u \in UserIds, role \in Roles : ReadTarget(p, u, role)
  \/ LoginCreate(p) \/ RequireUser(p) \/ Logout(p) \/ CreateCheck(p)
  \/ CountAdmins(p) \/ UpdateRoleWrite(p) \/ DeleteWrite(p)

Next ==
  \/ \E p \in Procs : Arrive(p) \/ Step(p) \/ StoreFails(p)
  \/ \E t \in Tokens : Expire(t)
  \/ Housekeeping
  \/ Restart

Spec == Init /\ [][Next]_vars

-----------------------------------------------------------------------------
(* Properties *)

(* Rows and requests are of their types, whatever becomes of an account    *)
(* while a request about it is in progress.                                *)
TypeOK ==
  /\ DOMAIN users \subseteq 1..userSeq /\ \A u \in DOMAIN users : users[u] \in User
  /\ DOMAIN sessions \subseteq 1..sessionSeq /\ \A t \in DOMAIN sessions : sessions[t] \in Session
  /\ settings \subseteq Keys
  /\ userSeq \in 0..MaxUsers /\ sessionSeq \in 0..MaxSessions
  /\ req \in [Procs -> Request]

(* No session belongs to a deleted account, even if it was deleted between *)
(* the password check of a login and its end (sessions.go, the foreign key *)
(* that CreateSession meets).                                              *)
SessionsOwned == \A t \in DOMAIN sessions : sessions[t].user \in DOMAIN users
=============================================================================
