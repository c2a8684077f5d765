--------------------------- MODULE AccountsProofs ---------------------------
(***************************************************************************)
(* Accounts for any number of requests, accounts and sessions: types and   *)
(* foreign keys; an administrator, and sessions opened with current        *)
(* passwords, but for what stale requests leave behind.                    *)
(***************************************************************************)
EXTENDS AccountsHistory, FiniteSetTheorems, TLAPS

(* The tables by themselves. *)
DbTypeOK ==
  /\ DOMAIN users \subseteq 1..userSeq /\ \A u \in DOMAIN users : users[u] \in User
  /\ DOMAIN sessions \subseteq 1..sessionSeq /\ \A t \in DOMAIN sessions : sessions[t] \in Session
  /\ settings \subseteq Keys
  /\ userSeq \in 0..MaxUsers /\ sessionSeq \in 0..MaxSessions

(* What the locals of a request say of the tables, whatever others do. *)
Locals ==
  \A p \in Procs :
    /\ req[p].at = "idle" => req[p].kind = "none"
    /\ req[p].at = "user" => req[p].kind \in DOMAIN FirstStep
    /\ req[p].kind = "login" => req[p].given \in Passwords
    /\ req[p].caller \in 0..userSeq
    /\ req[p].target \in 0..userSeq

Inv == TypeOK /\ SessionsOwned /\ Locals

-----------------------------------------------------------------------------
(* Helpers *)

(* The request between two store calls. *)
LEMMA Becoming ==
  ASSUME req \in [Procs -> Request], NEW p \in Procs, NEW r, Become(p, r)
  PROVE  /\ req' = [q \in Procs |-> IF q = p THEN r ELSE req[q]]
         /\ req'[p] = r
         /\ \A q \in Procs : q # p => req'[q] = req[q]
         /\ r \in Request => req' \in [Procs -> Request]
  BY DEF Become

(* A slot without a request. *)
LEMMA IdleType ==
  /\ Idle \in Request
  /\ Idle.at = "idle" /\ Idle.kind = "none" /\ Idle.caller = 0 /\ Idle.target = 0
  BY DEF Idle, Request, Steps, Kinds, None, Roles

(* Two administrators are enough to take one away. *)
LEMMA AnotherAdmin ==
  ASSUME DbTypeOK, ~ IsLastAdmin, NEW u
  PROVE  \E a \in Admins : a # u
  <1>1. Admins \subseteq 1..MaxUsers
    BY AccountsAssumption DEF DbTypeOK, Admins
  <1>2. IsFiniteSet(Admins)
    <2>1. IsFiniteSet(1..MaxUsers)
      BY AccountsAssumption, FS_Interval
    <2> QED BY <1>1, <2>1, FS_Subset
  <1>3. SUFFICES ASSUME Admins \subseteq {u}
                 PROVE  FALSE
    OBVIOUS
  <1>4. IsFiniteSet({u}) /\ Cardinality({u}) = 1
    BY FS_Singleton
  <1>5. Cardinality(Admins) <= 1
    BY <1>3, <1>4, FS_Subset
  <1> QED BY <1>5 DEF IsLastAdmin

-----------------------------------------------------------------------------
(* Every store method keeps the tables' types and foreign key, and gives   *)
(* out ids in order.                                                       *)

Kept == DbTypeOK' /\ SessionsOwned' /\ userSeq <= userSeq'

(* Creating an account. *)
LEMMA CreateUserKeeps ==
  ASSUME DbTypeOK, SessionsOwned, NEW role \in Roles, NEW password \in Passwords,
         CreateUser(role, password)
  PROVE  Kept
  <1>1. /\ DOMAIN users' = DOMAIN users \cup {userSeq + 1}
        /\ users'[userSeq + 1] = [role |-> role, password |-> password]
        /\ \A u \in DOMAIN users : u # userSeq + 1 => users'[u] = users[u]
    BY DEF CreateUser, Put
  <1>2. /\ userSeq' = userSeq + 1 /\ userSeq < MaxUsers /\ userSeq \in Nat
        /\ UNCHANGED <<sessions, settings, sessionSeq>>
    BY AccountsAssumption DEF CreateUser, DbTypeOK
  <1>3. [role |-> role, password |-> password] \in User
    BY DEF User
  <1>4. DOMAIN users' \subseteq 1..userSeq' /\ userSeq' \in 0..MaxUsers
    BY <1>1, <1>2, AccountsAssumption DEF DbTypeOK
  <1>5. \A u \in DOMAIN users' : users'[u] \in User
    BY <1>1, <1>3 DEF DbTypeOK
  <1>6. SessionsOwned'
    BY <1>1, <1>2 DEF SessionsOwned
  <1> QED BY <1>2, <1>4, <1>5, <1>6 DEF Kept, DbTypeOK

(* Changing a role. *)
LEMMA UpdateUserRoleKeeps ==
  ASSUME DbTypeOK, SessionsOwned, NEW u, NEW role \in Roles, UpdateUserRole(u, role)
  PROVE  Kept
  <1>1. CASE u \notin DOMAIN users
    BY <1>1, AccountsAssumption DEF DbTypeOK, SessionsOwned, UpdateUserRole, Kept, db
  <1>2. CASE u \in DOMAIN users
    <2> DEFINE row == [role |-> role, password |-> users[u].password]
    <2>1. /\ users' = Put(users, u, row)
          /\ UNCHANGED <<sessions, settings, userSeq, sessionSeq>>
      BY <1>2 DEF UpdateUserRole
    <2>2. row \in User
      BY <1>2 DEF DbTypeOK, User
    <2> HIDE DEF row
    <2>3. /\ DOMAIN users' = DOMAIN users
          /\ \A v \in DOMAIN users : users'[v] = IF v = u THEN row ELSE users[v]
      BY <1>2, <2>1 DEF Put
    <2>4. \A v \in DOMAIN users : users'[v] \in User
      BY <2>2, <2>3 DEF DbTypeOK
    <2> QED BY <2>1, <2>3, <2>4, AccountsAssumption DEF DbTypeOK, SessionsOwned, Kept
  <1> QED BY <1>1, <1>2

(* Changing a password and dropping the user's sessions. *)
LEMMA UpdateUserPasswordKeeps ==
  ASSUME DbTypeOK, SessionsOwned, NEW u, NEW password \in Passwords,
         UpdateUserPassword(u, password)
  PROVE  Kept
  <1>1. CASE u \notin DOMAIN users
    BY <1>1, AccountsAssumption DEF DbTypeOK, SessionsOwned, UpdateUserPassword, Kept, db
  <1>2. CASE u \in DOMAIN users
    <2> DEFINE row == [role |-> users[u].role, password |-> password]
    <2>1. /\ users' = Put(users, u, row)
          /\ sessions' = Drop(sessions, SessionsOf(u))
          /\ UNCHANGED <<settings, userSeq, sessionSeq>>
      BY <1>2 DEF UpdateUserPassword
    <2>2. row \in User
      BY <1>2 DEF DbTypeOK, User
    <2> HIDE DEF row
    <2>3. /\ DOMAIN users' = DOMAIN users
          /\ \A v \in DOMAIN users : users'[v] = IF v = u THEN row ELSE users[v]
      BY <1>2, <2>1 DEF Put
    <2>4. \A v \in DOMAIN users : users'[v] \in User
      BY <2>2, <2>3 DEF DbTypeOK
    <2>5. /\ DOMAIN sessions' = DOMAIN sessions \ SessionsOf(u)
          /\ \A t \in DOMAIN sessions' : sessions'[t] = sessions[t]
      BY <2>1 DEF Drop
    <2> QED BY <2>1, <2>3, <2>4, <2>5, AccountsAssumption DEF Kept, DbTypeOK, SessionsOwned
  <1> QED BY <1>1, <1>2

(* Deleting an account and its sessions. *)
LEMMA DeleteUserKeeps ==
  ASSUME DbTypeOK, SessionsOwned, NEW u, DeleteUser(u)
  PROVE  Kept
  <1>1. /\ DOMAIN users' = DOMAIN users \ {u}
        /\ \A v \in DOMAIN users' : users'[v] = users[v]
        /\ DOMAIN sessions' = DOMAIN sessions \ SessionsOf(u)
        /\ \A t \in DOMAIN sessions' : sessions'[t] = sessions[t]
        /\ UNCHANGED <<settings, userSeq, sessionSeq>>
    BY DEF DeleteUser, Drop
  <1>2. SessionsOwned'
    BY <1>1 DEF SessionsOwned, SessionsOf
  <1> QED BY <1>1, <1>2, AccountsAssumption DEF Kept, DbTypeOK

(* Opening a session. *)
LEMMA CreateSessionKeeps ==
  ASSUME DbTypeOK, SessionsOwned, NEW u, NEW password \in Passwords,
         CreateSession(u, password)
  PROVE  Kept
  <1>1. CASE ~ (u \in DOMAIN users /\ sessionSeq < MaxSessions)
    BY <1>1, AccountsAssumption DEF DbTypeOK, SessionsOwned, CreateSession, Kept, db
  <1>2. CASE u \in DOMAIN users /\ sessionSeq < MaxSessions
    <2> DEFINE s == [user |-> u, password |-> password, live |-> TRUE]
    <2>1. /\ DOMAIN sessions' = DOMAIN sessions \cup {sessionSeq + 1}
          /\ sessions'[sessionSeq + 1] = s
          /\ \A t \in DOMAIN sessions : t # sessionSeq + 1 => sessions'[t] = sessions[t]
      BY <1>2 DEF CreateSession, Put
    <2>2. /\ sessionSeq' = sessionSeq + 1 /\ sessionSeq \in Nat /\ userSeq \in Nat
          /\ UNCHANGED <<users, settings, userSeq>>
      BY <1>2, AccountsAssumption DEF CreateSession, DbTypeOK
    <2>3. s \in Session
      BY <1>2, AccountsAssumption DEF Session, UserIds, DbTypeOK
    <2>4. DOMAIN sessions' \subseteq 1..sessionSeq' /\ sessionSeq' \in 0..MaxSessions
      BY <1>2, <2>1, <2>2, AccountsAssumption DEF DbTypeOK
    <2>5. \A t \in DOMAIN sessions' : sessions'[t] \in Session
      BY <2>1, <2>3 DEF DbTypeOK
    <2>6. SessionsOwned'
      BY <1>2, <2>1, <2>2 DEF SessionsOwned
    <2> QED BY <2>2, <2>4, <2>5, <2>6 DEF Kept, DbTypeOK
  <1> QED BY <1>1, <1>2

(* Dropping any sessions. *)
LEMMA DropSessionsKeeps ==
  ASSUME DbTypeOK, SessionsOwned, NEW S, sessions' = Drop(sessions, S),
         UNCHANGED <<users, settings, userSeq, sessionSeq>>
  PROVE  Kept
  <1>1. /\ DOMAIN sessions' = DOMAIN sessions \ S
        /\ \A t \in DOMAIN sessions' : sessions'[t] = sessions[t]
    BY DEF Drop
  <1> QED BY <1>1, AccountsAssumption DEF Kept, DbTypeOK, SessionsOwned

(* Writing a setting. *)
LEMMA SetSettingKeeps ==
  ASSUME DbTypeOK, SessionsOwned, NEW key \in Keys, SetSetting(key)
  PROVE  Kept
  BY AccountsAssumption DEF DbTypeOK, SessionsOwned, SetSetting, Kept

(* Changing nothing. *)
LEMMA StutterKeeps ==
  ASSUME DbTypeOK, SessionsOwned, UNCHANGED db
  PROVE  Kept
  BY AccountsAssumption DEF DbTypeOK, SessionsOwned, Kept, db

-----------------------------------------------------------------------------
(* Types and foreign keys: every step moves at most one request. *)

(* A request as Inv wants it. *)
Sound(r) ==
  /\ r \in Request
  /\ r.at = "idle" => r.kind = "none"
  /\ r.at = "user" => r.kind \in DOMAIN FirstStep
  /\ r.kind = "login" => r.given \in Passwords
  /\ r.caller \in 0..userSeq
  /\ r.target \in 0..userSeq

(* Inv is the soundness of the tables and of every request. *)
LEMMA InvParts ==
  /\ Inv <=> DbTypeOK /\ SessionsOwned /\ req \in [Procs -> Request]
             /\ \A p \in Procs : Sound(req[p])
  /\ Inv => userSeq \in Nat
  BY AccountsAssumption DEF Inv, TypeOK, DbTypeOK, Locals, Sound

(* One request moves, the tables keep their types: that is a step. *)
LEMMA MoveKeepsInv ==
  ASSUME Inv, Kept, NEW p \in Procs, NEW r, Become(p, r), Sound(r)'
  PROVE  Inv'
  <1>1. req \in [Procs -> Request] /\ \A q \in Procs : Sound(req[q])
    BY InvParts
  <1>2. r \in Request
    BY DEF Sound
  <1>3. req' \in [Procs -> Request] /\ req'[p] = r /\ \A q \in Procs : q # p => req'[q] = req[q]
    BY <1>1, <1>2 DEF Become
  <1>4. userSeq \in Nat /\ userSeq' \in Nat /\ userSeq <= userSeq'
    BY AccountsAssumption, InvParts DEF Kept, DbTypeOK
  <1>5. \A q \in Procs : Sound(req[q])'
    <2> SUFFICES ASSUME NEW q \in Procs
                 PROVE  Sound(req[q])'
      OBVIOUS
    <2>1. CASE q = p
      BY <1>3, <2>1 DEF Sound
    <2>2. CASE q # p
      BY <1>1, <1>3, <1>4, <2>2 DEF Sound
    <2> QED BY <2>1, <2>2
  <1> QED BY <1>3, <1>5, AccountsAssumption DEF Inv, Kept, TypeOK, DbTypeOK, Locals, Sound

(* What stays when a request goes on to its next step. *)
LEMMA GoesOn ==
  ASSUME req \in [Procs -> Request], NEW p \in Procs, NEW step \in Steps,
         Goto(p, step)
  PROVE  \E r \in Request :
           /\ Become(p, r) /\ r.at = step /\ r.kind = req[p].kind
           /\ r.caller = req[p].caller /\ r.target = req[p].target
           /\ r.role = req[p].role /\ r.given = req[p].given
  <1> DEFINE r == [req[p] EXCEPT !.at = step]
  <1>0. req[p] \in Request
    OBVIOUS
  <1>1. r \in Request
    BY <1>0 DEF Request, Steps
  <1>2. /\ r.at = step /\ r.kind = req[p].kind
        /\ r.caller = req[p].caller /\ r.target = req[p].target
        /\ r.role = req[p].role /\ r.given = req[p].given
    BY <1>0 DEF Request
  <1>3. Become(p, r)
    BY <1>0 DEF Become, Goto
  <1> QED BY <1>1, <1>2, <1>3

(* When setup ticks off a setting. *)
LEMMA TicksOff ==
  ASSUME req \in [Procs -> Request], NEW p \in Procs, NEW key,
         Become(p, [req[p] EXCEPT !.keys = @ \ {key}])
  PROVE  \E r \in Request :
           /\ Become(p, r) /\ r.at = req[p].at /\ r.kind = req[p].kind
           /\ r.caller = req[p].caller /\ r.target = req[p].target
           /\ r.role = req[p].role /\ r.given = req[p].given
  <1> DEFINE r == [req[p] EXCEPT !.keys = @ \ {key}]
  <1>0. req[p] \in Request
    OBVIOUS
  <1>1. r \in Request
    BY <1>0 DEF Request, Steps
  <1>2. /\ r.at = req[p].at /\ r.kind = req[p].kind
        /\ r.caller = req[p].caller /\ r.target = req[p].target
        /\ r.role = req[p].role /\ r.given = req[p].given
    BY <1>0 DEF Request
  <1>3. Become(p, r)
    BY <1>0 DEF Become
  <1> QED BY <1>1, <1>2, <1>3

(* The request once it has read its target. *)
Targeted(r, step, u, role) == [r EXCEPT !.at = step, !.target = u, !.role = role]

(* What stays when the target was read. *)
LEMMA Targets ==
  ASSUME req \in [Procs -> Request], NEW p \in Procs, NEW step \in Steps, NEW u \in UserIds, NEW role \in Roles,
         Become(p, Targeted(req[p], step, u, role))
  PROVE  \E r \in Request :
           /\ Become(p, r) /\ r.at = step /\ r.kind = req[p].kind
           /\ r.caller = req[p].caller /\ r.target = u
           /\ r.role = role /\ r.given = req[p].given
  <1> DEFINE r == [req[p] EXCEPT !.at = step, !.target = u, !.role = role]
  <1>0. req[p] \in Request
    OBVIOUS
  <1>1. r \in Request
    BY <1>0 DEF Request, Steps
  <1>2. /\ r.at = step /\ r.kind = req[p].kind
        /\ r.caller = req[p].caller /\ r.target = u
        /\ r.role = role /\ r.given = req[p].given
    BY <1>0 DEF Request
  <1>3. Become(p, r)
    BY <1>0 DEF Become, Targeted
  <1> QED BY <1>1, <1>2, <1>3

(* A request that ends leaves nothing behind. *)
LEMMA EndIsSound ==
  ASSUME Inv, Kept, NEW p \in Procs, End(p)
  PROVE  Inv'
  <1>1. Become(p, Idle)
    BY DEF End, Become
  <1>2. userSeq' \in Nat
    BY AccountsAssumption DEF Kept, DbTypeOK
  <1>3. Sound(Idle)'
    BY <1>2, IdleType DEF Sound
  <1> QED BY <1>1, <1>3, MoveKeepsInv

(* A request that only goes on to its next step keeps what it holds. *)
LEMMA GotoIsSound ==
  ASSUME Inv, Kept, NEW p \in Procs, NEW step \in Steps \ {"idle", "user"}, Goto(p, step)
  PROVE  Inv'
  <1>1. req \in [Procs -> Request] /\ Sound(req[p])
    BY InvParts
  <1>2. PICK r \in Request : /\ Become(p, r) /\ r.at = step /\ r.kind = req[p].kind
                             /\ r.caller = req[p].caller /\ r.target = req[p].target
                             /\ r.given = req[p].given
    BY <1>1, GoesOn
  <1>3. userSeq \in Nat /\ userSeq' \in Nat /\ userSeq <= userSeq'
    BY AccountsAssumption, InvParts DEF Kept, DbTypeOK
  <1>4. Sound(r)'
    BY <1>1, <1>2, <1>3 DEF Sound
  <1> QED BY <1>2, <1>4, MoveKeepsInv

(* A request begins, goes on, and ends with a store call or without one.   *)
LEMMA StepKeepsInv ==
  ASSUME Inv, NEW p \in Procs, Step(p)
  PROVE  Inv'
  <1>0. DbTypeOK /\ SessionsOwned /\ req \in [Procs -> Request] /\ Sound(req[p])
        /\ userSeq \in Nat
    BY InvParts
  <1>1. ASSUME UNCHANGED db
        PROVE  Kept
    BY <1>0, <1>1, StutterKeeps
  <1>2. ASSUME NEW key \in Keys, SetupSetting(p, key)
        PROVE  Inv'
    <2>1. Kept
      BY <1>0, <1>2, SetSettingKeeps DEF SetupSetting
    <2>2. CASE End(p)
      BY <2>1, <2>2, EndIsSound
    <2>3. CASE Become(p, [req[p] EXCEPT !.keys = @ \ {key}])
      <3>1. PICK r \in Request : /\ Become(p, r) /\ r.at = req[p].at /\ r.kind = req[p].kind
                                 /\ r.caller = req[p].caller /\ r.target = req[p].target
                                 /\ r.given = req[p].given
        BY <1>0, <2>3, TicksOff
      <3>2. userSeq' = userSeq
        BY <1>2 DEF SetupSetting, SetSetting
      <3>3. Sound(r)'
        BY <1>0, <3>1, <3>2 DEF Sound
      <3> QED BY <2>1, <3>1, <3>3, MoveKeepsInv
    <2> QED BY <1>2, <2>2, <2>3 DEF SetupSetting
  <1>3. ASSUME NEW password \in Passwords, SetupCreate(p, password)
        PROVE  Inv'
    <2>1. Kept
      BY <1>0, <1>1, <1>3, CreateUserKeeps DEF SetupCreate, Roles
    <2> QED BY <1>3, <2>1, EndIsSound, GotoIsSound DEF SetupCreate, Steps
  <1>4. ASSUME NEW password \in Passwords, OwnVerify(p, password)
        PROVE  Inv'
    <2>1. Kept
      BY <1>1, <1>4 DEF OwnVerify
    <2> QED BY <1>4, <2>1, EndIsSound, GotoIsSound DEF OwnVerify, Steps
  <1>5. ASSUME NEW password \in Passwords, OwnWrite(p, password) \/ ResetWrite(p, password)
        PROVE  Inv'
    <2>1. Kept
      BY <1>0, <1>5, UpdateUserPasswordKeeps DEF OwnWrite, ResetWrite
    <2> QED BY <1>5, <2>1, EndIsSound DEF OwnWrite, ResetWrite
  <1>6. ASSUME NEW role \in Roles, NEW password \in Passwords, CreateWrite(p, role, password)
        PROVE  Inv'
    <2>1. Kept
      BY <1>0, <1>1, <1>6, CreateUserKeeps DEF CreateWrite
    <2> QED BY <1>6, <2>1, EndIsSound DEF CreateWrite
  <1>7. ASSUME NEW u \in UserIds, NEW role \in Roles, ReadTarget(p, u, role)
        PROVE  Inv'
    <2>1. Kept
      BY <1>1, <1>7 DEF ReadTarget
    <2>2. CASE End(p)
      BY <2>1, <2>2, EndIsSound
    <2>3. CASE ~ End(p)
      <3>1. PICK step \in {"count", "write"}, newrole \in Roles :
              /\ u \in DOMAIN users
              /\ Become(p, Targeted(req[p], step, u, newrole))
        <4>1. req[p].role \in Roles
          BY <1>0 DEF Request
        <4> QED BY <1>7, <2>3, <4>1 DEF ReadTarget, Targeted
      <3>2. PICK r \in Request : /\ Become(p, r) /\ r.at = step /\ r.kind = req[p].kind
                                 /\ r.caller = req[p].caller /\ r.target = u
                                 /\ r.given = req[p].given
        <4>1. step \in Steps
          BY DEF Steps
        <4> QED BY <1>0, <3>1, <4>1, Targets
      <3>3. userSeq' = userSeq
        BY <1>7 DEF ReadTarget, db
      <3>4. u \in 0..userSeq
        BY <1>0, <3>1 DEF DbTypeOK
      <3>5. Sound(r)'
        BY <1>0, <3>2, <3>3, <3>4 DEF Sound
      <3> QED BY <2>1, <3>2, <3>5, MoveKeepsInv
    <2> QED BY <2>2, <2>3
  <1>8. CASE LoginCreate(p)
    <2>1. Kept
      BY <1>0, <1>8, CreateSessionKeeps DEF LoginCreate, At, Sound
    <2> QED BY <1>8, <2>1, EndIsSound DEF LoginCreate
  <1>9. CASE RequireUser(p)
    <2>1. Kept
      BY <1>1, <1>9 DEF RequireUser
    <2>2. CASE End(p)
      BY <2>1, <2>2, EndIsSound
    <2>3. CASE ~ End(p)
      <3>1. PICK step \in {"write", "check", "target"} : Goto(p, step)
        <4>1. req[p].kind \in DOMAIN FirstStep => FirstStep[req[p].kind] \in {"write", "check", "target"}
          BY DEF FirstStep
        <4>2. req[p].kind \in DOMAIN FirstStep
          BY <1>0, <1>9 DEF RequireUser, Sound
        <4> QED BY <1>9, <2>3, <4>1, <4>2 DEF RequireUser
      <3> QED BY <2>1, <3>1, GotoIsSound DEF Steps
    <2> QED BY <2>2, <2>3
  <1>10. CASE Logout(p)
    <2>1. Kept
      BY <1>0, <1>10, DropSessionsKeeps DEF Logout, DeleteSession
    <2> QED BY <1>10, <2>1, EndIsSound DEF Logout
  <1>11. CASE CreateCheck(p)
    <2>1. Kept
      BY <1>1, <1>11 DEF CreateCheck
    <2> QED BY <1>11, <2>1, EndIsSound, GotoIsSound DEF CreateCheck, Steps
  <1>12. CASE CountAdmins(p)
    <2>1. Kept
      BY <1>1, <1>12 DEF CountAdmins
    <2> QED BY <1>12, <2>1, EndIsSound, GotoIsSound DEF CountAdmins, Steps
  <1>13. CASE UpdateRoleWrite(p)
    <2>1. Kept
      BY <1>0, <1>13, UpdateUserRoleKeeps DEF UpdateRoleWrite, Request
    <2> QED BY <1>13, <2>1, EndIsSound DEF UpdateRoleWrite
  <1>14. CASE DeleteWrite(p)
    <2>1. Kept
      BY <1>0, <1>14, DeleteUserKeeps DEF DeleteWrite
    <2> QED BY <1>14, <2>1, EndIsSound DEF DeleteWrite
  <1> QED BY <1>2, <1>3, <1>4, <1>5, <1>6, <1>7, <1>8, <1>9, <1>10, <1>11, <1>12, <1>13,
             <1>14 DEF Step

(* A handler whose store call fails ends there. *)
LEMMA StoreFailsKeepsInv ==
  ASSUME Inv, NEW p \in Procs, StoreFails(p)
  PROVE  Inv'
  <1>1. Kept
    BY InvParts, StutterKeeps DEF StoreFails
  <1> QED BY <1>1, EndIsSound DEF StoreFails

(* A request arrives in a free slot. *)
LEMMA ArriveKeepsInv ==
  ASSUME Inv, NEW p \in Procs, Arrive(p)
  PROVE  /\ Inv' /\ UNCHANGED db
         /\ \E r \in Request :
              /\ Become(p, r) /\ Begin(p, r)
              /\ r.kind = "setup" \/ r.kind = "login" \/ r.kind \in DOMAIN FirstStep
              /\ r.kind # "setup" => DOMAIN users # {}
              /\ r.kind # "login" /\ r.kind # "setup" => r.at = "user"
              /\ r.kind = "setup" => r.at = "write"
              /\ r.kind = "login" => r.target \in DOMAIN users /\ r.given = users[r.target].password
  <1>0. DbTypeOK /\ SessionsOwned /\ req \in [Procs -> Request] /\ userSeq \in Nat
    BY InvParts
  <1>1. UNCHANGED db
    BY DEF Arrive, BeginSetup, BeginLogin, BeginAuthorised
  <1>2. Kept /\ userSeq' = userSeq
    BY <1>0, <1>1, StutterKeeps DEF db
  <1>3. SUFFICES \E r \in Request :
              /\ Begin(p, r) /\ Sound(r)
              /\ r.kind = "setup" \/ r.kind = "login" \/ r.kind \in DOMAIN FirstStep
              /\ r.kind # "setup" => DOMAIN users # {}
              /\ r.kind # "login" /\ r.kind # "setup" => r.at = "user"
              /\ r.kind = "setup" => r.at = "write"
              /\ r.kind = "login" => r.target \in DOMAIN users /\ r.given = users[r.target].password
    <2>1. ASSUME NEW r \in Request, Begin(p, r), Sound(r)
          PROVE  Become(p, r) /\ Inv'
      <3>1. Become(p, r)
        BY <2>1 DEF Begin, Become
      <3>2. Sound(r)'
        BY <1>2, <2>1 DEF Sound
      <3> QED BY <1>2, <3>1, <3>2, MoveKeepsInv
    <2> QED BY <1>1, <1>3, <2>1
  <1>4. CASE BeginSetup(p)
    <2> DEFINE r == [Idle EXCEPT !.kind = "setup", !.at = "write", !.keys = Keys]
    <2>1. r \in Request /\ r.at = "write" /\ r.kind = "setup" /\ r.caller = 0 /\ r.target = 0
      BY DEF Idle, Request, Steps, Kinds, None, Roles
    <2>2. Begin(p, r)
      BY <1>4 DEF BeginSetup
    <2> HIDE DEF r
    <2> QED BY <1>0, <2>1, <2>2 DEF Sound
  <1>5. ASSUME NEW u \in UserIds, BeginLogin(p, u)
        PROVE  \E r \in Request :
              /\ Begin(p, r) /\ Sound(r)
              /\ r.kind = "setup" \/ r.kind = "login" \/ r.kind \in DOMAIN FirstStep
              /\ r.kind # "setup" => DOMAIN users # {}
              /\ r.kind # "login" /\ r.kind # "setup" => r.at = "user"
              /\ r.kind = "setup" => r.at = "write"
              /\ r.kind = "login" => r.target \in DOMAIN users /\ r.given = users[r.target].password
    <2>1. PICK password \in Passwords : password = users[u].password
      BY <1>0, <1>5 DEF BeginLogin, DbTypeOK, User
    <2> DEFINE r == [Idle EXCEPT !.kind = "login", !.at = "write", !.target = u,
                                 !.given = password]
    <2>2. r \in Request /\ r.at = "write" /\ r.kind = "login" /\ r.caller = 0 /\ r.target = u
          /\ r.given = password
      BY DEF Idle, Request, Steps, Kinds, None, Roles
    <2>3. Begin(p, r) /\ u \in DOMAIN users
      BY <1>5, <2>1 DEF BeginLogin
    <2>4. u \in 0..userSeq
      BY <1>0, <2>3 DEF DbTypeOK
    <2> HIDE DEF r
    <2> QED BY <1>0, <2>1, <2>2, <2>3, <2>4 DEF Sound
  <1>6. ASSUME NEW t \in Tokens, NEW kind \in DOMAIN FirstStep, BeginAuthorised(p, t, kind)
        PROVE  \E r \in Request :
              /\ Begin(p, r) /\ Sound(r)
              /\ r.kind = "setup" \/ r.kind = "login" \/ r.kind \in DOMAIN FirstStep
              /\ r.kind # "setup" => DOMAIN users # {}
              /\ r.kind # "login" /\ r.kind # "setup" => r.at = "user"
              /\ r.kind = "setup" => r.at = "write"
              /\ r.kind = "login" => r.target \in DOMAIN users /\ r.given = users[r.target].password
    <2>1. t \in DOMAIN sessions /\ sessions[t].user \in DOMAIN users
      BY <1>0, <1>6 DEF BeginAuthorised, SessionsOwned
    <2>2. PICK c \in UserIds : c = sessions[t].user
      BY <1>0, <2>1 DEF DbTypeOK, Session
    <2>3. PICK token \in Tokens \cup {None} : token = IF kind = "logout" THEN t ELSE None
      OBVIOUS
    <2> DEFINE r == [Idle EXCEPT !.kind = kind, !.at = "user", !.caller = c, !.token = token]
    <2>4. r \in Request /\ r.at = "user" /\ r.kind = kind /\ r.caller = c /\ r.target = 0
      <3>1. kind \in Kinds /\ kind # "login" /\ kind # "setup"
        BY DEF FirstStep, Kinds
      <3> QED BY <3>1 DEF Idle, Request, Steps, None, Roles
    <2>5. Begin(p, r)
      BY <1>6, <2>2, <2>3 DEF BeginAuthorised
    <2>6. c \in 0..userSeq
      BY <1>0, <2>1, <2>2 DEF DbTypeOK
    <2>7. kind # "login" /\ kind # "setup"
      BY DEF FirstStep
    <2> HIDE DEF r
    <2> QED BY <1>0, <2>1, <2>4, <2>5, <2>6, <2>7 DEF Sound
  <1> QED BY <1>4, <1>5, <1>6 DEF Arrive

(* Every step keeps types, foreign keys, and what locals say of the tables. *)
LEMMA NextKeepsInv ==
  ASSUME Inv, [Next]_vars
  PROVE  Inv'
  <1>0. DbTypeOK /\ SessionsOwned /\ req \in [Procs -> Request] /\ \A p \in Procs : Sound(req[p])
    BY InvParts
  <1>1. ASSUME NEW p \in Procs, Arrive(p) \/ Step(p) \/ StoreFails(p)
        PROVE  Inv'
    BY <1>1, ArriveKeepsInv, StepKeepsInv, StoreFailsKeepsInv
  <1>2. ASSUME Kept, userSeq' = userSeq, UNCHANGED req
        PROVE  Inv'
    BY <1>0, <1>2 DEF Kept, Inv, TypeOK, DbTypeOK, Locals, Sound
  <1>3. ASSUME NEW t \in Tokens, Expire(t)
        PROVE  Inv'
    <2> DEFINE s == [user |-> sessions[t].user, password |-> sessions[t].password, live |-> FALSE]
    <2>1. t \in DOMAIN sessions /\ sessions' = Put(sessions, t, s)
          /\ UNCHANGED <<users, settings, userSeq, sessionSeq, req>>
      BY <1>3 DEF Expire
    <2>2. s \in Session /\ s.user = sessions[t].user
      BY <1>0, <2>1 DEF DbTypeOK, Session
    <2> HIDE DEF s
    <2>3. /\ DOMAIN sessions' = DOMAIN sessions
          /\ \A k \in DOMAIN sessions : sessions'[k] = IF k = t THEN s ELSE sessions[k]
      BY <2>1 DEF Put
    <2>4. DbTypeOK' /\ SessionsOwned'
      BY <1>0, <2>1, <2>2, <2>3 DEF DbTypeOK, SessionsOwned
    <2>5. Kept
      BY <1>0, <2>1, <2>4, AccountsAssumption DEF Kept, DbTypeOK
    <2> QED BY <1>2, <2>1, <2>5
  <1>4. CASE Housekeeping
    BY <1>0, <1>2, <1>4, DropSessionsKeeps DEF Housekeeping
  <1>5. CASE Restart
    <2>1. Kept /\ userSeq' = userSeq /\ req' = [p \in Procs |-> Idle]
      BY <1>0, <1>5, StutterKeeps DEF Restart, db
    <2>2. userSeq' \in Nat
      BY <2>1, InvParts
    <2>3. \A p \in Procs : req'[p] = Idle
      BY <2>1
    <2>4. Sound(Idle)'
      BY <2>2, IdleType DEF Sound
    <2>5. req' \in [Procs -> Request]
      BY <2>1, IdleType
    <2> QED BY <2>1, <2>3, <2>4, <2>5 DEF Kept, Inv, TypeOK, DbTypeOK, Locals, Sound
  <1>6. CASE UNCHANGED vars
    <2>1. Kept /\ userSeq' = userSeq /\ UNCHANGED req
      BY <1>0, <1>6, StutterKeeps DEF vars, db
    <2> QED BY <1>2, <2>1
  <1> QED BY <1>1, <1>3, <1>4, <1>5, <1>6 DEF Next

(* A fresh database. *)
LEMMA InitInv ==
  ASSUME Init
  PROVE  Inv
  <1>1. DOMAIN users = {} /\ DOMAIN sessions = {}
    BY DEF Init, Empty
  <1> QED BY <1>1, IdleType, AccountsAssumption DEF Init, Inv, TypeOK, SessionsOwned, Locals

(* Types, foreign keys, and what the locals of requests say, hold however  *)
(* requests overlap.                                                       *)
THEOREM AccountsInductive == Spec => []Inv
  <1>1. Init => Inv
    BY InitInv
  <1>2. Inv /\ [Next]_vars => Inv'
    BY NextKeepsInv
  <1> QED BY <1>1, <1>2, PTL DEF Spec

(* Rows and requests keep their types. *)
THEOREM AccountsTypeCorrect == Spec => []TypeOK
  <1>1. Inv => TypeOK
    BY DEF Inv
  <1> QED BY <1>1, AccountsInductive, PTL

(* No session outlives its account or is opened for one that is gone. *)
THEOREM SessionsAlwaysOwned == Spec => []SessionsOwned
  <1>1. Inv => SessionsOwned
    BY DEF Inv
  <1> QED BY <1>1, AccountsInductive, PTL

-----------------------------------------------------------------------------
(* What a step does to passwords, roles and administrators *)

PasswordsKept ==
  \A u \in DOMAIN users' :
    u \in 1..userSeq => u \in DOMAIN users /\ users'[u].password = users[u].password

RolesKept ==
  \A u \in DOMAIN users' :
    u \in 1..userSeq => u \in DOMAIN users /\ users'[u].role = users[u].role

AdminsStay == Admins \subseteq Admins'

(* Only a change of password changes passwords, only a change of role      *)
(* changes roles, and only that or a deletion takes an administrator away. *)
LEMMA Effects ==
  ASSUME Inv, NEW p \in Procs, Step(p)
  PROVE  /\ req[p].kind \notin {"own", "reset"} => PasswordsKept
         /\ req[p].kind # "role" => RolesKept
         /\ req[p].kind \notin {"role", "delete"} => AdminsStay
  <1>0. DbTypeOK /\ userSeq \in Nat
    BY InvParts
  <1>1. ASSUME users' = users
        PROVE  PasswordsKept /\ RolesKept /\ AdminsStay
    BY <1>0, <1>1 DEF PasswordsKept, RolesKept, AdminsStay, Admins
  <1>2. ASSUME NEW role, NEW password, CreateUser(role, password)
        PROVE  PasswordsKept /\ RolesKept /\ AdminsStay
    <2>1. /\ DOMAIN users' = DOMAIN users \cup {userSeq + 1}
          /\ \A u \in DOMAIN users : u # userSeq + 1 => users'[u] = users[u]
      BY <1>2 DEF CreateUser, Put
    <2>2. \A u \in DOMAIN users : u # userSeq + 1
      BY <1>0 DEF DbTypeOK
    <2>3. userSeq + 1 \notin 1..userSeq
      BY <1>0
    <2> QED BY <2>1, <2>2, <2>3 DEF PasswordsKept, RolesKept, AdminsStay, Admins
  <1>3. ASSUME NEW u, NEW role, UpdateUserRole(u, role)
        PROVE  PasswordsKept
    <2>1. CASE u \in DOMAIN users
      <3>1. users' = Put(users, u, [role |-> role, password |-> users[u].password])
        BY <1>3, <2>1 DEF UpdateUserRole
      <3>2. /\ DOMAIN users' = DOMAIN users
            /\ \A v \in DOMAIN users : users'[v].password = users[v].password
        BY <2>1, <3>1 DEF Put
      <3> QED BY <3>2 DEF PasswordsKept
    <2>2. CASE u \notin DOMAIN users
      BY <1>1, <1>3, <2>2 DEF UpdateUserRole, db
    <2> QED BY <2>1, <2>2
  <1>4. ASSUME NEW u, NEW password, UpdateUserPassword(u, password)
        PROVE  RolesKept /\ AdminsStay
    <2>1. CASE u \in DOMAIN users
      <3>1. users' = Put(users, u, [role |-> users[u].role, password |-> password])
        BY <1>4, <2>1 DEF UpdateUserPassword
      <3>2. /\ DOMAIN users' = DOMAIN users
            /\ \A v \in DOMAIN users : users'[v].role = users[v].role
        BY <2>1, <3>1 DEF Put
      <3> QED BY <3>2 DEF RolesKept, AdminsStay, Admins
    <2>2. CASE u \notin DOMAIN users
      BY <1>1, <1>4, <2>2 DEF UpdateUserPassword, db
    <2> QED BY <2>1, <2>2
  <1>5. ASSUME NEW u, DeleteUser(u)
        PROVE  PasswordsKept /\ RolesKept
    <2>1. /\ DOMAIN users' = DOMAIN users \ {u}
          /\ \A v \in DOMAIN users' : users'[v] = users[v]
      BY <1>5 DEF DeleteUser, Drop
    <2> QED BY <2>1 DEF PasswordsKept, RolesKept
  <1>6. CASE users' = users
    BY <1>1, <1>6
  <1>7. CASE req[p].kind \in {"setup", "create"} /\ \E role \in Roles, password \in Passwords :
                                                      CreateUser(role, password)
    BY <1>2, <1>7
  <1>8. CASE UpdateRoleWrite(p)
    BY <1>3, <1>8 DEF UpdateRoleWrite, At
  <1>9. CASE \E password \in Passwords : OwnWrite(p, password) \/ ResetWrite(p, password)
    BY <1>4, <1>9 DEF OwnWrite, ResetWrite, At
  <1>10. CASE DeleteWrite(p)
    BY <1>5, <1>10 DEF DeleteWrite, At
  <1>11. \/ users' = users
         \/ UpdateRoleWrite(p) \/ DeleteWrite(p)
         \/ \E password \in Passwords : OwnWrite(p, password) \/ ResetWrite(p, password)
         \/ req[p].kind \in {"setup", "create"} /\ \E role \in Roles, password \in Passwords :
                                                     CreateUser(role, password)
    <2>1. ASSUME NEW password \in Passwords, SetupCreate(p, password)
          PROVE  users' = users \/ (req[p].kind = "setup" /\ \E role \in Roles : CreateUser(role, password))
      BY <2>1 DEF SetupCreate, At, Roles, db
    <2>2. ASSUME NEW role \in Roles, NEW password \in Passwords, CreateWrite(p, role, password)
          PROVE  users' = users \/ (req[p].kind = "create" /\ CreateUser(role, password))
      BY <2>2 DEF CreateWrite, At, db
    <2>3. ASSUME NEW key \in Keys, SetupSetting(p, key)
          PROVE  users' = users
      BY <2>3 DEF SetupSetting, SetSetting
    <2>4. ASSUME NEW password \in Passwords, OwnVerify(p, password)
          PROVE  users' = users
      BY <2>4 DEF OwnVerify, db
    <2>5. ASSUME NEW u \in UserIds, NEW role \in Roles, ReadTarget(p, u, role)
          PROVE  users' = users
      BY <2>5 DEF ReadTarget, db
    <2>6. CASE RequireUser(p) \/ CreateCheck(p) \/ CountAdmins(p)
      BY <2>6 DEF RequireUser, CreateCheck, CountAdmins, db
    <2>7. CASE Logout(p)
      BY <2>7 DEF Logout, DeleteSession
    <2>8. CASE LoginCreate(p)
      BY <2>8 DEF LoginCreate, CreateSession, db
    <2> QED BY <2>1, <2>2, <2>3, <2>4, <2>5, <2>6, <2>7, <2>8 DEF Step
  <1> QED BY <1>6, <1>7, <1>8, <1>9, <1>10, <1>11

-----------------------------------------------------------------------------
(* Overlapping requests: an administrator remains, and passwords are       *)
(* current, but for what stale requests do.                                *)

(* With the history variables the system does what it does without them. *)
LEMMA HistoryAddsNothing == [HNext]_hvars => [Next]_vars
  BY DEF HNext, hvars, Next, vars

(* A request that does not move stays good, unless that made it stale. *)
LEMMA OthersStayGood ==
  ASSUME Inv, NEW p \in Procs, Step(p), NEW q \in Procs, ~ Outdated(q), Good(req[q])
  PROVE  Good(req[q])'
         \/ req'[q] # req[q]
  <1> SUFFICES ASSUME req'[q] = req[q]
               PROVE  Good(req[q])'
    OBVIOUS
  <1> DEFINE r == req[q]
  <1>0. /\ DbTypeOK /\ Inv' /\ userSeq \in Nat
        /\ req[q].target \in 0..userSeq
    BY InvParts, StepKeepsInv DEF Sound
  <1>1. \A u \in DOMAIN users' : u \in Nat /\ u # 0
    BY <1>0, AccountsAssumption DEF Inv, TypeOK
  <1>2. \A u \in DOMAIN users' : u \in 1..userSeq => u \in DOMAIN users
    <2>1. PasswordsKept \/ RolesKept
      BY Effects
    <2> QED BY <2>1 DEF PasswordsKept, RolesKept
  <1>3. Safe(req[q])'
    <2> SUFFICES ASSUME r.kind \in {"role", "delete"}, r.at = "write", r.target \in Admins',
                        r.kind = "role" => r.role # "admin"
                 PROVE  \E a \in Admins' : a # r.target
      BY DEF Safe
    <2>1. Admins \subseteq Admins' /\ r.target \in Admins
      BY DEF Outdated, TakesAdmins, At
    <2> QED BY <2>1 DEF Good, Safe
  <1>4. Fresh(req[q])'
    <2> SUFFICES ASSUME r.kind = "login", r.target \in DOMAIN users'
                 PROVE  r.given = users'[r.target].password
      BY DEF Fresh
    <2>1. r.target \in DOMAIN users
      <3>1. r.target \in 1..userSeq
        BY <1>0, <1>1
      <3> QED BY <1>2, <3>1
    <2> QED BY <2>1 DEF Good, Fresh, Outdated, PasswordChanges
  <1> QED BY <1>3, <1>4 DEF Good

(* What becomes of the request that moves: it keeps its kind or ends, and  *)
(* is good; setup goes on to its settings once there is an administrator.  *)
Moved(p, r) ==
  /\ Become(p, r)
  /\ r.kind = req[p].kind \/ r.kind = "none"
  /\ Good(r)'
  /\ r.kind = "setup" /\ r.at = "settings" => req[p].at = "settings" \/ Admins' # {}

LEMMA StepMoves ==
  ASSUME Inv, NEW p \in Procs, Step(p)
  PROVE  \E r \in Request : Moved(p, r)
  <1>0. req \in [Procs -> Request] /\ Sound(req[p]) /\ req[p] \in Request /\ DbTypeOK
    BY InvParts DEF Sound
  <1>1. ASSUME End(p)
        PROVE  \E r \in Request : Moved(p, r)
    <2>1. Idle \in Request /\ Idle.kind = "none" /\ Become(p, Idle)
      BY <1>1, IdleType DEF End, Become
    <2>2. Good(Idle)'
      BY IdleType DEF Good, Safe, Fresh
    <2> QED BY <2>1, <2>2 DEF Moved
  <1>2. ASSUME NEW key \in Keys, SetupSetting(p, key), ~ End(p)
        PROVE  \E r \in Request : Moved(p, r)
    <2>1. PICK r \in Request : Become(p, r) /\ r.at = req[p].at /\ r.kind = req[p].kind
      BY <1>0, <1>2, TicksOff DEF SetupSetting
    <2>2. r.kind = "setup" /\ r.at = "settings" /\ req[p].at = "settings"
      BY <1>2, <2>1 DEF SetupSetting, At
    <2> QED BY <2>1, <2>2 DEF Moved, Good, Safe, Fresh
  <1>3. ASSUME NEW password \in Passwords, SetupCreate(p, password), ~ End(p)
        PROVE  \E r \in Request : Moved(p, r)
    <2>1. CreateUser("admin", password) /\ Goto(p, "settings") /\ req[p].kind = "setup"
      BY <1>3 DEF SetupCreate, At
    <2>2. PICK r \in Request : Become(p, r) /\ r.at = "settings" /\ r.kind = req[p].kind
      BY <1>0, <2>1, GoesOn DEF Steps
    <2>3. userSeq + 1 \in Admins'
      BY <2>1 DEF CreateUser, Put, Admins
    <2> QED BY <2>1, <2>2, <2>3 DEF Moved, Good, Safe, Fresh
  <1>4. ASSUME NEW password \in Passwords, OwnVerify(p, password), ~ End(p)
        PROVE  \E r \in Request : Moved(p, r)
    <2>1. req[p].kind = "own" /\ Goto(p, "write")
      BY <1>4 DEF OwnVerify, At
    <2>2. PICK r \in Request : Become(p, r) /\ r.kind = req[p].kind
      BY <1>0, <2>1, GoesOn DEF Steps
    <2> QED BY <2>1, <2>2 DEF Moved, Good, Safe, Fresh
  <1>5. ASSUME NEW u \in UserIds, NEW role \in Roles, ReadTarget(p, u, role), ~ End(p)
        PROVE  \E r \in Request : Moved(p, r)
    <2>1. /\ UNCHANGED users /\ req[p].kind \in {"role", "reset", "delete"}
          /\ req[p].role \in Roles
      BY <1>0, <1>5 DEF ReadTarget, At, db, Request
    <2>2. PICK step \in {"count", "write"}, newrole \in Roles :
            /\ Become(p, Targeted(req[p], step, u, newrole))
            /\ req[p].kind = "role" => newrole = role
            /\ step = "write" => \/ u \notin Admins \/ req[p].kind = "reset"
                                 \/ req[p].kind = "role" /\ role = "admin"
      BY <1>5, <2>1 DEF ReadTarget, Targeted
    <2>3. step \in Steps
      BY DEF Steps
    <2>4. PICK r \in Request : /\ Become(p, r) /\ r.at = step /\ r.kind = req[p].kind
                               /\ r.target = u /\ r.role = newrole
      BY <1>0, <2>2, <2>3, Targets
    <2>5. Admins' = Admins
      BY <2>1 DEF Admins
    <2>6. Safe(r)'
      BY <2>1, <2>2, <2>4, <2>5 DEF Safe
    <2> QED BY <2>1, <2>4, <2>6 DEF Moved, Good, Fresh
  <1>6. CASE CountAdmins(p) /\ ~ End(p)
    <2>1. /\ ~ IsLastAdmin /\ Goto(p, "write") /\ UNCHANGED users
          /\ req[p].kind \in {"role", "delete"}
      BY <1>6 DEF CountAdmins, At, db
    <2>2. PICK r \in Request : Become(p, r) /\ r.at = "write" /\ r.kind = req[p].kind
      BY <1>0, <2>1, GoesOn DEF Steps
    <2>3. \E a \in Admins : a # r.target
      BY <1>0, <2>1, AnotherAdmin
    <2>4. Admins' = Admins
      BY <2>1 DEF Admins
    <2>5. Safe(r)'
      BY <2>3, <2>4 DEF Safe
    <2> QED BY <2>1, <2>2, <2>5 DEF Moved, Good, Fresh
  <1>7. CASE RequireUser(p) /\ ~ End(p)
    <2>1. req[p].kind \in DOMAIN FirstStep /\ req[p].kind # "own" /\ Goto(p, FirstStep[req[p].kind])
      BY <1>0, <1>7 DEF RequireUser, Sound
    <2>2. FirstStep[req[p].kind] \in Steps
      BY <2>1 DEF FirstStep, Steps
    <2>3. PICK r \in Request : Become(p, r) /\ r.at = FirstStep[req[p].kind] /\ r.kind = req[p].kind
      BY <1>0, <2>1, <2>2, GoesOn
    <2>4. /\ r.kind \notin {"login", "setup"}
          /\ r.kind \in {"role", "delete"} => r.at = "target"
      BY <2>1, <2>3 DEF FirstStep
    <2> QED BY <2>3, <2>4 DEF Moved, Good, Safe, Fresh
  <1>8. CASE CreateCheck(p) /\ ~ End(p)
    <2>1. req[p].kind = "create" /\ Goto(p, "write")
      BY <1>8 DEF CreateCheck, At
    <2>2. PICK r \in Request : Become(p, r) /\ r.kind = req[p].kind
      BY <1>0, <2>1, GoesOn DEF Steps
    <2> QED BY <2>1, <2>2 DEF Moved, Good, Safe, Fresh
  <1> QED BY <1>1, <1>2, <1>3, <1>4, <1>5, <1>6, <1>7, <1>8
          DEF Step, OwnWrite, ResetWrite, CreateWrite, LoginCreate, Logout, UpdateRoleWrite,
              DeleteWrite

(* The last administrator stays, but for a stale request. *)
LEMMA AdminsSurvive ==
  ASSUME Inv, NEW p \in Procs, Step(p), Safe(req[p]), Admins # {}
  PROVE  Admins' # {}
  <1>1. CASE req[p].kind \notin {"role", "delete"}
    BY <1>1, Effects DEF AdminsStay
  <1>2. CASE users' = users
    BY <1>2 DEF Admins
  <1> DEFINE r == req[p]
             u == req[p].target
  <1>3. PICK a \in Admins : \/ a # u
                            \/ u \notin Admins
                            \/ r.kind = "role" /\ r.role = "admin"
                            \/ ~ (r.kind \in {"role", "delete"} /\ r.at = "write")
    BY DEF Safe
  <1>4. CASE UpdateRoleWrite(p) /\ u \in DOMAIN users
    <2>1. /\ users' = Put(users, u, [role |-> r.role, password |-> users[u].password])
          /\ r.kind = "role" /\ r.at = "write"
      BY <1>4 DEF UpdateRoleWrite, UpdateUserRole, At
    <2>2. /\ DOMAIN users' = DOMAIN users
          /\ \A v \in DOMAIN users : users'[v].role = IF v = u THEN r.role ELSE users[v].role
      BY <1>4, <2>1 DEF Put
    <2>3. a \in DOMAIN users /\ users[a].role = "admin"
      BY DEF Admins
    <2>4. users'[a].role = "admin"
      BY <1>3, <2>1, <2>2, <2>3 DEF Admins
    <2> QED BY <2>2, <2>3, <2>4 DEF Admins
  <1>5. CASE DeleteWrite(p)
    <2>1. /\ users' = Drop(users, {u})
          /\ r.kind = "delete" /\ r.at = "write"
      BY <1>5 DEF DeleteWrite, DeleteUser, At
    <2>2. /\ DOMAIN users' = DOMAIN users \ {u}
          /\ \A v \in DOMAIN users' : users'[v] = users[v]
      BY <2>1 DEF Drop
    <2>3. CASE a # u
      BY <2>2, <2>3 DEF Admins
    <2>4. CASE u \notin Admins
      BY <2>2, <2>4 DEF Admins
    <2> QED BY <1>3, <2>1, <2>3, <2>4
  <1>6. CASE r.kind \in {"role", "delete"} /\ users' # users /\ ~ DeleteWrite(p)
    <2>1. UpdateRoleWrite(p)
      BY <1>6 DEF Step, At, SetupSetting, SetupCreate, OwnVerify, OwnWrite, ResetWrite,
                  CreateWrite, ReadTarget, LoginCreate, RequireUser, Logout, CreateCheck,
                  CountAdmins, db
    <2>2. u \in DOMAIN users
      BY <1>6, <2>1 DEF UpdateRoleWrite, UpdateUserRole, db
    <2> QED BY <1>4, <2>1, <2>2
  <1> QED BY <1>1, <1>2, <1>5, <1>6

(* Without an administrator there is nothing yet, and only setup adds to it. *)
LEMMA StepKeepsAdmin ==
  ASSUME Inv, NEW p \in Procs, Step(p), Safe(req[p]) \/ Admins = {}, AdminNeeded
  PROVE  AdminNeeded'
  <1>1. CASE Admins # {}
    BY <1>1, AdminsSurvive DEF AdminNeeded
  <1>2. CASE Admins = {}
    <2>1. /\ DOMAIN users = {} /\ settings = {}
          /\ \A q \in Procs : req[q].kind # "create" /\ ~ At(q, {"setup"}, "settings")
      BY <1>2 DEF AdminNeeded
    <2>2. req \in [Procs -> Request]
      BY InvParts
    <2>3. PICK r \in Request : Moved(p, r)
      BY StepMoves
    <2>4. req'[p] = r /\ \A q \in Procs : q # p => req'[q] = req[q]
      BY <2>2, <2>3, Becoming DEF Moved
    <2>5. ASSUME NEW q \in Procs, (req[q].kind = "create" \/ At(q, {"setup"}, "settings"))'
          PROVE  Admins' # {}
      <3>1. q = p
        BY <2>1, <2>4, <2>5 DEF At
      <3> QED BY <2>1, <2>3, <2>4, <2>5, <3>1 DEF At, Moved
    <2>6. ASSUME settings' # {} \/ DOMAIN users' # {}
          PROVE  Admins' # {}
      <3>1. ASSUME NEW key \in Keys, SetupSetting(p, key)
            PROVE  FALSE
        BY <2>1, <3>1 DEF SetupSetting, At
      <3>2. ASSUME NEW password \in Passwords, SetupCreate(p, password)
            PROVE  Admins' # {}
        <4>1. CreateUser("admin", password)
          BY <2>1, <2>6, <3>2 DEF SetupCreate, db
        <4>2. userSeq + 1 \in Admins'
          BY <4>1 DEF CreateUser, Put, Admins
        <4> QED BY <4>2
      <3>3. ASSUME NEW password \in Passwords, OwnWrite(p, password) \/ ResetWrite(p, password)
            PROVE  FALSE
        BY <2>1, <2>6, <3>3 DEF OwnWrite, ResetWrite, UpdateUserPassword, db
      <3>4. ASSUME NEW role \in Roles, NEW password \in Passwords, CreateWrite(p, role, password)
            PROVE  FALSE
        BY <2>1, <3>4 DEF CreateWrite, At
      <3>5. CASE DeleteWrite(p)
        BY <2>1, <2>6, <3>5 DEF DeleteWrite, DeleteUser, Drop
      <3>6. CASE UpdateRoleWrite(p)
        BY <2>1, <2>6, <3>6 DEF UpdateRoleWrite, UpdateUserRole, db
      <3>7. CASE Logout(p)
        BY <2>1, <2>6, <3>7 DEF Logout, DeleteSession
      <3>8. CASE LoginCreate(p)
        BY <2>1, <2>6, <3>8 DEF LoginCreate, CreateSession, db
      <3>9. CASE RequireUser(p) \/ CreateCheck(p) \/ CountAdmins(p)
        BY <2>1, <2>6, <3>9 DEF RequireUser, CreateCheck, CountAdmins, db
      <3>10. ASSUME NEW password \in Passwords, OwnVerify(p, password)
             PROVE  FALSE
        BY <2>1, <2>6, <3>10 DEF OwnVerify, db
      <3>11. ASSUME NEW u \in UserIds, NEW role \in Roles, ReadTarget(p, u, role)
             PROVE  FALSE
        BY <2>1, <2>6, <3>11 DEF ReadTarget, db
      <3> QED BY <3>1, <3>2, <3>3, <3>4, <3>5, <3>6, <3>7, <3>8, <3>9, <3>10, <3>11 DEF Step
    <2> QED BY <2>5, <2>6 DEF AdminNeeded
  <1> QED BY <1>1, <1>2

(* A session is opened with the present password, and closed when it       *)
(* changes, but for stale logins.                                          *)
LEMMA StepKeepsCurrent ==
  ASSUME Inv, NEW p \in Procs, Step(p), Notes(p), p \in stale \/ Good(req[p]), SessionsCurrent
  PROVE  SessionsCurrent'
  <1>0. DbTypeOK /\ SessionsOwned /\ Inv'
    BY InvParts, StepKeepsInv
  <1>a. /\ \A t \in DOMAIN sessions' : sessions'[t].user \in UserIds
        /\ \A u, t : t \in DOMAIN sessions' /\ sessions'[t].user = u => SessionsOf(u)' # {}
    <2>1. \A t \in DOMAIN sessions' : sessions'[t].user \in UserIds
      BY <1>0 DEF Inv, TypeOK, Session
    <2>2. \A u, t : t \in DOMAIN sessions' /\ sessions'[t].user = u => t \in SessionsOf(u)'
      BY DEF SessionsOf
    <2> QED BY <2>1, <2>2
  <1>b. \A t \in DOMAIN sessions' : sessions'[t].user \in exposed => sessions'[t].user \in exposed'
    BY <1>a DEF Notes
  <1>1. ASSUME PasswordsKept, DOMAIN sessions' \subseteq DOMAIN sessions,
               \A t \in DOMAIN sessions' : sessions'[t] = sessions[t]
        PROVE  SessionsCurrent'
    <2>1. \A t \in DOMAIN sessions : sessions[t].user \in 1..userSeq
      BY <1>0 DEF DbTypeOK, SessionsOwned
    <2> QED BY <1>1, <1>b, <2>1 DEF SessionsCurrent, PasswordsKept
  <1>2. ASSUME NEW u, NEW password, UpdateUserPassword(u, password)
        PROVE  SessionsCurrent'
    <2>1. CASE u \in DOMAIN users
      <3>1. /\ users' = Put(users, u, [role |-> users[u].role, password |-> password])
            /\ sessions' = Drop(sessions, SessionsOf(u))
        BY <1>2, <2>1 DEF UpdateUserPassword
      <3>2. /\ DOMAIN users' = DOMAIN users
            /\ \A v \in DOMAIN users : v # u => users'[v] = users[v]
        BY <2>1, <3>1 DEF Put
      <3>3. \A t \in DOMAIN sessions' :
              t \in DOMAIN sessions /\ sessions'[t] = sessions[t] /\ sessions[t].user # u
        BY <3>1 DEF Drop, SessionsOf
      <3> QED BY <1>b, <3>2, <3>3 DEF SessionsCurrent
    <2>2. CASE u \notin DOMAIN users
      BY <1>2, <1>b, <2>2 DEF UpdateUserPassword, db, SessionsCurrent
    <2> QED BY <2>1, <2>2
  <1>3. CASE \E password \in Passwords : OwnWrite(p, password) \/ ResetWrite(p, password)
    BY <1>2, <1>3 DEF OwnWrite, ResetWrite
  <1>4. CASE LoginCreate(p)
    <2>1. UNCHANGED users
      BY <1>4 DEF LoginCreate, CreateSession, db
    <2>2. CASE UNCHANGED sessions
      BY <1>b, <2>1, <2>2 DEF SessionsCurrent
    <2>3. CASE sessions' # sessions
      <3> DEFINE s == [user |-> req[p].target, password |-> req[p].given, live |-> TRUE]
      <3>1. sessions' = Put(sessions, sessionSeq + 1, s) /\ req[p].target \in DOMAIN users
            /\ req[p].kind = "login"
        BY <1>4, <2>3 DEF LoginCreate, CreateSession, db, At
      <3>2. \A t \in DOMAIN sessions' :
              sessions'[t] = s \/ (t \in DOMAIN sessions /\ sessions'[t] = sessions[t])
        BY <3>1 DEF Put
      <3>3. CASE p \notin stale
        <4>1. s.password = users[s.user].password
          BY <3>1, <3>3 DEF Good, Fresh
        <4> QED BY <1>b, <2>1, <3>2, <4>1 DEF SessionsCurrent
      <3>4. CASE p \in stale
        <4>1. sessionSeq' # sessionSeq
          <5>1. sessionSeq \in Nat
            BY <1>0, AccountsAssumption DEF DbTypeOK
          <5> QED BY <1>4, <2>3, <5>1 DEF LoginCreate, CreateSession, db
        <4>2. \E t \in DOMAIN sessions' : sessions'[t].user = req[p].target
          <5>1. sessions'[sessionSeq + 1] = s /\ sessionSeq + 1 \in DOMAIN sessions'
            BY <3>1 DEF Put
          <5> QED BY <5>1
        <4>3. req[p].target \in exposed'
          BY <1>a, <3>1, <3>4, <4>1, <4>2 DEF Notes, OpensFor
        <4> QED BY <1>b, <2>1, <3>2, <4>3 DEF SessionsCurrent
      <3> QED BY <3>3, <3>4
    <2> QED BY <2>2, <2>3
  <1>5. CASE DeleteWrite(p)
    <2>1. /\ \A t \in DOMAIN sessions' : t \in DOMAIN sessions /\ sessions'[t] = sessions[t]
          /\ req[p].kind = "delete"
      BY <1>5 DEF DeleteWrite, DeleteUser, Drop, At
    <2> QED BY <1>1, <2>1, Effects
  <1>6. CASE Logout(p)
    <2>1. /\ \A t \in DOMAIN sessions' : t \in DOMAIN sessions /\ sessions'[t] = sessions[t]
          /\ req[p].kind = "logout"
      BY <1>6 DEF Logout, DeleteSession, Drop, At
    <2> QED BY <1>1, <2>1, Effects
  <1>7. CASE UNCHANGED sessions /\ PasswordsKept
    BY <1>1, <1>7
  <1>8. ASSUME NEW key \in Keys, SetupSetting(p, key)
        PROVE  UNCHANGED sessions /\ PasswordsKept
    <2>1. UNCHANGED sessions /\ req[p].kind = "setup"
      BY <1>8 DEF SetupSetting, SetSetting, At
    <2> QED BY <2>1, Effects
  <1>9. ASSUME NEW password \in Passwords, SetupCreate(p, password)
        PROVE  UNCHANGED sessions /\ PasswordsKept
    <2>1. UNCHANGED sessions /\ req[p].kind = "setup"
      BY <1>9 DEF SetupCreate, CreateUser, At, db
    <2> QED BY <2>1, Effects
  <1>10. ASSUME NEW role \in Roles, NEW password \in Passwords, CreateWrite(p, role, password)
         PROVE  UNCHANGED sessions /\ PasswordsKept
    <2>1. UNCHANGED sessions /\ req[p].kind = "create"
      BY <1>10 DEF CreateWrite, CreateUser, At, db
    <2> QED BY <2>1, Effects
  <1>11. CASE UpdateRoleWrite(p)
    <2>1. UNCHANGED sessions /\ req[p].kind = "role"
      BY <1>11 DEF UpdateRoleWrite, UpdateUserRole, At, db
    <2> QED BY <1>7, <2>1, Effects
  <1>12. CASE UNCHANGED db
    BY <1>b, <1>12 DEF db, SessionsCurrent
  <1>13. CASE RequireUser(p) \/ CreateCheck(p) \/ CountAdmins(p)
    BY <1>12, <1>13 DEF RequireUser, CreateCheck, CountAdmins
  <1>14. ASSUME NEW password \in Passwords, OwnVerify(p, password)
         PROVE  UNCHANGED db
    BY <1>14 DEF OwnVerify
  <1>15. ASSUME NEW u \in UserIds, NEW role \in Roles, ReadTarget(p, u, role)
         PROVE  UNCHANGED db
    BY <1>15 DEF ReadTarget
  <1> QED BY <1>3, <1>4, <1>5, <1>6, <1>7, <1>8, <1>9, <1>10, <1>11, <1>12, <1>13, <1>14, <1>15
          DEF Step

(* What becomes of lockedOut and of the need for an administrator. *)
LEMMA AdminOrLockedOut ==
  ASSUME NEW p \in Procs, Notes(p), lockedOut \/ AdminNeeded,
         AdminNeeded => AdminNeeded' \/ (p \in stale /\ TakesAdmins(p) /\ Admins # {})
  PROVE  lockedOut' \/ AdminNeeded'
  <1>1. CASE Admins' # {}
    BY <1>1 DEF AdminNeeded
  <1>2. CASE Admins' = {} /\ lockedOut
    BY <1>2 DEF Notes
  <1>3. CASE Admins' = {} /\ p \in stale /\ TakesAdmins(p) /\ Admins # {}
    BY <1>3 DEF Notes
  <1> QED BY <1>1, <1>2, <1>3

(* One request goes on. *)
LEMMA StepKeepsOverlap ==
  ASSUME Inv, OverlapInv, NEW p \in Procs, Step(p), Notes(p)
  PROVE  OverlapInv'
  <1>1. SessionsCurrent /\ (lockedOut \/ AdminNeeded) /\ \A q \in Procs \ stale : Good(req[q])
    BY DEF OverlapInv
  <1>2. req \in [Procs -> Request]
    BY InvParts
  <1>3. SessionsCurrent'
    BY <1>1, StepKeepsCurrent
  <1>4. lockedOut' \/ AdminNeeded'
    <2>1. Safe(req[p]) \/ (p \in stale /\ TakesAdmins(p))
      <3>1. CASE p \in stale
        BY <3>1 DEF Safe, TakesAdmins, At
      <3>2. CASE p \notin stale
        BY <1>1, <3>2 DEF Good
      <3> QED BY <3>1, <3>2
    <2>2. AdminNeeded => AdminNeeded' \/ (p \in stale /\ TakesAdmins(p) /\ Admins # {})
      BY <2>1, StepKeepsAdmin
    <2> QED BY <1>1, <2>2, AdminOrLockedOut
  <1>5. PICK r \in Request : Moved(p, r)
    BY StepMoves
  <1>6. req'[p] = r /\ \A q \in Procs : q # p => req'[q] = req[q]
    BY <1>2, <1>5, Becoming DEF Moved
  <1>7. ASSUME NEW q \in Procs, q \notin stale'
        PROVE  Good(req[q])'
    <2>1. CASE q = p
      BY <1>5, <1>6, <2>1 DEF Moved, Good, Safe, Fresh
    <2>2. CASE q # p
      <3>1. q \notin stale /\ ~ Outdated(q)
        BY <1>7, <2>2 DEF Notes
      <3> QED BY <1>1, <1>6, <2>2, <3>1, OthersStayGood
    <2> QED BY <2>1, <2>2
  <1> QED BY <1>3, <1>4, <1>7 DEF OverlapInv

(* A step that leaves the tables alone makes no request stale. *)
LEMMA StillUpToDate ==
  ASSUME NEW p \in Procs, Notes(p), UNCHANGED <<users, sessions>>
  PROVE  /\ \A q \in Procs : q # p /\ q \notin stale' => q \notin stale
         /\ Inv /\ SessionsCurrent => SessionsCurrent'
  <1>1. \A q \in Procs : q # p /\ q \notin stale' => q \notin stale
    BY DEF Notes
  <1>2. ASSUME Inv, SessionsCurrent
        PROVE  SessionsCurrent'
    <2>1. \A t \in DOMAIN sessions : sessions[t].user \in UserIds /\ t \in SessionsOf(sessions[t].user)
      BY <1>2 DEF Inv, TypeOK, Session, SessionsOf
    <2>2. \A t \in DOMAIN sessions : sessions[t].user \in exposed => sessions[t].user \in exposed'
      BY <2>1 DEF Notes, SessionsOf
    <2> QED BY <1>2, <2>2 DEF SessionsCurrent
  <1> QED BY <1>1, <1>2

(* One request arrives. *)
LEMMA ArriveKeepsOverlap ==
  ASSUME Inv, OverlapInv, NEW p \in Procs, Arrive(p), Notes(p)
  PROVE  OverlapInv'
  <1>1. SessionsCurrent /\ (lockedOut \/ AdminNeeded) /\ \A q \in Procs \ stale : Good(req[q])
    BY DEF OverlapInv
  <1>2. req \in [Procs -> Request]
    BY InvParts
  <1>3. PICK r \in Request :
          /\ Inv' /\ UNCHANGED db
          /\ Become(p, r)
          /\ r.kind = "setup" \/ r.kind = "login" \/ r.kind \in DOMAIN FirstStep
          /\ r.kind # "setup" => DOMAIN users # {}
          /\ r.kind # "login" /\ r.kind # "setup" => r.at = "user"
          /\ r.kind = "setup" => r.at = "write"
          /\ r.kind = "login" => r.target \in DOMAIN users /\ r.given = users[r.target].password
    BY ArriveKeepsInv
  <1>4. req'[p] = r /\ \A q \in Procs : q # p => req'[q] = req[q]
    BY <1>2, <1>3, Becoming
  <1>5. UNCHANGED <<users, sessions, settings>>
    BY <1>3 DEF db
  <1>6. \A q \in Procs : q # p /\ q \notin stale' => q \notin stale
    BY <1>5, StillUpToDate
  <1>7. SessionsCurrent'
    BY <1>1, <1>5, StillUpToDate
  <1>8. \A q \in Procs \ stale' : Good(req[q])'
    BY <1>1, <1>3, <1>4, <1>5, <1>6 DEF Good, Safe, Fresh, Admins
  <1>9. AdminNeeded => AdminNeeded'
    BY <1>3, <1>4, <1>5 DEF AdminNeeded, Admins, At
  <1>10. lockedOut' \/ AdminNeeded'
    BY <1>1, <1>9, AdminOrLockedOut
  <1> QED BY <1>7, <1>8, <1>10 DEF OverlapInv

(* One request is given up. *)
LEMMA StoreFailsKeepsOverlap ==
  ASSUME Inv, OverlapInv, NEW p \in Procs, StoreFails(p), Notes(p)
  PROVE  OverlapInv'
  <1>1. SessionsCurrent /\ (lockedOut \/ AdminNeeded) /\ \A q \in Procs \ stale : Good(req[q])
    BY DEF OverlapInv
  <1>2. /\ UNCHANGED <<users, sessions, settings>>
        /\ req \in [Procs -> Request] /\ Become(p, Idle)
    BY InvParts DEF StoreFails, End, Become, db
  <1>3. req'[p] = Idle /\ \A q \in Procs : q # p => req'[q] = req[q]
    BY <1>2, IdleType, Becoming
  <1>4. \A q \in Procs : q # p /\ q \notin stale' => q \notin stale
    BY <1>2, StillUpToDate
  <1>5. SessionsCurrent'
    BY <1>1, <1>2, StillUpToDate
  <1>6. \A q \in Procs \ stale' : Good(req[q])'
    BY <1>1, <1>2, <1>3, <1>4, IdleType DEF Good, Safe, Fresh, Admins
  <1>7. AdminNeeded => AdminNeeded'
    BY <1>2, <1>3, IdleType DEF AdminNeeded, Admins, At
  <1>8. lockedOut' \/ AdminNeeded'
    BY <1>1, <1>7, AdminOrLockedOut
  <1> QED BY <1>5, <1>6, <1>8 DEF OverlapInv

(* Sessions end, accounts and requests stay. *)
LEMMA SessionsEnd ==
  ASSUME Inv, OverlapInv, NotesSessions, UNCHANGED <<users, settings, req, stale>>,
         DOMAIN sessions' \subseteq DOMAIN sessions,
         \A t \in DOMAIN sessions' : /\ sessions'[t].user = sessions[t].user
                                     /\ sessions'[t].password = sessions[t].password
  PROVE  OverlapInv'
  <1>1. SessionsCurrent /\ (lockedOut \/ AdminNeeded) /\ \A q \in Procs \ stale : Good(req[q])
    BY DEF OverlapInv
  <1>2. \A t \in DOMAIN sessions' : sessions'[t].user \in exposed => sessions'[t].user \in exposed'
    BY DEF NotesSessions, SessionsOf
  <1>3. SessionsCurrent'
    BY <1>1, <1>2 DEF SessionsCurrent
  <1>4. lockedOut' \/ AdminNeeded'
    BY <1>1 DEF NotesSessions, AdminNeeded, Admins, At
  <1>5. \A q \in Procs \ stale' : Good(req[q])'
    BY <1>1 DEF Good, Safe, Fresh, Admins
  <1> QED BY <1>3, <1>4, <1>5 DEF OverlapInv

(* Every step. *)
LEMMA NextKeepsOverlap ==
  ASSUME Inv, OverlapInv, [HNext]_hvars
  PROVE  OverlapInv'
  <1>1. SessionsCurrent /\ (lockedOut \/ AdminNeeded) /\ \A q \in Procs \ stale : Good(req[q])
    BY DEF OverlapInv
  <1>2. ASSUME NEW p \in Procs, Arrive(p) \/ Step(p) \/ StoreFails(p), Notes(p)
        PROVE  OverlapInv'
    BY <1>2, ArriveKeepsOverlap, StepKeepsOverlap, StoreFailsKeepsOverlap
  <1>3. ASSUME NEW t \in Tokens, Expire(t), NotesSessions, UNCHANGED stale
        PROVE  OverlapInv'
    <2>1. /\ UNCHANGED <<users, settings, req>>
          /\ DOMAIN sessions' = DOMAIN sessions
          /\ \A k \in DOMAIN sessions : /\ sessions'[k].user = sessions[k].user
                                        /\ sessions'[k].password = sessions[k].password
      BY <1>3 DEF Expire, Put
    <2> QED BY <1>3, <2>1, SessionsEnd
  <1>4. CASE Housekeeping /\ NotesSessions /\ UNCHANGED stale
    <2>1. /\ UNCHANGED <<users, settings, req>>
          /\ DOMAIN sessions' \subseteq DOMAIN sessions
          /\ \A k \in DOMAIN sessions' : sessions'[k] = sessions[k]
      BY <1>4 DEF Housekeeping, Drop
    <2> QED BY <1>4, <2>1, SessionsEnd
  <1>5. CASE Restart /\ NotesSessions /\ stale' = {}
    <2>1. UNCHANGED <<users, sessions, settings, lockedOut>> /\ \A q \in Procs : req'[q] = Idle
      BY <1>5 DEF Restart, db, NotesSessions
    <2>2. \A q \in Procs : Good(req[q])'
      BY <2>1, IdleType DEF Good, Safe, Fresh
    <2>3. AdminNeeded => AdminNeeded'
      BY <2>1, IdleType DEF AdminNeeded, Admins, At
    <2>4. \A t \in DOMAIN sessions : sessions[t].user \in exposed => sessions[t].user \in exposed'
      BY <1>5, <2>1 DEF NotesSessions, SessionsOf
    <2>5. SessionsCurrent'
      BY <1>1, <2>1, <2>4 DEF SessionsCurrent
    <2> QED BY <1>1, <2>1, <2>2, <2>3, <2>5 DEF OverlapInv
  <1>6. CASE UNCHANGED hvars
    BY <1>1, <1>6 DEF hvars, vars, history, OverlapInv, SessionsCurrent, AdminNeeded, Admins, At,
                      Good, Safe, Fresh
  <1> QED BY <1>2, <1>3, <1>4, <1>5, <1>6 DEF HNext

(* A fresh database. *)
LEMMA InitOverlap ==
  ASSUME HInit
  PROVE  OverlapInv
  <1>1. DOMAIN users = {} /\ DOMAIN sessions = {} /\ settings = {} /\ \A q \in Procs : req[q] = Idle
    BY DEF HInit, Init, Empty
  <1>2. \A q \in Procs : Good(req[q])
    BY <1>1, IdleType DEF Good, Safe, Fresh
  <1>3. AdminNeeded /\ SessionsCurrent
    BY <1>1, IdleType DEF AdminNeeded, At, SessionsCurrent
  <1> QED BY <1>2, <1>3 DEF OverlapInv

(* However requests overlap: what those that are not stale know, the       *)
(* sessions of users that are not exposed, and the administrator.          *)
THEOREM OverlapInductive == HSpec => [](Inv /\ OverlapInv)
  <1>1. HInit => Inv /\ OverlapInv
    BY InitInv, InitOverlap DEF HInit
  <1>2. Inv /\ OverlapInv /\ [HNext]_hvars => (Inv /\ OverlapInv)'
    BY HistoryAddsNothing, NextKeepsInv, NextKeepsOverlap
  <1> QED BY <1>1, <1>2, PTL DEF HSpec

(* The administrator role never dies out, but by a stale request. *)
THEOREM AdminAlwaysExists == HSpec => []AdminExists
  <1>1. OverlapInv => AdminExists
    BY DEF OverlapInv, AdminNeeded, AdminExists
  <1> QED BY <1>1, OverlapInductive, PTL

(* Every session stands for an account that exists, with its password, but *)
(* for users that logged in while their password was being changed.        *)
THEOREM SessionsAlwaysValid == HSpec => []SessionsValid
  <1>1. Inv /\ OverlapInv => SessionsValid
    BY DEF Inv, OverlapInv, SessionsValid
  <1> QED BY <1>1, OverlapInductive, PTL
=============================================================================
