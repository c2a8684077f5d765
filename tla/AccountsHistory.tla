-------------------------- MODULE AccountsHistory --------------------------
(***************************************************************************)
(* Accounts with three history variables that constrain no step: which     *)
(* requests act on something that others have changed since they checked   *)
(* it, and what such a request has left behind.  With them the promises    *)
(* that overlapping requests can break are stated for every behaviour, and *)
(* say exactly what breaks them.                                           *)
(***************************************************************************)
EXTENDS Accounts

VARIABLES
  stale,        \* requests of which something they checked has been changed since
  exposed,      \* users with a session that a stale login opened
  lockedOut     \* whether a stale request has taken the last administrator away

history == <<stale, exposed, lockedOut>>
hvars == <<vars, history>>

PasswordChanges(u) ==
  u \in DOMAIN users \cap DOMAIN users' /\ users'[u].password # users[u].password

(* A login goes by the password it verified; a change of role or deletion, *)
(* by there being another administrator, or by its target being none.      *)
TakesAdmins(p) == At(p, {"role", "delete"}, "write")

Outdated(q) ==
  \/ req[q].kind = "login" /\ PasswordChanges(req[q].target)
  \/ TakesAdmins(q) /\ (~ Admins \subseteq Admins' \/ req[q].target \in Admins' \ Admins)

(* The request in slot p opens a session for user u in this step. *)
OpensFor(p, u) ==
  /\ req[p].kind = "login" /\ req[p].target = u
  /\ sessionSeq' # sessionSeq

(* What the history variables note of a step of slot p. *)
Notes(p) ==
  /\ stale' = {q \in Procs \ {p} : q \in stale \/ Outdated(q)}
  /\ exposed' = {u \in UserIds : /\ SessionsOf(u)' # {}
                                 /\ u \in exposed \/ (p \in stale /\ OpensFor(p, u))}
  /\ lockedOut' = (/\ Admins' = {}
                   /\ lockedOut \/ (p \in stale /\ TakesAdmins(p) /\ Admins # {}))

NotesSessions ==
  /\ exposed' = {u \in exposed : SessionsOf(u)' # {}}
  /\ UNCHANGED lockedOut

HInit == Init /\ stale = {} /\ exposed = {} /\ lockedOut = FALSE

HNext ==
  \/ \E p \in Procs : (Arrive(p) \/ Step(p) \/ StoreFails(p)) /\ Notes(p)
  \/ (Housekeeping \/ \E t \in Tokens : Expire(t)) /\ NotesSessions /\ UNCHANGED stale
  \/ Restart /\ NotesSessions /\ stale' = {}

HSpec == HInit /\ [][HNext]_hvars

-----------------------------------------------------------------------------
(* Properties *)

(* "The last administrator can never be demoted (the admin role must       *)
(* always exist)" (handlers_users.go): nobody locks everybody out, through *)
(* overlapping setups, crashes and anything else, but by a change of role  *)
(* or a deletion that counted administrators, or found its target to be    *)
(* none, before another request took one away or promoted the target.      *)
AdminExists == lockedOut \/ (DOMAIN users # {} \/ "setup.completed" \in settings => Admins # {})

(* "A changed password must log out every device" (users.go): every        *)
(* session was opened with the password its user has now, except of users  *)
(* with a login whose check the change of their password overtook.         *)
SessionsCurrent ==
  \A t \in DOMAIN sessions :
    sessions[t].user \in DOMAIN users \ exposed
      => sessions[t].password = users[sessions[t].user].password

(* A cookie that authMiddleware accepts stands for an account as it is. *)
SessionsValid == SessionsOwned /\ SessionsCurrent

-----------------------------------------------------------------------------
(* The inductive invariant: what a request that is not stale knows.        *)

(* A request that may take away an administrator leaves another one; ... *)
Safe(r) ==
  /\ r.kind \in {"role", "delete"} /\ r.at = "write"
  /\ r.target \in Admins
  /\ r.kind = "role" => r.role # "admin"
  => \E a \in Admins : a # r.target

(* ... one that logs in was given the present password. *)
Fresh(r) ==
  r.kind = "login" /\ r.target \in DOMAIN users => r.given = users[r.target].password

Good(r) == Safe(r) /\ Fresh(r)

(* Whatever could come to rely on an administrator. *)
AdminNeeded ==
  \/ DOMAIN users # {} \/ settings # {}
  \/ \E p \in Procs : req[p].kind = "create" \/ At(p, {"setup"}, "settings")
  => Admins # {}

OverlapInv ==
  /\ \A p \in Procs \ stale : Good(req[p])
  /\ SessionsCurrent
  /\ lockedOut \/ AdminNeeded
=============================================================================
