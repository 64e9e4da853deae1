------------------------------ MODULE Accounts ------------------------------
(***************************************************************************)
(* Accounts of the server: enrolment, login sessions and the lifecycle     *)
(* operations of administrators, of the command line and of the owner of   *)
(* an account (auth_service.py, memberships.py, account_api.py and the     *)
(* account handlers of router.py).                                         *)
(*                                                                         *)
(* A request is a process.  It authenticates first and acts later, so what *)
(* it knows of its caller may be stale.  Operations that count the active  *)
(* administrators hold the lock of the guard row from before they read     *)
(* until they commit; login, registration, the administrators' password    *)
(* reset and their plain reactivation take no lock.                        *)
(***************************************************************************)
EXTENDS Naturals, FiniteSets, Sequences

CONSTANTS Users,        \* the account names that may be enrolled
          Requests,     \* requests and commands that may overlap
          MaxSessions,  \* bound: sessions ever issued
          MaxOps        \* bound: lifecycle operations begun

AccountsAssumption == MaxSessions \in Nat /\ MaxOps \in Nat /\ "free" \notin Requests
ASSUME AccountsAssumed == AccountsAssumption

VARIABLES user,      \* auth_users: role, status, password version, "removed" mark
          session,   \* auth_sessions in the order of their commits
          guard,     \* who holds the row lock of auth_bootstrap_guard
          req,       \* what each request is doing and what it has read
          reset,     \* per user, how many times its sessions have been revoked
          boots,     \* how many bootstraps have committed
          ops        \* lifecycle operations begun

vars == <<user, session, guard, req, reset, boots, ops>>

Free == "free"
NoAccount == [role |-> "none", status |-> "none", pw |-> 0, removed |-> FALSE]
Idle == [pc |-> "idle", op |-> "none", u |-> "none", sid |-> 0, admins |-> 0, row |-> NoAccount]

Exists(u) == user[u] # NoAccount
ActiveAdmins == {u \in Users : user[u].role = "admin" /\ user[u].status = "active"}

Init == /\ user = [u \in Users |-> NoAccount]
        /\ session = <<>>
        /\ guard = Free
        /\ req = [r \in Requests |-> Idle]
        /\ reset = [u \in Users |-> 0]
        /\ boots = 0
        /\ ops = 0

(***************************************************************************)
(* Sessions.                                                               *)
(***************************************************************************)

\* A session authenticates while it is neither revoked nor expired and its
\* user is active.
Current(i) == /\ i \in DOMAIN session
              /\ ~session[i].revoked
              /\ ~session[i].expired
              /\ user[session[i].u].status = "active"

\* create_user
NewUser(role) == [role |-> role, status |-> "active", pw |-> 0, removed |-> FALSE]

\* Mutant: only the first session is revoked.
RevokedFirst(s, u) == [i \in DOMAIN s |-> IF i = 1 /\ s[i].u = u THEN [s[i] EXCEPT !.revoked = TRUE] ELSE s[i]]
Revoked(s, u) == [i \in DOMAIN s |-> IF s[i].u = u THEN [s[i] EXCEPT !.revoked = TRUE] ELSE s[i]]

CreateSession(u) ==
    /\ Len(session) < MaxSessions
    /\ session' = Append(session, [u |-> u, revoked |-> FALSE, expired |-> FALSE, reset |-> reset[u]])

\* The password is verified against the row read here.
LoginRead(r, u) ==
    /\ req[r].pc = "idle"
    /\ Len(session) < MaxSessions
    /\ user[u].status = "active"
    /\ req' = [req EXCEPT ![r] = [Idle EXCEPT !.pc = "issue", !.op = "login", !.u = u]]
    /\ UNCHANGED <<user, session, guard, reset, boots, ops>>

\* Registration commits the member first and its session afterwards.
Register(r, u) ==
    /\ req[r].pc = "idle"
    /\ ~Exists(u)
    /\ user' = [user EXCEPT ![u] = NewUser("member")]
    /\ req' = [req EXCEPT ![r] = [Idle EXCEPT !.pc = "issue", !.op = "login", !.u = u]]
    /\ UNCHANGED <<session, guard, reset, boots, ops>>

Issue(r) ==
    /\ req[r].pc = "issue"
    /\ CreateSession(req[r].u)
    /\ req' = [req EXCEPT ![r] = Idle]
    /\ UNCHANGED <<user, guard, reset, boots, ops>>

Logout(i) ==
    /\ Current(i)
    /\ session' = [session EXCEPT ![i].revoked = TRUE]
    /\ UNCHANGED <<user, guard, req, reset, boots, ops>>

Expire(i) ==
    /\ i \in DOMAIN session /\ ~session[i].expired
    /\ session' = [session EXCEPT ![i].expired = TRUE]
    /\ UNCHANGED <<user, guard, req, reset, boots, ops>>

(***************************************************************************)
(* Lifecycle operations.  sid = 0 is the command line.                     *)
(***************************************************************************)

AdminOps == {"disable", "reactivate", "reset"}                  \* /admin/users
MemberOps == {"member", "admin", "off", "remove", "on", "restore"} \* memberships.change
OwnOps == {"password", "close"}                                 \* /account
CliOps == {"bootstrap", "promote", "disable", "reactivate", "reset"}
Guarded == {"disable", "bootstrap", "promote", "password", "close"} \cup MemberOps

Permitted(op, sid, u) ==
    \/ sid = 0 /\ op \in CliOps
    \/ /\ Current(sid)
       /\ \/ op \in OwnOps /\ session[sid].u = u
          \/ /\ op \in AdminOps \cup MemberOps
             /\ user[session[sid].u].role = "admin"
             /\ ~(session[sid].u = u /\ op \in {"member", "admin", "off", "remove"})

Begin(r, op, sid, u) ==
    /\ req[r].pc = "idle"
    /\ ops < MaxOps
    /\ Permitted(op, sid, u)
    /\ op = "bootstrap" \/ Exists(u)
    /\ ops' = ops + 1
    /\ req' = [req EXCEPT ![r] = [pc |-> IF op \in Guarded THEN "lock" ELSE "read", op |-> op, u |-> u,
                                  sid |-> sid, admins |-> 0, row |-> NoAccount]]
    /\ UNCHANGED <<user, session, guard, reset, boots>>

Create(r, sid, u, role) ==
    /\ req[r].pc = "idle"
    /\ ops < MaxOps
    /\ Current(sid) /\ user[session[sid].u].role = "admin"
    /\ ~Exists(u)
    /\ user' = [user EXCEPT ![u] = NewUser(role)]
    /\ ops' = ops + 1
    /\ UNCHANGED <<session, guard, req, reset, boots>>

Lock(r) ==
    /\ req[r].pc = "lock"
    /\ guard = Free
    /\ guard' = r
    /\ req' = [req EXCEPT ![r].pc = "read"]
    /\ UNCHANGED <<user, session, reset, boots, ops>>

\* The session that authenticated the request still belongs to its active user.
SessionIsCurrent(q) == Current(q.sid) /\ session[q.sid].u = q.u

\* What the operation reads before it writes: the row and the number of active
\* administrators, or whether any account exists.  The owner's operations look
\* at their session again under the lock.
Read(r) ==
    /\ req[r].pc = "read"
    /\ LET q == req[r]
           refused == \/ q.op \in OwnOps /\ ~SessionIsCurrent(q)
                      \/ q.op = "bootstrap" /\ \E u \in Users : Exists(u)
       IN IF refused
          THEN /\ req' = [req EXCEPT ![r] = Idle]
               /\ guard' = IF guard = r THEN Free ELSE guard
          ELSE /\ req' = [req EXCEPT ![r] = [q EXCEPT !.pc = "write", !.admins = Cardinality(ActiveAdmins), !.row = user[q.u]]]
               /\ UNCHANGED guard
    /\ UNCHANGED <<user, session, reset, boots, ops>>

\* Disabling looks at the row first: a disabled account stays as it is, the last
\* active administrator is protected.
MayDisable(q) == q.row.status = "disabled" \/ q.row.role # "admin" \/ q.admins > 1

MayChangeRole(q) == q.row.status = "active" /\ (q.op = "admin" \/ q.row.role # "admin" \/ q.admins > 1)

\* The checks made on what was read.
Allowed(q) ==
    CASE q.op \in {"disable", "off", "remove", "close"} -> MayDisable(q)
      [] q.op \in {"member", "admin"} -> MayChangeRole(q)
      [] q.op = "promote" -> q.row.status = "active"
      [] q.op = "on" -> ~q.row.removed
      [] OTHER -> TRUE

\* The row the operation leaves behind.
Changed(q, x) ==
    CASE q.op \in {"disable", "off", "close"} -> [x EXCEPT !.status = "disabled"]
      [] q.op = "remove" -> [x EXCEPT !.status = "disabled", !.removed = TRUE]
      [] q.op \in {"member", "admin"} -> [x EXCEPT !.role = q.op]
      [] q.op = "promote" -> [x EXCEPT !.role = "admin"]
      [] q.op = "reactivate" -> [x EXCEPT !.status = "active"]
      [] q.op \in {"on", "restore"} -> [x EXCEPT !.status = "active", !.removed = FALSE]
      [] q.op \in {"reset", "password"} -> [x EXCEPT !.pw = 1 - @]
      [] q.op = "bootstrap" -> NewUser("admin")

\* Disabling an account that is disabled already returns before it revokes.
Revokes(q) == \/ q.op \in {"disable", "off", "remove", "close"} /\ q.row.status # "disabled"
              \/ q.op \in {"member", "admin", "reset", "password"}

Write(r) ==
    /\ req[r].pc = "write"
    /\ LET q == req[r]
       IN IF Allowed(q) /\ (q.op = "bootstrap" => ~Exists(q.u))
          THEN /\ user' = [user EXCEPT ![q.u] = Changed(q, user[q.u])]
               /\ IF Revokes(q)
                  THEN session' = Revoked(session, q.u) /\ reset' = [reset EXCEPT ![q.u] = @ + 1]
                  ELSE UNCHANGED <<session, reset>>
               /\ boots' = IF q.op = "bootstrap" THEN boots + 1 ELSE boots
          ELSE UNCHANGED <<user, session, reset, boots>>
    /\ guard' = IF guard = r THEN Free ELSE guard
    /\ req' = [req EXCEPT ![r] = Idle]
    /\ UNCHANGED ops

Next == \/ \E r \in Requests : \/ Issue(r) \/ Lock(r) \/ Read(r) \/ Write(r)
                               \/ \E u \in Users : LoginRead(r, u) \/ Register(r, u)
                               \/ \E u \in Users, sid \in 0..Len(session) :
                                     \/ \E op \in AdminOps \cup MemberOps \cup OwnOps \cup CliOps : Begin(r, op, sid, u)
                                     \/ \E role \in {"admin", "member"} : Create(r, sid, u, role)
        \/ \E i \in DOMAIN session : Logout(i) \/ Expire(i)

Spec == Init /\ [][Next]_vars

(***************************************************************************)
(* Properties.                                                             *)
(***************************************************************************)

\* Rows, sessions and requests have the shape the tables and handlers give them.
AccountsTypeOK ==
    /\ \A u \in Users : \/ user[u] = NoAccount
                        \/ /\ user[u].role \in {"admin", "member"} /\ user[u].status \in {"active", "disabled"}
                           /\ user[u].pw \in 0..1 /\ user[u].removed \in BOOLEAN
    /\ \A i \in DOMAIN session : session[i].u \in Users /\ session[i].reset \in 0..reset[session[i].u]
    /\ guard \in Requests \cup {Free}
    /\ \A r \in Requests : req[r].pc \in {"idle", "issue", "lock", "read", "write"}

\* Once the first administrator exists some administrator stays active, whatever
\* disabling, demotion, removal and closure overlap (LastActiveAdminError).
AdminRemains == boots > 0 => ActiveAdmins # {}

\* The bootstrap command succeeds at most once, also when two are started
\* together (the guard row is locked before the existence check).
BootstrapOnce == boots <= 1

\* A session that was committed before its user was disabled, demoted or given a
\* new password never authenticates again, also after a reactivation
\* ("Disabled sessions deliberately remain revoked").
OldSessionsStayDead == \A i \in DOMAIN session : Current(i) => session[i].reset = reset[session[i].u]

\* The account rules in one: an administrator remains, the bootstrap is not repeated, and a
\* revoked session never authenticates again, whichever requests and commands overlap.
AccountsSafe == AccountsTypeOK /\ AdminRemains /\ BootstrapOnce /\ OldSessionsStayDead

\* An account marked as removed is disabled until it is restored
\* ("restore_removed_user_first").
RemovedIsDisabled == \A u \in Users : user[u].removed => user[u].status = "disabled"
=============================================================================
