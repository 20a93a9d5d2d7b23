---------------------------- MODULE UserSessions -----------------------------
(***************************************************************************)
(* Console accounts: logins, opaque sessions, the administrator's commands *)
(* and the proxy that lets a session act on the backend.                   *)
(*                                                                         *)
(* A login loads the account, checks the password and commits; it then     *)
(* commits a session row and, last, its audit event, and only then hands   *)
(* the token out.  An administrator's command loads the account, changes   *)
(* it, selects the sessions that are not revoked and commits.  The select  *)
(* flushes the changed account first, so that the row stays locked until   *)
(* that commit.  The proxy validates the token in one request and forwards *)
(* the operator's request in another.                                      *)
(***************************************************************************)
EXTENDS Integers, FiniteSets, OrmSession

CONSTANTS
    Logins,       \* login requests; a login's session carries its name
    Passwords,    \* passwords that are typed or set
    MaxFailed,    \* MAX_FAILED_LOGINS
    Lockout,      \* LOCKOUT_MINUTES, in ticks
    SessionTTL,   \* SESSION_TTL_HOURS, in ticks
    MaxTime,      \* bound: ticks of the clock
    MaxInFlight,  \* bound: logins between their first and their last step
    MaxCommands,  \* bound: administrator's commands
    MaxActs       \* bound: operator's requests

ASSUME UsersAssumption ==
    /\ IsFiniteSet(Logins) /\ Passwords # {}
    /\ {MaxFailed, Lockout, SessionTTL} \subseteq Nat \ {0}
    /\ MaxInFlight \in Nat \ {0} /\ {MaxTime, MaxCommands, MaxActs} \subseteq Nat

VARIABLES
    acct,       \* the app_users row; locked = 0 stands for no lock
    sessions,   \* the user_sessions rows, by login
    login,      \* progress of each login request
    admin,      \* progress of the administrator's command
    proxy,      \* progress of the operator's request
    time,
    commands, acts,   \* how many commands and requests there were
    epoch,      \* history: number of the last committed command that revokes, or 0
    strikes,    \* history: wrong passwords since the last success or reset
    overlapped, \* history: two transactions on the account have overlapped
    trespass    \* history: a request was forwarded that should not have been

vars == <<acct, sessions, login, admin, proxy, time, commands, acts,
          epoch, strikes, overlapped, trespass>>

Roles == <<"VIEWER", "OPERATOR", "ADMIN">>
RANK(role) == CHOOSE i \in DOMAIN Roles : Roles[i] = role
AppUser == [pass : Passwords, failed : Nat, locked : Nat,
            status : {"ACTIVE", "DISABLED"}, role : {Roles[i] : i \in DOMAIN Roles}]
UserSession == [expires : Nat, revoked : BOOLEAN, epoch : Nat, raced : Nat]

NoSession == [none |-> TRUE]
Idle == [step |-> "idle"]

(* create_user has stored an operator's account. *)
Init ==
    /\ acct \in [pass : Passwords, failed : {0}, locked : {0}, status : {"ACTIVE"},
                 role : {"OPERATOR"}]
    /\ sessions = [l \in Logins |-> NoSession]
    /\ login = [l \in Logins |-> Idle]
    /\ admin = Idle /\ proxy = Idle
    /\ time = 0 /\ commands = 0 /\ acts = 0
    /\ epoch = 0 /\ strikes = 0 /\ overlapped = FALSE /\ trespass = FALSE

-----------------------------------------------------------------------------
(* Logging in. *)

Loading == {l \in Logins : login[l].step = "read"}

(* The command has flushed the account and not yet committed. *)
RowLocked == admin.step = "selected" /\ admin.mem # admin.row

(* authenticate, up to the load of the account. *)
LoginRead(l, guess) ==
    /\ login[l] = Idle
    /\ Cardinality({m \in Logins : login[m].step \in {"read", "verified", "created"}}) < MaxInFlight
    /\ login' = [login EXCEPT ![l] = [step |-> "read", row |-> acct, guess |-> guess,
                                      now |-> time]]
    /\ overlapped' = (overlapped \/ Loading # {} \/ admin # Idle)
    /\ UNCHANGED <<acct, sessions, admin, proxy, time, commands, acts, epoch, strikes, trespass>>

End(l) == login' = [login EXCEPT ![l] = [step |-> "ended"]]

(* locked_until > now, or a disabled account after the right password. *)
LoginRefused(l) ==
    /\ login[l].step = "read"
    /\ LET d == login[l] IN
          \/ d.row.locked > d.now
          \/ d.guess = d.row.pass /\ d.row.status # "ACTIVE"
    /\ End(l)
    /\ UNCHANGED <<acct, sessions, admin, proxy, time, commands, acts, epoch, strikes, overlapped, trespass>>

\* Mutant: the counter is compared before it is incremented.
Struck_late(row, at) ==
    IF row.failed >= MaxFailed
    THEN [row EXCEPT !.failed = 0, !.locked = at + Lockout]
    ELSE [row EXCEPT !.failed = @ + 1]

Struck(row, at) ==
    IF row.failed + 1 >= MaxFailed
    THEN [row EXCEPT !.failed = 0, !.locked = at + Lockout]
    ELSE [row EXCEPT !.failed = @ + 1]

WrongPassword(l) ==
    /\ login[l].step = "read" /\ ~RowLocked
    /\ LET d == login[l] IN
          /\ d.row.locked <= d.now /\ d.guess # d.row.pass
          /\ acct' = Flush(acct, Struck(d.row, d.now), d.row)
    /\ strikes' = strikes + 1
    /\ End(l)
    /\ UNCHANGED <<sessions, admin, proxy, time, commands, acts, epoch, overlapped, trespass>>

\* Mutant: a success leaves the failure count.
Cleared_lock_only(row) == [row EXCEPT !.locked = 0]

Cleared(row) == [row EXCEPT !.failed = 0, !.locked = 0]

Authenticated(l) ==
    /\ login[l].step = "read" /\ ~RowLocked
    /\ LET d == login[l] IN
          /\ d.row.locked <= d.now /\ d.guess = d.row.pass /\ d.row.status = "ACTIVE"
          /\ acct' = Flush(acct, Cleared(d.row), d.row)
          /\ login' = [login EXCEPT ![l] = [step |-> "verified"]]
    /\ strikes' = 0
    /\ UNCHANGED <<sessions, admin, proxy, time, commands, acts, epoch, overlapped, trespass>>

(* The command, if any, that has already selected the sessions it will revoke. *)
Selected == IF admin.step = "selected" THEN commands ELSE 0

(* epoch and raced are history: the last revocation before the session was
   stored, and the one whose select it missed. *)
create_session(l) ==
    /\ login[l].step = "verified"
    /\ sessions' = [sessions EXCEPT ![l] =
           [expires |-> time + SessionTTL, revoked |-> FALSE, epoch |-> epoch, raced |-> Selected]]
    /\ login' = [login EXCEPT ![l] = [step |-> "created"]]
    /\ UNCHANGED <<acct, admin, proxy, time, commands, acts, epoch, strikes, overlapped, trespass>>

(* The auth.login event is committed and the token is returned. *)
LoginAudited(l) ==
    /\ login[l].step = "created"
    /\ login' = [login EXCEPT ![l] = [step |-> "in"]]
    /\ UNCHANGED <<acct, sessions, admin, proxy, time, commands, acts, epoch, strikes, overlapped, trespass>>

(* The process dies or the caller goes away between two commits. *)
LoginLost(l) ==
    /\ login[l].step \in {"read", "verified", "created"}
    /\ End(l)
    /\ UNCHANGED <<acct, sessions, admin, proxy, time, commands, acts, epoch, strikes, overlapped, trespass>>

(* logout: resolve_session, revoke_session and the audit event. *)
logout(l) ==
    /\ login[l].step = "in"
    /\ sessions' = [sessions EXCEPT ![l].revoked = TRUE]
    /\ End(l)
    /\ UNCHANGED <<acct, admin, proxy, time, commands, acts, epoch, strikes, overlapped, trespass>>

-----------------------------------------------------------------------------
(* The administrator's commands (user_admin.py). *)

Ops == {"reset-password", "disable-user", "enable-user", "set-role", "revoke-sessions"}
Revoking == {"reset-password", "disable-user", "revoke-sessions"}

(* set_password, set_status and set_role on the loaded account. *)
Edited(row, op, pass, role) ==
    CASE op = "reset-password" -> [row EXCEPT !.pass = pass, !.failed = 0, !.locked = 0]
      [] op = "disable-user" -> [row EXCEPT !.status = "DISABLED"]
      [] op = "enable-user" -> [row EXCEPT !.status = "ACTIVE"]
      [] op = "set-role" -> [row EXCEPT !.role = role]
      [] op = "revoke-sessions" -> row

AdminRead(op, pass, role) ==
    /\ admin = Idle /\ commands < MaxCommands
    /\ admin' = [step |-> "read", op |-> op, row |-> acct, mem |-> Edited(acct, op, pass, role)]
    /\ commands' = commands + 1
    /\ overlapped' = (overlapped \/ Loading # {})
    /\ UNCHANGED <<acct, sessions, login, proxy, time, acts, epoch, strikes, trespass>>

\* Mutant: the session of a login that is still under way is left out.
revoke_all_sessions_settled ==
    {l \in Logins : sessions[l] # NoSession /\ login[l].step = "in" /\ ~sessions[l].revoked}

revoke_all_sessions == {l \in Logins : sessions[l] # NoSession /\ ~sessions[l].revoked}

AdminSelect ==
    /\ admin.step = "read" /\ admin.op \in Revoking
    /\ admin' = [step |-> "selected", op |-> admin.op, row |-> admin.row, mem |-> admin.mem,
                 picked |-> revoke_all_sessions]
    /\ UNCHANGED <<acct, sessions, login, proxy, time, commands, acts, epoch, strikes, overlapped, trespass>>

Picked == IF admin.op \in Revoking THEN admin.picked ELSE {}

AdminCommit ==
    /\ admin # Idle /\ (admin.op \in Revoking => admin.step = "selected")
    /\ acct' = Flush(acct, admin.mem, admin.row)
    /\ sessions' = [l \in Logins |-> IF l \in Picked THEN [sessions[l] EXCEPT !.revoked = TRUE]
                                     ELSE sessions[l]]
    /\ epoch' = IF admin.op \in Revoking THEN commands ELSE epoch
    /\ strikes' = IF admin.op = "reset-password" THEN 0 ELSE strikes
    /\ admin' = Idle
    /\ UNCHANGED <<login, proxy, time, commands, acts, overlapped, trespass>>

AdminLost ==
    /\ admin # Idle /\ admin' = Idle
    /\ UNCHANGED <<acct, sessions, login, proxy, time, commands, acts, epoch, strikes, overlapped, trespass>>

-----------------------------------------------------------------------------
(* The proxy: validateSessionToken, roleSatisfies, then the forwarded call,
   which the backend accepts on the proxy's own credentials. *)

\* Mutant: the status of the account is not looked at.
resolve_session_any_status(l) ==
    /\ sessions[l] # NoSession
    /\ ~sessions[l].revoked /\ sessions[l].expires > time

resolve_session(l) ==
    /\ sessions[l] # NoSession
    /\ ~sessions[l].revoked /\ sessions[l].expires > time
    /\ acct.status = "ACTIVE"

(* No later revocation than those before the session, or the one it missed. *)
Current(s) == epoch \in {s.epoch, s.raced}

(* requiredRole of a case, match or reconciliation decision. *)
roleSatisfies(role) == RANK(role) >= RANK("OPERATOR")

(* Of the request, its account's tenant and its double-submit CSRF token
   either pass or do not. *)
ProxyValidate(l) ==
    /\ proxy = Idle /\ acts < MaxActs
    /\ login[l].step = "in"
    /\ acts' = acts + 1
    /\ \E isAuthorizedTenant, csrf \in BOOLEAN :
          proxy' = IF resolve_session(l) /\ isAuthorizedTenant /\ roleSatisfies(acct.role) /\ csrf
                   THEN [step |-> "granted", by |-> l, status |-> acct.status, role |-> acct.role,
                         epoch |-> epoch, at |-> time]
                   ELSE Idle
    /\ UNCHANGED <<acct, sessions, login, admin, time, commands, epoch, strikes, overlapped, trespass>>

(* Nothing changed for the account between the two requests. *)
Steady == proxy.epoch = epoch /\ proxy.role = acct.role
          /\ proxy.status = acct.status /\ proxy.at = time

ProxyForward ==
    /\ proxy.step = "granted"
    /\ LET s == sessions[proxy.by]
           Entitled == /\ Current(s) /\ s.expires > time
                       /\ acct.status = "ACTIVE" /\ acct.role # "VIEWER"
       IN  trespass' = (trespass \/ (Steady /\ ~Entitled))
    /\ proxy' = Idle
    /\ UNCHANGED <<acct, sessions, login, admin, time, commands, acts, epoch, strikes, overlapped>>

Tick ==
    /\ time < MaxTime /\ time' = time + 1
    /\ UNCHANGED <<acct, sessions, login, admin, proxy, commands, acts, epoch, strikes, overlapped, trespass>>

-----------------------------------------------------------------------------
Next ==
    \/ \E l \in Logins : \/ \E guess \in Passwords : LoginRead(l, guess)
                         \/ LoginRefused(l) \/ WrongPassword(l) \/ Authenticated(l)
                         \/ create_session(l) \/ LoginAudited(l) \/ LoginLost(l)
                         \/ logout(l) \/ ProxyValidate(l)
    \/ \E op \in Ops, pass \in Passwords, role \in {"VIEWER", "OPERATOR"} :
           AdminRead(op, pass, role)
    \/ AdminSelect \/ AdminCommit \/ AdminLost
    \/ ProxyForward \/ Tick

Spec == Init /\ [][Next]_vars

-----------------------------------------------------------------------------
(* Type correctness of the rows and of the three kinds of request. *)
TypeOK ==
    /\ acct \in AppUser /\ acct.failed < MaxFailed
    /\ \A l \in Logins : sessions[l] \in UserSession \cup {NoSession}
    /\ \A l \in Logins : login[l].step \in {"idle", "read", "verified", "created", "in", "ended"}
    /\ admin.step \in {"idle", "read", "selected"}
    /\ proxy.step \in {"idle", "granted"}
    /\ time \in 0..MaxTime /\ commands \in 0..MaxCommands /\ acts \in 0..MaxActs
    /\ epoch \in 0..MaxCommands /\ strikes \in 0..Cardinality(Logins)
    /\ overlapped \in BOOLEAN /\ trespass \in BOOLEAN

(* user_service.py, set_password, set_status and revoke_all_sessions: a
   committed revocation reaches every session, also the ones whose token is
   not handed out yet, and neither an expiry, a lost request nor a later
   enable-user brings one back.  The exception is a session that was stored
   after the select, by a login that had read the account before: that
   revocation misses it, and the next one reaches it. *)
RevocationHolds == \A l \in Logins : resolve_session(l) => Current(sessions[l])

(* user_service.py, authenticate and set_password: as long as no two
   transactions on the account overlap, the stored count is the number of
   wrong passwords since the last success or reset, modulo the lockouts. *)
LockoutCounts == ~overlapped => acct.failed = strikes % MaxFailed

(* The web proxy with auth.py, session_info: unless the account changed or
   time passed between validation and forwarding, a request reaches the
   backend only for an active account with an operator's role and a session
   no revocation has ended. *)
OnlyEntitledAct == ~trespass
=============================================================================
