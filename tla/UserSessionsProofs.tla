-------------------------- MODULE UserSessionsProofs --------------------------
(***************************************************************************)
(* Proofs about UserSessions for every finite set of logins, every         *)
(* lockout threshold, lockout and session lifetime, and any number of      *)
(* administrator's commands and proxied requests.                          *)
(***************************************************************************)
EXTENDS UserSessions, FiniteSetTheorems, TLAPS

-----------------------------------------------------------------------------
(* The inductive invariants.                                                *)

\* Rows of the account, as stored or as loaded and changed by a request.
RowType == {r \in AppUser : r.failed < MaxFailed}

LoginStates ==
    [step : {"idle"}]
      \cup [step : {"read"}, row : RowType, guess : Passwords, now : Nat]
      \cup [step : {"verified", "created", "in", "ended"}]

AdminStates ==
    [step : {"idle"}]
      \cup [step : {"read"}, op : Ops, row : RowType, mem : RowType]
      \cup [step : {"selected"}, op : Revoking, row : RowType, mem : RowType,
            picked : SUBSET Logins]

ProxyStates ==
    [step : {"idle"}]
      \cup [step : {"granted"}, by : Logins, status : {"ACTIVE", "DISABLED"},
            role : {Roles[i] : i \in DOMAIN Roles}, epoch : Nat, at : Nat]

\* Logins that are over; each of them brought at most one wrong password.
EndedLogins == {l \in Logins : login[l].step = "ended"}

\* What TypeOK says, with the records the requests keep.
Shape ==
    /\ acct \in RowType
    /\ sessions \in [Logins -> UserSession \cup {NoSession}]
    /\ login \in [Logins -> LoginStates]
    /\ admin \in AdminStates
    /\ proxy \in ProxyStates
    /\ time \in 0..MaxTime /\ acts \in 0..MaxActs
    /\ commands \in 0..MaxCommands /\ epoch \in Nat
    /\ epoch + (IF admin.step = "idle" THEN 0 ELSE 1) <= commands
    /\ strikes \in Nat /\ strikes <= Cardinality(EndedLogins)
    /\ overlapped \in BOOLEAN /\ trespass \in BOOLEAN
    /\ \A l \in Logins : login[l].step \in {"created", "in"} => sessions[l] # NoSession
    /\ admin.step = "selected" => \A l \in admin.picked : sessions[l] # NoSession

\* A session that was not revoked is of the present epoch or missed the select
\* of its revocation, and one under way has selected it or is missing it.
Reached ==
    \A l \in Logins :
        sessions[l] # NoSession /\ ~sessions[l].revoked =>
            /\ Current(sessions[l])
            /\ admin.step = "selected" => l \in admin.picked \/ sessions[l].raced = commands

\* What was true when the proxy validated the token is on record.
Granted ==
    proxy.step = "granted" =>
        LET s == sessions[proxy.by] IN
        /\ s # NoSession /\ login[proxy.by].step \in {"in", "ended"}
        /\ proxy.epoch \in {s.epoch, s.raced}
        /\ s.expires > proxy.at
        /\ proxy.status = "ACTIVE" /\ proxy.role # "VIEWER"

AccessInv == Shape /\ Reached /\ Granted

\* While no two transactions on the account have overlapped, the one that is
\* under way has the account as it is stored.
Alone ==
    ~overlapped =>
        /\ \A l \in Logins : login[l].step = "read" =>
               /\ login[l].row = acct /\ admin.step = "idle"
               /\ \A m \in Logins : login[m].step = "read" => m = l
        /\ admin.step # "idle" =>
               /\ admin.row = acct
               /\ admin.mem.failed = IF admin.op = "reset-password" THEN 0 ELSE acct.failed

LockoutInv == Shape /\ Alone /\ LockoutCounts

-----------------------------------------------------------------------------
(* Rows and records.                                                        *)

\* The constants, one by one.
LEMMA Limits ==
    /\ MaxFailed \in Nat /\ MaxFailed > 0 /\ Lockout \in Nat /\ SessionTTL \in Nat
    /\ SessionTTL > 0 /\ MaxTime \in Nat /\ MaxCommands \in Nat /\ MaxActs \in Nat
BY UsersAssumption

\* The columns of an account row.
LEMMA RowFields ==
    ASSUME NEW r \in RowType
    PROVE  /\ r.pass \in Passwords /\ r.failed \in Nat /\ r.failed < MaxFailed /\ r.locked \in Nat
           /\ r.status \in {"ACTIVE", "DISABLED"} /\ r.role \in {Roles[i] : i \in DOMAIN Roles}
BY DEF RowType, AppUser

\* A flush of a row that was read earlier leaves an account row, whatever was
\* committed in between.
LEMMA FlushedRow ==
    ASSUME NEW a \in RowType, NEW m \in RowType, NEW b \in RowType
    PROVE  /\ Flush(a, m, b) \in RowType
           /\ Flush(a, m, b).failed = IF m.failed = b.failed THEN a.failed ELSE m.failed
<1> DEFINE c == Flush(a, m, b)
           k(f) == IF m[f] = b[f] THEN a[f] ELSE m[f]
<1>1. c = [pass |-> k("pass"), failed |-> k("failed"), locked |-> k("locked"),
           status |-> k("status"), role |-> k("role")]
  BY DEF Flush, RowType, AppUser
<1>2. /\ k("pass") \in Passwords /\ k("failed") \in Nat /\ k("failed") < MaxFailed
      /\ k("locked") \in Nat /\ k("status") \in {"ACTIVE", "DISABLED"}
      /\ k("role") \in {Roles[i] : i \in DOMAIN Roles}
  BY RowFields
<1> HIDE DEF c, k
<1>3. c \in RowType /\ c.failed = k("failed")
  BY <1>1, <1>2 DEF RowType, AppUser
<1> QED BY <1>3 DEF c, k

\* A wrong password counts, or starts a lockout and the count anew.
LEMMA StruckRow ==
    ASSUME NEW r \in RowType, NEW at \in Nat
    PROVE  /\ Struck(r, at) \in RowType
           /\ Struck(r, at).failed = IF r.failed + 1 >= MaxFailed THEN 0 ELSE r.failed + 1
<1>1. r \in AppUser /\ r.failed \in Nat /\ r.failed < MaxFailed
  BY DEF RowType, AppUser
<1>2. CASE r.failed + 1 >= MaxFailed
  <2>1. at + Lockout \in Nat
    BY Limits
  <2> QED BY <1>1, <1>2, <2>1, Limits DEF Struck, RowType, AppUser
<1>3. CASE ~(r.failed + 1 >= MaxFailed)
  BY <1>1, <1>3, Limits DEF Struck, RowType, AppUser
<1> QED BY <1>2, <1>3

\* A right password clears count and lock.
LEMMA ClearedRow ==
    ASSUME NEW r \in RowType
    PROVE  Cleared(r) \in RowType /\ Cleared(r).failed = 0
BY Limits DEF Cleared, RowType, AppUser

\* A command's edit leaves an account row; only a password reset touches the
\* count.
LEMMA EditedRow ==
    ASSUME NEW r \in RowType, NEW op \in Ops, NEW pass \in Passwords,
           NEW role \in {"VIEWER", "OPERATOR"}
    PROVE  /\ Edited(r, op, pass, role) \in RowType
           /\ Edited(r, op, pass, role).failed = IF op = "reset-password" THEN 0 ELSE r.failed
<1> USE Limits
<1>0. role \in {Roles[i] : i \in DOMAIN Roles}
  BY DEF Roles
<1>1. CASE op = "reset-password"
  BY <1>1 DEF Edited, RowType, AppUser
<1>2. CASE op = "disable-user"
  BY <1>2 DEF Edited, RowType, AppUser
<1>3. CASE op = "enable-user"
  BY <1>3 DEF Edited, RowType, AppUser
<1>4. CASE op = "set-role"
  BY <1>0, <1>4 DEF Edited, RowType, AppUser
<1>5. CASE op = "revoke-sessions"
  BY <1>5 DEF Edited
<1> QED BY <1>1, <1>2, <1>3, <1>4, <1>5 DEF Ops

\* What a login request keeps at each step.
LEMMA LoginFields ==
    ASSUME NEW d \in LoginStates
    PROVE  /\ d.step \in {"idle", "read", "verified", "created", "in", "ended"}
           /\ d.step = "idle" <=> d = Idle
           /\ d.step = "read" => /\ d.row \in RowType /\ d.guess \in Passwords
                                 /\ d.now \in Nat
BY DEF LoginStates, Idle

\* What the administrator's command keeps at each step.
LEMMA AdminFields ==
    ASSUME NEW d \in AdminStates
    PROVE  /\ d.step \in {"idle", "read", "selected"}
           /\ d.step = "idle" <=> d = Idle
           /\ d.step # "idle" => d.op \in Ops /\ d.row \in RowType /\ d.mem \in RowType
           /\ d.step = "selected" => d.op \in Revoking /\ d.picked \in SUBSET Logins
BY DEF AdminStates, Idle, Ops, Revoking

\* What the proxy keeps between its two requests.
LEMMA ProxyFields ==
    ASSUME NEW d \in ProxyStates
    PROVE  /\ d.step \in {"idle", "granted"}
           /\ d.step = "idle" <=> d = Idle
           /\ d.step = "granted" => /\ d.by \in Logins /\ d.epoch \in Nat /\ d.at \in Nat
                                    /\ d.status \in {"ACTIVE", "DISABLED"}
BY DEF ProxyStates, Idle

\* A session row is told apart from no session.
LEMMA SessionFields ==
    ASSUME NEW s \in UserSession
    PROVE  /\ s # NoSession /\ s.expires \in Nat /\ s.revoked \in BOOLEAN
           /\ s.epoch \in Nat /\ s.raced \in Nat
           /\ [s EXCEPT !.revoked = TRUE] \in UserSession
<1>1. "expires" \in DOMAIN s
  BY DEF UserSession
<1>2. "expires" \notin DOMAIN NoSession
  BY DEF NoSession
<1> QED BY <1>1, <1>2 DEF UserSession
-----------------------------------------------------------------------------
(* Types.                                                                   *)

\* A step of one login: no ended login comes back, so that the number of ended
\* logins never falls, and grows when this one ends.
LEMMA LoginMoves ==
    ASSUME Shape, NEW l \in Logins, NEW d \in LoginStates, login[l].step # "ended",
           login' = [login EXCEPT ![l] = d]
    PROVE  /\ login' \in [Logins -> LoginStates] /\ login'[l] = d
           /\ \A m \in Logins : m # l => login'[m] = login[m]
           /\ Cardinality(EndedLogins') \in Nat /\ Cardinality(EndedLogins) \in Nat
           /\ Cardinality(EndedLogins') =
                Cardinality(EndedLogins) + (IF d.step = "ended" THEN 1 ELSE 0)
<1>1. /\ login' \in [Logins -> LoginStates] /\ login'[l] = d
      /\ \A m \in Logins : m # l => login'[m] = login[m]
  BY DEF Shape
<1>2. IsFiniteSet(EndedLogins)
  BY UsersAssumption, FS_Subset DEF EndedLogins
<1>3. Cardinality(EndedLogins) \in Nat
  BY <1>2, FS_CardinalityType
<1>4. CASE d.step = "ended"
  <2>1. l \notin EndedLogins
    BY DEF EndedLogins
  <2>2. EndedLogins' = EndedLogins \cup {l}
    BY <1>1, <1>4 DEF EndedLogins
  <2>3. Cardinality(EndedLogins \cup {l}) = Cardinality(EndedLogins) + 1
    BY <1>2, <2>1, FS_AddElement
  <2> QED BY <1>1, <1>3, <1>4, <2>2, <2>3
<1>5. CASE d.step # "ended"
  <2>1. EndedLogins' = EndedLogins
    BY <1>1, <1>5 DEF EndedLogins
  <2> QED BY <1>1, <1>3, <1>5, <2>1
<1> QED BY <1>4, <1>5

\* The states a login moves to.
LEMMA LoginTargets ==
    /\ [step |-> "ended"] \in LoginStates /\ [step |-> "created"] \in LoginStates
    /\ [step |-> "in"] \in LoginStates
    /\ [step |-> "verified"] \in LoginStates
    /\ \A r \in RowType, g \in Passwords, n \in Nat :
         [step |-> "read", row |-> r, guess |-> g, now |-> n] \in LoginStates
    /\ Idle \in AdminStates /\ Idle \in ProxyStates
BY DEF LoginStates, AdminStates, ProxyStates, Idle

\* The initial state has the types.
LEMMA ShapeInit == Init => Shape
<1> SUFFICES ASSUME Init PROVE Shape
  OBVIOUS
<1>1. acct \in RowType
  <2>1. "OPERATOR" \in {Roles[i] : i \in DOMAIN Roles}
    BY DEF Roles
  <2> QED BY <2>1, Limits DEF Init, RowType, AppUser
<1>2. \A l \in Logins : login[l].step = "idle"
  BY DEF Init, Idle
<1>3. EndedLogins = {}
  BY <1>2 DEF EndedLogins
<1>4. login \in [Logins -> LoginStates] /\ sessions \in [Logins -> UserSession \cup {NoSession}]
  BY DEF Init, LoginStates, Idle
<1>5. admin \in AdminStates /\ proxy \in ProxyStates /\ admin.step = "idle"
  BY LoginTargets DEF Init, Idle
<1>6. strikes \in Nat /\ strikes <= Cardinality(EndedLogins)
  BY <1>3, FS_EmptySet DEF Init
<1>7. overlapped \in BOOLEAN /\ trespass \in BOOLEAN
  BY DEF Init
<1> QED BY <1>1, <1>2, <1>4, <1>5, <1>6, <1>7, Limits DEF Init, Shape

\* Steps of a login that change neither the account nor the sessions.
LEMMA LoginShape ==
    ASSUME Shape, NEW l \in Logins, NEW d \in LoginStates, login[l].step # "ended",
           login' = [login EXCEPT ![l] = d], d.step = "in" => login[l].step = "created",
           d.step # "created", acct' \in RowType, overlapped' \in BOOLEAN,
           strikes' \in Nat, strikes' <= strikes + (IF d.step = "ended" THEN 1 ELSE 0),
           UNCHANGED <<sessions, admin, proxy, time, commands, acts, epoch, trespass>>
    PROVE  Shape'
<1>1. /\ login' \in [Logins -> LoginStates] /\ login'[l] = d
      /\ \A m \in Logins : m # l => login'[m] = login[m]
      /\ Cardinality(EndedLogins') \in Nat /\ Cardinality(EndedLogins) \in Nat
      /\ Cardinality(EndedLogins') =
           Cardinality(EndedLogins) + (IF d.step = "ended" THEN 1 ELSE 0)
  BY LoginMoves
<1>2. strikes' <= Cardinality(EndedLogins')
  BY <1>1 DEF Shape
<1>3. \A m \in Logins : login'[m].step \in {"created", "in"} => sessions[m] # NoSession
  BY <1>1 DEF Shape
<1> QED BY <1>1, <1>2, <1>3 DEF Shape

\* Every step keeps the types.
LEMMA ShapeStep == Shape /\ [Next]_vars => Shape'
<1> SUFFICES ASSUME Shape, [Next]_vars PROVE Shape'
  OBVIOUS
<1>0. /\ acct \in RowType /\ time \in Nat /\ epoch \in Nat /\ strikes \in Nat
      /\ overlapped \in BOOLEAN /\ \A l \in Logins : login[l] \in LoginStates
  BY Limits DEF Shape
<1>e. ASSUME UNCHANGED login PROVE EndedLogins' = EndedLogins
  BY <1>e DEF EndedLogins
<1>c. Cardinality(EndedLogins) \in Nat
  BY UsersAssumption, FS_Subset, FS_CardinalityType DEF EndedLogins
<1>o. overlapped' = overlapped => overlapped' \in BOOLEAN
  BY <1>0
<1>s. strikes' = strikes => strikes' \in Nat /\ strikes' <= strikes + 0 /\ strikes' <= strikes + 1
  BY <1>0
<1>1. ASSUME NEW l \in Logins, NEW guess \in Passwords, LoginRead(l, guess) PROVE Shape'
  <2> DEFINE d == [step |-> "read", row |-> acct, guess |-> guess, now |-> time]
  <2>1. d \in LoginStates /\ d.step = "read"
    BY <1>0, LoginTargets
  <2>2. login[l].step # "ended" /\ login' = [login EXCEPT ![l] = d]
    BY <1>1 DEF LoginRead, Idle
  <2>3. overlapped' \in BOOLEAN
    BY <1>1 DEF LoginRead
  <2> HIDE DEF d
  <2> QED BY <1>0, <1>1, <1>s, <2>1, <2>2, <2>3, LoginShape DEF LoginRead
<1>2. ASSUME NEW l \in Logins, LoginRefused(l) \/ LoginLost(l) PROVE Shape'
  <2> DEFINE d == [step |-> "ended"]
  <2>1. d \in LoginStates /\ d.step = "ended"
    BY LoginTargets
  <2>2. login[l].step # "ended" /\ login' = [login EXCEPT ![l] = d]
    BY <1>2 DEF LoginRefused, LoginLost, End
  <2>3. UNCHANGED <<acct, sessions, admin, proxy, time, commands, acts, epoch, strikes,
                    overlapped, trespass>>
    BY <1>2 DEF LoginRefused, LoginLost
  <2> HIDE DEF d
  <2> QED BY <1>0, <1>o, <1>s, <2>1, <2>2, <2>3, LoginShape
<1>3. ASSUME NEW l \in Logins, WrongPassword(l) PROVE Shape'
  <2> DEFINE d == [step |-> "ended"]
             r == login[l].row
             n == login[l].now
  <2>1. d \in LoginStates /\ d.step = "ended"
    BY LoginTargets
  <2>2. /\ login[l].step = "read" /\ login' = [login EXCEPT ![l] = d]
        /\ acct' = Flush(acct, Struck(r, n), r) /\ strikes' = strikes + 1
        /\ UNCHANGED <<sessions, admin, proxy, time, commands, acts, epoch, overlapped, trespass>>
    BY <1>3 DEF WrongPassword, End
  <2>3. r \in RowType /\ n \in Nat
    BY <1>0, <2>2, LoginFields
  <2> HIDE DEF d, r, n
  <2>4. acct' \in RowType
    BY <1>0, <2>2, <2>3, StruckRow, FlushedRow
  <2>5. strikes' \in Nat /\ strikes' <= strikes + (IF d.step = "ended" THEN 1 ELSE 0)
    BY <1>0, <2>1, <2>2
  <2> QED BY <1>o, <2>1, <2>2, <2>4, <2>5, LoginShape
<1>4. ASSUME NEW l \in Logins, Authenticated(l) PROVE Shape'
  <2> DEFINE d == [step |-> "verified"]
             r == login[l].row
  <2>1. /\ login[l].step = "read" /\ login' = [login EXCEPT ![l] = d]
        /\ acct' = Flush(acct, Cleared(r), r) /\ strikes' = 0
        /\ UNCHANGED <<sessions, admin, proxy, time, commands, acts, epoch, overlapped, trespass>>
    BY <1>4 DEF Authenticated
  <2>2. r \in RowType
    BY <1>0, <2>1, LoginFields
  <2>3. d \in LoginStates /\ d.step = "verified"
    BY LoginTargets
  <2> HIDE DEF d, r
  <2>4. acct' \in RowType
    BY <1>0, <2>1, <2>2, ClearedRow, FlushedRow
  <2>5. strikes' \in Nat /\ strikes' <= strikes + (IF d.step = "ended" THEN 1 ELSE 0)
    BY <1>0, <2>1, <2>3
  <2> QED BY <1>o, <2>1, <2>3, <2>4, <2>5, LoginShape
<1>5. ASSUME NEW l \in Logins, LoginAudited(l) PROVE Shape'
  <2> DEFINE d == [step |-> "in"]
  <2>1. d \in LoginStates /\ d.step = "in"
    BY LoginTargets
  <2>2. /\ login[l].step = "created" /\ login' = [login EXCEPT ![l] = d]
        /\ UNCHANGED <<acct, sessions, admin, proxy, time, commands, acts, epoch, strikes,
                       overlapped, trespass>>
    BY <1>5 DEF LoginAudited
  <2> HIDE DEF d
  <2> QED BY <1>0, <1>o, <1>s, <2>1, <2>2, LoginShape
<1>6. ASSUME NEW l \in Logins, create_session(l) PROVE Shape'
  <2> DEFINE d == [step |-> "created"]
             s == [expires |-> time + SessionTTL, revoked |-> FALSE,
                   epoch |-> epoch, raced |-> Selected]
  <2>1. /\ login[l].step = "verified" /\ login' = [login EXCEPT ![l] = d]
        /\ sessions' = [sessions EXCEPT ![l] = s]
        /\ UNCHANGED <<acct, admin, proxy, time, commands, acts, epoch, strikes, overlapped, trespass>>
    BY <1>6 DEF create_session
  <2>2. d \in LoginStates /\ d.step = "created"
    BY LoginTargets
  <2>3. s \in UserSession
    <3>1. epoch \in Nat /\ time + SessionTTL \in Nat
      BY <1>0, Limits
    <3>2. Selected \in Nat
      BY Limits DEF Selected, Shape
    <3> QED BY <3>1, <3>2 DEF UserSession
  <2> HIDE DEF d, s
  <2>4. s # NoSession
    BY <2>3, SessionFields
  <2>5. /\ login' \in [Logins -> LoginStates]
        /\ \A m \in Logins : m # l => login'[m] = login[m]
        /\ Cardinality(EndedLogins') = Cardinality(EndedLogins) + 0
        /\ Cardinality(EndedLogins) \in Nat
    BY <2>1, <2>2, LoginMoves
  <2>6. /\ sessions' \in [Logins -> UserSession \cup {NoSession}] /\ sessions'[l] # NoSession
        /\ \A m \in Logins : m # l => sessions'[m] = sessions[m]
    BY <2>1, <2>3, <2>4 DEF Shape
  <2>7. Cardinality(EndedLogins') = Cardinality(EndedLogins)
    BY <2>5
  <2> QED BY <2>1, <2>5, <2>6, <2>7 DEF Shape
<1>7. ASSUME NEW l \in Logins, logout(l) PROVE Shape'
  <2> DEFINE d == [step |-> "ended"]
             s == [sessions[l] EXCEPT !.revoked = TRUE]
  <2>1. /\ login[l].step = "in" /\ login' = [login EXCEPT ![l] = d]
        /\ sessions' = [sessions EXCEPT ![l] = s]
        /\ UNCHANGED <<acct, admin, proxy, time, commands, acts, epoch, strikes, overlapped, trespass>>
    BY <1>7 DEF logout, End
  <2>2. d \in LoginStates /\ d.step = "ended"
    BY LoginTargets
  <2>3. s \in UserSession
    BY <2>1, SessionFields DEF Shape
  <2> HIDE DEF d, s
  <2>4. s # NoSession
    BY <2>3, SessionFields
  <2>5. /\ login' \in [Logins -> LoginStates]
        /\ \A m \in Logins : m # l => login'[m] = login[m]
        /\ Cardinality(EndedLogins') = Cardinality(EndedLogins) + 1
        /\ Cardinality(EndedLogins) \in Nat
    BY <2>1, <2>2, LoginMoves
  <2>6. /\ sessions' \in [Logins -> UserSession \cup {NoSession}] /\ sessions'[l] # NoSession
        /\ \A m \in Logins : m # l => sessions'[m] = sessions[m]
    BY <2>1, <2>3, <2>4 DEF Shape
  <2>7. strikes <= Cardinality(EndedLogins')
    BY <1>0, <2>5 DEF Shape
  <2> QED BY <2>1, <2>5, <2>6, <2>7 DEF Shape
<1>8. ASSUME NEW l \in Logins, ProxyValidate(l) PROVE Shape'
  <2>1. acts' \in 0..MaxActs
    BY <1>8, Limits DEF ProxyValidate, Shape
  <2>2. proxy' \in ProxyStates
    <3>1. acct.status \in {"ACTIVE", "DISABLED"} /\ acct.role \in {Roles[i] : i \in DOMAIN Roles}
      BY <1>0, RowFields
    <3>2. [step |-> "granted", by |-> l, status |-> acct.status, role |-> acct.role,
           epoch |-> epoch, at |-> time] \in ProxyStates
      BY <1>0, <3>1 DEF ProxyStates
    <3> QED BY <1>8, <3>2, LoginTargets DEF ProxyValidate
  <2> QED BY <1>8, <1>e, <2>1, <2>2 DEF ProxyValidate, Shape
<1>9. ASSUME NEW op \in Ops, NEW pass \in Passwords, NEW role \in {"VIEWER", "OPERATOR"},
             AdminRead(op, pass, role)
      PROVE  Shape'
  <2> DEFINE d == [step |-> "read", op |-> op, row |-> acct, mem |-> Edited(acct, op, pass, role)]
  <2>1. /\ admin = Idle /\ admin' = d /\ commands < MaxCommands /\ commands' = commands + 1
        /\ overlapped' \in BOOLEAN
        /\ UNCHANGED <<acct, sessions, login, proxy, time, acts, epoch, strikes, trespass>>
    BY <1>9 DEF AdminRead
  <2>2. d \in AdminStates /\ d.step = "read"
    BY <1>0, EditedRow DEF AdminStates
  <2> HIDE DEF d
  <2>3. commands' \in 0..MaxCommands /\ epoch + 1 <= commands'
    BY <1>0, <2>1, Limits DEF Shape, Idle
  <2> QED BY <1>e, <2>1, <2>2, <2>3 DEF Shape
<1>10. CASE AdminSelect
  <2>1. /\ admin.step = "read" /\ admin.op \in Revoking /\ admin'.step = "selected"
        /\ admin'.picked = revoke_all_sessions
        /\ UNCHANGED <<acct, sessions, login, proxy, time, commands, acts, epoch, strikes,
                       overlapped, trespass>>
    BY <1>10 DEF AdminSelect
  <2>2. admin.row \in RowType /\ admin.mem \in RowType
    BY <2>1, AdminFields DEF Shape
  <2>3. revoke_all_sessions \in SUBSET Logins
        /\ \A l \in revoke_all_sessions : sessions[l] # NoSession
    BY DEF revoke_all_sessions
  <2>4. admin' \in AdminStates
    BY <1>10, <2>1, <2>2, <2>3 DEF AdminSelect, AdminStates
  <2> QED BY <1>e, <2>1, <2>3, <2>4 DEF Shape
<1>11. CASE AdminCommit
  <2>1. /\ admin # Idle /\ admin' = Idle
        /\ acct' = Flush(acct, admin.mem, admin.row)
        /\ sessions' = [l \in Logins |-> IF l \in Picked THEN [sessions[l] EXCEPT !.revoked = TRUE]
                                         ELSE sessions[l]]
        /\ epoch' \in {epoch, commands} /\ strikes' \in {0, strikes}
        /\ UNCHANGED <<login, proxy, time, commands, acts, overlapped, trespass>>
    BY <1>11 DEF AdminCommit
  <2>2. /\ admin.step # "idle" /\ admin.row \in RowType /\ admin.mem \in RowType
        /\ \A l \in Picked : l \in Logins /\ sessions[l] # NoSession
    <3>1. /\ admin.step # "idle" /\ admin.row \in RowType /\ admin.mem \in RowType
          /\ admin.step = "selected" => admin.picked \subseteq Logins
      BY <2>1, AdminFields DEF Shape
    <3> QED BY <1>11, <3>1 DEF AdminCommit, Picked, Shape
  <2>3. acct' \in RowType
    BY <1>0, <2>1, <2>2, FlushedRow
  <2>4. /\ sessions' \in [Logins -> UserSession \cup {NoSession}]
        /\ \A l \in Logins : sessions[l] # NoSession => sessions'[l] # NoSession
    <3>1. ASSUME NEW l \in Logins, sessions[l] # NoSession
          PROVE  [sessions[l] EXCEPT !.revoked = TRUE] \in UserSession
      BY <3>1, SessionFields DEF Shape
    <3>2. \A l \in Logins : /\ sessions'[l] \in UserSession \cup {NoSession}
                            /\ sessions[l] # NoSession => sessions'[l] # NoSession
      BY <2>1, <2>2, <3>1, SessionFields DEF Shape
    <3> QED BY <2>1, <3>2
  <2>5. epoch' \in Nat /\ epoch' + 0 <= commands /\ commands \in Nat
    BY <1>0, <2>1, <2>2, Limits DEF Shape
  <2>6. strikes' \in Nat /\ strikes' <= Cardinality(EndedLogins)
    BY <1>0, <1>c, <2>1 DEF Shape
  <2>7. admin' \in AdminStates /\ admin'.step = "idle"
    BY <2>1, LoginTargets DEF Idle
  <2> QED BY <1>e, <2>1, <2>3, <2>4, <2>5, <2>6, <2>7 DEF Shape
<1>12. CASE AdminLost
  <2>1. admin' \in AdminStates /\ admin'.step = "idle"
    BY <1>12, LoginTargets DEF AdminLost, Idle
  <2>2. epoch + 0 <= commands
    BY <1>0, Limits DEF Shape
  <2> QED BY <1>12, <1>e, <2>1, <2>2 DEF AdminLost, Shape
<1>13. CASE ProxyForward
  <2>1. proxy' \in ProxyStates /\ trespass' \in BOOLEAN
    BY <1>13, LoginTargets DEF ProxyForward
  <2> QED BY <1>13, <1>e, <2>1 DEF ProxyForward, Shape
<1>14. CASE Tick
  <2>1. time' \in 0..MaxTime
    BY <1>0, <1>14, Limits DEF Tick
  <2> QED BY <1>14, <1>e, <2>1 DEF Tick, Shape
<1>15. CASE UNCHANGED vars
  BY <1>15, <1>e DEF vars, Shape
<1> QED BY <1>1, <1>2, <1>3, <1>4, <1>5, <1>6, <1>7, <1>8, <1>9, <1>10, <1>11, <1>12, <1>13,
           <1>14, <1>15 DEF Next

\* Type correctness for every instance.  In particular the failure count stays
\* under MAX_FAILED_LOGINS although logins and commands flush rows they read
\* before others committed.
THEOREM TypeInvariant == Spec => []TypeOK
<1>1. Shape => TypeOK
  <2> SUFFICES ASSUME Shape PROVE TypeOK
    OBVIOUS
  <2>1. acct \in AppUser /\ acct.failed < MaxFailed
    BY DEF Shape, RowType
  <2>2. \A l \in Logins : login[l].step \in {"idle", "read", "verified", "created", "in", "ended"}
    BY LoginFields DEF Shape
  <2>3. admin.step \in {"idle", "read", "selected"} /\ proxy.step \in {"idle", "granted"}
    BY AdminFields, ProxyFields DEF Shape
  <2>4. epoch \in 0..MaxCommands
    BY Limits DEF Shape
  <2>5. strikes \in 0..Cardinality(Logins)
    <3>1. /\ Cardinality(EndedLogins) \in Nat /\ Cardinality(Logins) \in Nat
          /\ Cardinality(EndedLogins) <= Cardinality(Logins)
      BY UsersAssumption, FS_Subset, FS_CardinalityType DEF EndedLogins
    <3>2. strikes \in Nat /\ strikes <= Cardinality(EndedLogins)
      BY DEF Shape
    <3> QED BY <3>1, <3>2
  <2> QED BY <2>1, <2>2, <2>3, <2>4, <2>5 DEF Shape, TypeOK
<1> QED BY <1>1, ShapeInit, ShapeStep, PTL DEF Spec
-----------------------------------------------------------------------------
(* Sessions, revocations and the proxy.                                     *)

\* Session l keeps its origin: it is there afterwards with the epoch and the
\* expiry it was created with, and can only have become revoked.
KeptSession(l) ==
    /\ sessions[l] # NoSession
    /\ sessions'[l] # NoSession
    /\ sessions'[l].epoch = sessions[l].epoch
    /\ sessions'[l].raced = sessions[l].raced
    /\ sessions'[l].expires = sessions[l].expires
    /\ sessions[l].revoked => sessions'[l].revoked

\* Revoking a session keeps its origin.
LEMMA RevokedSession ==
    ASSUME NEW s \in UserSession
    PROVE  LET r == [s EXCEPT !.revoked = TRUE] IN
           r.revoked /\ r.epoch = s.epoch /\ r.raced = s.raced /\ r.expires = s.expires
BY DEF UserSession

\* What one step can do to the sessions: create the one of a verified login,
\* revoke, or nothing.
LEMMA SessionsWritten ==
    ASSUME Shape, [Next]_vars, NEW l \in Logins
    PROVE  \/ sessions'[l] = sessions[l]
           \/ create_session(l)
           \/ KeptSession(l) /\ sessions'[l].revoked
<1>0. /\ sessions \in [Logins -> UserSession \cup {NoSession}]
      /\ \A m \in Logins : login[m].step = "in" => sessions[m] # NoSession
  BY DEF Shape
<1>1. ASSUME sessions[l] # NoSession, sessions'[l] = [sessions[l] EXCEPT !.revoked = TRUE]
      PROVE  KeptSession(l) /\ sessions'[l].revoked
  <2>1. sessions[l] \in UserSession
    BY <1>0, <1>1
  <2>2. sessions'[l] \in UserSession
    BY <1>1, <2>1, SessionFields
  <2>3. /\ sessions'[l].revoked /\ sessions'[l].epoch = sessions[l].epoch
        /\ sessions'[l].raced = sessions[l].raced /\ sessions'[l].expires = sessions[l].expires
    BY <1>1, <2>1, RevokedSession
  <2>4. sessions'[l] # NoSession
    BY <2>2, SessionFields
  <2> QED BY <1>1, <2>3, <2>4 DEF KeptSession
<1>2. ASSUME NEW m \in Logins, create_session(m) PROVE sessions'[l] = sessions[l] \/ create_session(l)
  BY <1>0, <1>2 DEF create_session
<1>3. ASSUME NEW m \in Logins, logout(m)
      PROVE  sessions'[l] = sessions[l] \/ (KeptSession(l) /\ sessions'[l].revoked)
  <2>1. m # l => sessions'[l] = sessions[l]
    BY <1>0, <1>3 DEF logout
  <2>2. m = l => sessions[l] # NoSession /\ sessions'[l] = [sessions[l] EXCEPT !.revoked = TRUE]
    BY <1>0, <1>3 DEF logout
  <2> QED BY <1>1, <2>1, <2>2
<1>4. ASSUME AdminCommit
      PROVE  sessions'[l] = sessions[l] \/ (KeptSession(l) /\ sessions'[l].revoked)
  <2>1. sessions'[l] = IF l \in Picked THEN [sessions[l] EXCEPT !.revoked = TRUE] ELSE sessions[l]
    BY <1>4 DEF AdminCommit
  <2>2. l \in Picked => sessions[l] # NoSession
    BY <1>4 DEF AdminCommit, Picked, Shape
  <2> QED BY <1>1, <2>1, <2>2
<1>5. ASSUME NEW m \in Logins,
             \/ \E guess \in Passwords : LoginRead(m, guess)
             \/ LoginRefused(m) \/ WrongPassword(m) \/ Authenticated(m) \/ LoginAudited(m)
             \/ LoginLost(m) \/ ProxyValidate(m)
      PROVE  sessions' = sessions
  BY <1>5 DEF LoginRead, LoginRefused, WrongPassword, Authenticated, LoginAudited, LoginLost,
     ProxyValidate
<1>6. ASSUME \/ \E op \in Ops, pass \in Passwords, role \in {"VIEWER", "OPERATOR"} :
                    AdminRead(op, pass, role)
             \/ AdminSelect \/ AdminLost \/ ProxyForward \/ Tick \/ UNCHANGED vars
      PROVE  sessions' = sessions
  BY <1>6 DEF AdminRead, AdminSelect, AdminLost, ProxyForward, Tick, vars
<1> QED BY <1>2, <1>3, <1>4, <1>5, <1>6 DEF Next

\* A revocation commits only over the sessions it selected, and everything
\* else leaves the epoch and the selection alone.
LEMMA SelectionStep ==
    ASSUME Shape, [Next]_vars
    PROVE  \/ AdminCommit /\ admin.step = "selected" /\ admin'.step = "idle" /\ epoch' = commands
                /\ (\A l \in Logins : sessions'[l] = IF l \in admin.picked
                                            THEN [sessions[l] EXCEPT !.revoked = TRUE]
                                            ELSE sessions[l])
           \/ /\ epoch' = epoch
              /\ admin'.step = "selected" =>
                   AdminSelect \/ (admin' = admin /\ commands' = commands)
<1>0. admin \in AdminStates
  BY DEF Shape
<1>1. CASE AdminCommit
  <2>1. CASE admin.op \in Revoking
    BY <1>1, <2>1 DEF AdminCommit, Picked, Idle
  <2>2. CASE admin.op \notin Revoking
    BY <1>1, <2>2 DEF AdminCommit, Idle
  <2> QED BY <2>1, <2>2
<1>2. CASE AdminSelect
  BY <1>2 DEF AdminSelect
<1>3. CASE \/ \E op \in Ops, pass \in Passwords, role \in {"VIEWER", "OPERATOR"} :
                   AdminRead(op, pass, role)
           \/ AdminLost
  BY <1>3 DEF AdminRead, AdminLost, Idle
<1>4. CASE ProxyForward \/ Tick \/ UNCHANGED vars
  BY <1>4 DEF ProxyForward, Tick, vars
<1>5. ASSUME NEW m \in Logins,
             \/ \E guess \in Passwords : LoginRead(m, guess)
             \/ LoginRefused(m) \/ WrongPassword(m) \/ Authenticated(m) \/ LoginAudited(m)
             \/ LoginLost(m) \/ ProxyValidate(m) \/ create_session(m) \/ logout(m)
      PROVE  epoch' = epoch /\ admin' = admin /\ commands' = commands
  BY <1>5 DEF LoginRead, LoginRefused, WrongPassword, Authenticated, LoginAudited, LoginLost,
     ProxyValidate, create_session, logout
<1> QED BY <1>1, <1>2, <1>3, <1>4, <1>5 DEF Next

\* Every step keeps revocations complete: a session created after the select
\* names the command that misses it, and one created before it is selected.
LEMMA ReachedStep == ASSUME Shape, Reached, [Next]_vars PROVE Reached'
<1> SUFFICES ASSUME NEW l \in Logins, sessions'[l] # NoSession, ~sessions'[l].revoked
             PROVE  /\ epoch' \in {sessions'[l].epoch, sessions'[l].raced}
                    /\ admin'.step = "selected" => l \in admin'.picked \/ sessions'[l].raced = commands'
  BY DEF Reached, Current
<1>1. CASE create_session(l)
  <2>1. /\ sessions'[l].epoch = epoch /\ sessions'[l].raced = Selected
        /\ epoch' = epoch /\ admin' = admin /\ commands' = commands
    BY <1>1 DEF create_session, Shape
  <2> QED BY <2>1 DEF Selected
<1>2. CASE sessions'[l] = sessions[l]
  <2>0. /\ sessions[l] # NoSession /\ ~sessions[l].revoked
        /\ epoch \in {sessions[l].epoch, sessions[l].raced}
        /\ admin.step = "selected" => l \in admin.picked \/ sessions[l].raced = commands
    BY <1>2 DEF Reached, Current
  <2>1. CASE /\ AdminCommit /\ admin.step = "selected" /\ admin'.step = "idle" /\ epoch' = commands
             /\ \A m \in Logins : sessions'[m] = IF m \in admin.picked
                                     THEN [sessions[m] EXCEPT !.revoked = TRUE] ELSE sessions[m]
    <3>1. sessions[l] \in UserSession
      BY <2>0 DEF Shape
    <3>2. l \notin admin.picked
      BY <2>1, <3>1, RevokedSession
    <3> QED BY <1>2, <2>0, <2>1, <3>2
  <2>2. CASE /\ epoch' = epoch
             /\ admin'.step = "selected" =>
                  AdminSelect \/ (admin' = admin /\ commands' = commands)
    <3>1. ASSUME AdminSelect PROVE l \in admin'.picked
      BY <2>0, <3>1 DEF AdminSelect, revoke_all_sessions
    <3> QED BY <1>2, <2>0, <2>2, <3>1
  <2> QED BY <2>1, <2>2, SelectionStep
<1> QED BY <1>1, <1>2, SessionsWritten

\* The role comparison of the proxy.
LEMMA OperatorRole ==
    ASSUME NEW role \in {Roles[i] : i \in DOMAIN Roles}, roleSatisfies(role)
    PROVE  role # "VIEWER"
<1>1. RANK("VIEWER") = 1 /\ RANK("OPERATOR") = 2
  <2>1. \A i \in DOMAIN Roles : Roles[i] = "VIEWER" <=> i = 1
    BY DEF Roles
  <2>2. \A i \in DOMAIN Roles : Roles[i] = "OPERATOR" <=> i = 2
    BY DEF Roles
  <2>3. DOMAIN Roles = 1..3
    BY DEF Roles
  <2> QED BY <2>1, <2>2, <2>3 DEF RANK
<1> QED BY <1>1 DEF roleSatisfies

\* Every step keeps the record of the validation true: nothing but another
\* validation can change the origin of the session it names.
LEMMA GrantedStep == ASSUME AccessInv, [Next]_vars PROVE Granted'
<1> USE DEF AccessInv
<1>1. ASSUME NEW l \in Logins, ProxyValidate(l) PROVE Granted'
  <2> SUFFICES ASSUME proxy'.step = "granted" PROVE Granted'
    BY DEF Granted
  <2>1. /\ resolve_session(l) /\ roleSatisfies(acct.role) /\ login[l].step = "in"
        /\ proxy'.by = l /\ proxy'.status = acct.status /\ proxy'.role = acct.role
        /\ proxy'.epoch = epoch /\ proxy'.at = time
        /\ sessions' = sessions /\ login' = login
    BY <1>1 DEF ProxyValidate, Idle
  <2>2. epoch \in {sessions[l].epoch, sessions[l].raced}
    BY <2>1 DEF resolve_session, Reached, Current
  <2>3. acct.role # "VIEWER"
    BY <2>1, RowFields, OperatorRole DEF Shape
  <2> QED BY <2>1, <2>2, <2>3 DEF resolve_session, Granted
<1>2. CASE proxy' = proxy
  <2> SUFFICES ASSUME proxy.step = "granted" PROVE Granted'
    BY <1>2 DEF Granted
  <2> DEFINE l == proxy.by
  <2>1. l \in Logins /\ login[l].step \in {"in", "ended"} /\ sessions[l] # NoSession
    BY ProxyFields DEF Shape, Granted
  <2> HIDE DEF l
  <2>2. sessions'[l] = sessions[l] \/ KeptSession(l)
    BY <2>1, SessionsWritten DEF create_session
  <2>3. login'[l].step \in {"in", "ended"}
    <3>1. ASSUME NEW m \in Logins,
                 \/ \E guess \in Passwords : LoginRead(m, guess)
                 \/ LoginRefused(m) \/ WrongPassword(m) \/ Authenticated(m) \/ LoginAudited(m)
                 \/ LoginLost(m) \/ create_session(m)
          PROVE  login'[l] = login[l]
      <4>1. login[m].step \in {"idle", "read", "verified", "created"}
        <5>1. (\E guess \in Passwords : LoginRead(m, guess)) => login[m].step = "idle"
          BY DEF LoginRead, Idle
        <5>2. LoginLost(m) => login[m].step \in {"read", "verified", "created"}
          BY DEF LoginLost
        <5> QED BY <3>1, <5>1, <5>2 DEF LoginRefused, WrongPassword, Authenticated,
                LoginAudited, create_session
      <4>2. m # l
        BY <2>1, <4>1
      <4>3. \E d : login' = [login EXCEPT ![m] = d]
        BY <3>1 DEF LoginRead, LoginRefused, WrongPassword, Authenticated, LoginAudited,
           LoginLost, create_session, End
      <4> QED BY <2>1, <4>2, <4>3 DEF Shape
    <3>2. ASSUME NEW m \in Logins, logout(m) PROVE login'[l].step \in {"in", "ended"}
      BY <2>1, <3>2 DEF logout, End, Shape
    <3>3. ASSUME NEW m \in Logins, ProxyValidate(m) PROVE login' = login
      BY <3>3 DEF ProxyValidate
    <3>4. ASSUME \/ \E op \in Ops, pass \in Passwords, role \in {"VIEWER", "OPERATOR"} :
                        AdminRead(op, pass, role)
                 \/ AdminSelect \/ AdminCommit \/ AdminLost \/ ProxyForward \/ Tick
                 \/ UNCHANGED vars
          PROVE  login' = login
      BY <3>4 DEF AdminRead, AdminSelect, AdminCommit, AdminLost, ProxyForward, Tick, vars
    <3> QED BY <2>1, <3>1, <3>2, <3>3, <3>4 DEF Next
  <2> QED BY <1>2, <2>1, <2>2, <2>3 DEF Granted, KeptSession, l
<1>3. CASE ProxyForward
  BY <1>3 DEF ProxyForward, Granted, Idle
<1>4. ASSUME NEW m \in Logins,
             \/ \E guess \in Passwords : LoginRead(m, guess)
             \/ LoginRefused(m) \/ WrongPassword(m) \/ Authenticated(m) \/ LoginAudited(m)
             \/ LoginLost(m) \/ create_session(m) \/ logout(m)
      PROVE  proxy' = proxy
  BY <1>4 DEF LoginRead, LoginRefused, WrongPassword, Authenticated, LoginAudited, LoginLost,
     create_session, logout
<1>5. ASSUME \/ \E op \in Ops, pass \in Passwords, role \in {"VIEWER", "OPERATOR"} :
                    AdminRead(op, pass, role)
             \/ AdminSelect \/ AdminCommit \/ AdminLost \/ Tick \/ UNCHANGED vars
      PROVE  proxy' = proxy
  BY <1>5 DEF AdminRead, AdminSelect, AdminCommit, AdminLost, Tick, vars
<1> QED BY <1>1, <1>2, <1>3, <1>4, <1>5 DEF Next

\* The invariant of sessions and proxy holds of every behaviour.
LEMMA AccessInvariant == Spec => []AccessInv
<1>1. Init => AccessInv
  <2> SUFFICES ASSUME Init PROVE AccessInv
    OBVIOUS
  <2>1. Reached /\ Granted
    BY DEF Init, Reached, Granted, Idle
  <2> QED BY <2>1, ShapeInit DEF AccessInv
<1>2. AccessInv /\ [Next]_vars => AccessInv'
  <2> SUFFICES ASSUME AccessInv, [Next]_vars PROVE AccessInv'
    OBVIOUS
  <2> QED BY ShapeStep, ReachedStep, GrantedStep DEF AccessInv
<1> QED BY <1>1, <1>2, PTL DEF Spec

\* Every committed revocation reaches every session of the account, for any
\* number of logins and commands in any order; the one exception is a session
\* stored after its select, which the next revocation reaches.
THEOREM RevocationHoldsAlways == Spec => []RevocationHolds
<1>1. AccessInv => RevocationHolds
  BY DEF AccessInv, Reached, RevocationHolds, resolve_session
<1> QED BY <1>1, AccessInvariant, PTL

\* A request the proxy forwards while nothing changed since it validated the
\* token is one of an active operator with a session no revocation has ended,
\* for any number of logins, commands and requests.
THEOREM OnlyEntitledActAlways == Spec => []OnlyEntitledAct
<1>1. Init => OnlyEntitledAct
  BY DEF Init, OnlyEntitledAct
<1>2. AccessInv /\ OnlyEntitledAct /\ [Next]_vars => OnlyEntitledAct'
  <2> SUFFICES ASSUME AccessInv, ~trespass, [Next]_vars PROVE ~trespass'
    BY DEF OnlyEntitledAct
  <2>1. ASSUME ProxyForward PROVE ~trespass'
    <3> DEFINE s == sessions[proxy.by]
               Entitled == /\ Current(s) /\ s.expires > time
                           /\ acct.status = "ACTIVE" /\ acct.role # "VIEWER"
    <3>1. proxy.step = "granted" /\ trespass' = (trespass \/ (Steady /\ ~Entitled))
      BY <2>1 DEF ProxyForward
    <3>2. Steady => Entitled
      BY <3>1 DEF AccessInv, Granted, Steady, Current
    <3> QED BY <3>1, <3>2
  <2>2. ASSUME NEW m \in Logins,
               \/ \E guess \in Passwords : LoginRead(m, guess)
               \/ LoginRefused(m) \/ WrongPassword(m) \/ Authenticated(m) \/ LoginAudited(m)
               \/ LoginLost(m) \/ create_session(m) \/ logout(m) \/ ProxyValidate(m)
        PROVE  trespass' = trespass
    BY <2>2 DEF LoginRead, LoginRefused, WrongPassword, Authenticated, LoginAudited, LoginLost,
       create_session, logout, ProxyValidate
  <2>3. ASSUME \/ \E op \in Ops, pass \in Passwords, role \in {"VIEWER", "OPERATOR"} :
                      AdminRead(op, pass, role)
               \/ AdminSelect \/ AdminCommit \/ AdminLost \/ Tick \/ UNCHANGED vars
        PROVE  trespass' = trespass
    BY <2>3 DEF AdminRead, AdminSelect, AdminCommit, AdminLost, Tick, vars
  <2> QED BY <2>1, <2>2, <2>3 DEF Next
<1> QED BY <1>1, <1>2, AccessInvariant, PTL DEF Spec
-----------------------------------------------------------------------------
(* The count of wrong passwords.                                            *)

\* Quotient and remainder.
LEMMA Division ==
    ASSUME NEW k \in Nat, NEW M \in Nat \ {0}
    PROVE  k = M * (k \div M) + (k % M) /\ k \div M \in Nat /\ k % M \in 0..(M - 1)
OBVIOUS

\* A multiple of M less than M away from zero is zero.
LEMMA SmallMultiple ==
    ASSUME NEW a \in Int, NEW M \in Nat \ {0}, NEW r \in Int, -M < r, r < M, M * a = r
    PROVE  a = 0
<1>1. CASE a > 0
  <2>1. M * a >= M
    BY <1>1
  <2> QED BY <2>1
<1>2. CASE a < 0
  <2>1. M * a <= -M
    BY <1>2
  <2> QED BY <2>1
<1> QED BY <1>1, <1>2

\* The remainder is the only one.
LEMMA UniqueRemainder ==
    ASSUME NEW k \in Nat, NEW M \in Nat \ {0}, NEW q \in Int, NEW r \in 0..(M - 1), k = M * q + r
    PROVE  k % M = r
<1> DEFINE p == k \div M
           t == k % M
<1>1. k = M * p + t /\ p \in Nat /\ t \in 0..(M - 1)
  BY Division
<1> HIDE DEF p, t
<1>2. M * (p - q) = r - t
  <2>1. M * (p - q) = M * p - M * q
    BY <1>1
  <2> QED BY <1>1, <2>1
<1>3. p - q = 0
  BY <1>1, <1>2, SmallMultiple
<1>4. t = r
  BY ONLY <1>1, <1>2, <1>3, q \in Int, r \in Int, M \in Int
<1> QED BY <1>4 DEF t

\* Counting one more, modulo the lockouts.
LEMMA NextRemainder ==
    ASSUME NEW k \in Nat, NEW M \in Nat \ {0}
    PROVE  (k + 1) % M = IF (k % M) + 1 >= M THEN 0 ELSE (k % M) + 1
<1> DEFINE q == k \div M
           r == k % M
           n == k + 1
<1>0. n \in Nat
  OBVIOUS
<1>1. k = M * q + r /\ q \in Nat /\ r \in 0..(M - 1)
  BY Division
<1> HIDE DEF q, r
<1>2. CASE r + 1 >= M
  <2>1. M * (q + 1) = M * q + M
    BY <1>1
  <2>2. n = M * (q + 1) + 0
    BY <1>1, <1>2, <2>1
  <2>3. 0 \in 0..(M - 1) /\ q + 1 \in Int
    BY <1>1
  <2> HIDE DEF n
  <2>4. n % M = 0
    BY <1>0, <2>2, <2>3, UniqueRemainder
  <2> QED BY <1>2, <2>4 DEF n, r
<1>3. CASE r + 1 < M
  <2>1. n = M * q + (r + 1)
    BY <1>1
  <2>2. r + 1 \in 0..(M - 1) /\ q \in Int
    BY <1>1, <1>3
  <2> HIDE DEF n
  <2>3. n % M = r + 1
    BY <1>0, <2>1, <2>2, UniqueRemainder
  <2> QED BY <1>1, <1>3, <2>3 DEF n, r
<1> QED BY <1>1, <1>2, <1>3

\* No wrong passwords leave no count.
LEMMA ZeroRemainder == 0 % MaxFailed = 0
BY Limits, UniqueRemainder

\* What Alone and LockoutCounts say without their common premise.
Exact ==
    /\ \A l \in Logins : login[l].step = "read" =>
           /\ login[l].row = acct /\ admin.step = "idle"
           /\ \A m \in Logins : login[m].step = "read" => m = l
    /\ admin.step # "idle" =>
           /\ admin.row = acct
           /\ admin.mem.failed = IF admin.op = "reset-password" THEN 0 ELSE acct.failed
    /\ acct.failed = strikes % MaxFailed

\* A login that ends or gets on without a change of the account.
LEMMA ExactLogin ==
    ASSUME Shape, Exact, NEW l \in Logins, NEW d, d.step # "read",
           login' = [login EXCEPT ![l] = d], UNCHANGED <<acct, admin, strikes>>
    PROVE  Exact'
<1>1. \A m \in Logins : login'[m].step = "read" => login'[m] = login[m]
  BY DEF Shape
<1> QED BY <1>1 DEF Exact

\* A login whose account is flushed is alone with it: afterwards none is
\* reading and no command is under way.
LEMMA ExactFlushed ==
    ASSUME Shape, Exact, NEW l \in Logins, login[l].step = "read", NEW d, d.step # "read",
           login' = [login EXCEPT ![l] = d], NEW c \in RowType,
           acct' = Flush(acct, c, login[l].row), admin' = admin,
           c.failed = strikes' % MaxFailed
    PROVE  Exact'
<1>1. login[l].row = acct /\ admin.step = "idle" /\ acct \in RowType
  BY DEF Exact, Shape
<1>2. \A m \in Logins : login'[m].step # "read"
  BY DEF Exact, Shape
<1>3. acct'.failed = c.failed
  BY <1>1, FlushedRow
<1> QED BY <1>1, <1>2, <1>3 DEF Exact

\* Every step that overlaps with no other keeps the count exact.
LEMMA ExactStep == ASSUME Shape, Exact, [Next]_vars, ~overlapped, ~overlapped' PROVE Exact'
<1>0. acct \in RowType /\ strikes \in Nat /\ admin \in AdminStates
      /\ MaxFailed \in Nat \ {0} /\ acct.failed \in Nat
  BY Limits, RowFields DEF Shape
<1>1. ASSUME NEW l \in Logins, NEW guess \in Passwords, LoginRead(l, guess) PROVE Exact'
  <2>1. /\ login'[l].row = acct /\ UNCHANGED <<acct, admin, strikes>>
        /\ \A m \in Logins : m # l => login'[m] = login[m]
    BY <1>1 DEF LoginRead, Shape
  <2>2. admin.step = "idle" /\ \A m \in Logins : login[m].step # "read"
    <3>1. Loading = {} /\ admin = Idle
      BY <1>1, Zenon DEF LoginRead
    <3>2. admin.step = "idle"
      BY <3>1 DEF Idle
    <3> QED BY <3>1, <3>2 DEF Loading
  <2> QED BY <2>1, <2>2 DEF Exact
<1>2. ASSUME NEW l \in Logins,
             LoginRefused(l) \/ LoginLost(l) \/ LoginAudited(l) \/ create_session(l) \/ logout(l)
      PROVE  Exact'
  <2>1. \E d : d.step # "read" /\ login' = [login EXCEPT ![l] = d]
    <3>1. CASE LoginRefused(l) \/ LoginLost(l) \/ logout(l)
      BY <3>1 DEF LoginRefused, LoginLost, logout, End
    <3>2. CASE LoginAudited(l)
      BY <3>2 DEF LoginAudited
    <3>3. CASE create_session(l)
      BY <3>3 DEF create_session
    <3> QED BY <1>2, <3>1, <3>2, <3>3
  <2>2. UNCHANGED <<acct, admin, strikes>>
    BY <1>2 DEF LoginRefused, LoginLost, LoginAudited, create_session, logout
  <2> QED BY <2>1, <2>2, ExactLogin
<1>3. ASSUME NEW l \in Logins, WrongPassword(l) PROVE Exact'
  <2> DEFINE d == [step |-> "ended"]
             r == login[l].row
             n == login[l].now
             c == Struck(r, n)
  <2>1. /\ login[l].step = "read" /\ login' = [login EXCEPT ![l] = d] /\ d.step # "read"
        /\ acct' = Flush(acct, c, r) /\ strikes' = strikes + 1 /\ admin' = admin
    BY <1>3 DEF WrongPassword, End
  <2>2. r = acct /\ r \in RowType /\ n \in Nat
    BY <2>1, LoginFields DEF Exact, Shape
  <2> HIDE DEF d, n
  <2>3. c \in RowType /\ c.failed = IF acct.failed + 1 >= MaxFailed THEN 0 ELSE acct.failed + 1
    BY <2>2, StruckRow
  <2>4. c.failed = strikes' % MaxFailed
    BY <1>0, <2>1, <2>3, NextRemainder DEF Exact
  <2> HIDE DEF c
  <2> QED BY <2>1, <2>3, <2>4, ExactFlushed
<1>4. ASSUME NEW l \in Logins, Authenticated(l) PROVE Exact'
  <2> DEFINE d == [step |-> "verified"]
             c == Cleared(login[l].row)
  <2>1. /\ login[l].step = "read" /\ login' = [login EXCEPT ![l] = d] /\ d.step # "read"
        /\ acct' = Flush(acct, c, login[l].row) /\ strikes' = 0 /\ admin' = admin
    BY <1>4 DEF Authenticated
  <2> HIDE DEF d
  <2>2. c \in RowType /\ c.failed = 0
    BY <2>1, LoginFields, ClearedRow DEF Shape
  <2>3. c.failed = strikes' % MaxFailed
    BY <2>1, <2>2, ZeroRemainder
  <2> HIDE DEF c
  <2> QED BY <2>1, <2>2, <2>3, ExactFlushed
<1>5. ASSUME NEW op \in Ops, NEW pass \in Passwords, NEW role \in {"VIEWER", "OPERATOR"},
             AdminRead(op, pass, role)
      PROVE  Exact'
  <2>1. /\ admin'.row = acct /\ admin'.mem = Edited(acct, op, pass, role) /\ admin'.op = op
        /\ UNCHANGED <<acct, login, strikes>>
    BY <1>5 DEF AdminRead
  <2>2. \A l \in Logins : login[l].step # "read"
    BY <1>5 DEF AdminRead, Loading
  <2>3. admin'.mem.failed = IF op = "reset-password" THEN 0 ELSE acct.failed
    BY <1>0, <2>1, EditedRow
  <2> QED BY <2>1, <2>2, <2>3 DEF Exact
<1>6. CASE AdminSelect
  <2>1. /\ admin.step = "read" /\ admin'.row = admin.row /\ admin'.mem = admin.mem
        /\ admin'.op = admin.op /\ UNCHANGED <<acct, login, strikes>>
    BY <1>6 DEF AdminSelect
  <2>2. \A l \in Logins : login[l].step # "read"
    BY <2>1 DEF Exact
  <2> QED BY <2>1, <2>2 DEF Exact
<1>7. CASE AdminCommit
  <2>1. /\ admin.step # "idle" /\ admin'.step = "idle" /\ login' = login
        /\ acct' = Flush(acct, admin.mem, admin.row)
        /\ strikes' = IF admin.op = "reset-password" THEN 0 ELSE strikes
    BY <1>0, <1>7, AdminFields DEF AdminCommit, Idle
  <2>2. admin.row = acct /\ admin.row \in RowType /\ admin.mem \in RowType
    BY <1>0, <2>1, AdminFields DEF Exact
  <2>3. acct'.failed = admin.mem.failed
    BY <1>0, <2>1, <2>2, FlushedRow
  <2>4. acct'.failed = strikes' % MaxFailed
    BY <2>1, <2>3, ZeroRemainder DEF Exact
  <2>5. \A l \in Logins : login[l].step # "read"
    BY <2>1 DEF Exact
  <2> QED BY <2>1, <2>4, <2>5 DEF Exact
<1>8. CASE AdminLost
  BY <1>8 DEF AdminLost, Exact, Idle
<1>9. ASSUME (\E l \in Logins : ProxyValidate(l)) \/ ProxyForward \/ Tick \/ UNCHANGED vars
      PROVE  Exact'
  BY <1>9 DEF ProxyValidate, ProxyForward, Tick, vars, Exact
<1> QED BY <1>1, <1>2, <1>3, <1>4, <1>5, <1>6, <1>7, <1>8, <1>9 DEF Next

\* Once two transactions on the account have overlapped, this is remembered.
LEMMA OverlapRemembered == ASSUME [Next]_vars, ~overlapped' PROVE ~overlapped
<1>1. ASSUME NEW m \in Logins,
             \/ LoginRefused(m) \/ WrongPassword(m) \/ Authenticated(m) \/ LoginAudited(m)
             \/ LoginLost(m) \/ create_session(m) \/ logout(m) \/ ProxyValidate(m)
      PROVE  overlapped' = overlapped
  BY <1>1 DEF LoginRefused, WrongPassword, Authenticated, LoginAudited, LoginLost,
     create_session, logout, ProxyValidate
<1>2. ASSUME AdminSelect \/ AdminCommit \/ AdminLost \/ ProxyForward \/ Tick \/ UNCHANGED vars
      PROVE  overlapped' = overlapped
  BY <1>2 DEF AdminSelect, AdminCommit, AdminLost, ProxyForward, Tick, vars
<1>3. ASSUME NEW m \in Logins, NEW guess \in Passwords, LoginRead(m, guess) PROVE ~overlapped
  BY <1>3 DEF LoginRead
<1>4. ASSUME NEW op \in Ops, NEW pass \in Passwords, NEW role \in {"VIEWER", "OPERATOR"},
             AdminRead(op, pass, role)
      PROVE  ~overlapped
  BY <1>4 DEF AdminRead
<1> QED BY <1>1, <1>2, <1>3, <1>4 DEF Next

\* As long as no two transactions on the account overlap, the stored count is
\* the number of wrong passwords since the last success or reset modulo the
\* lockouts, for every threshold and any number of logins and commands.
THEOREM LockoutCountsAlways == Spec => []LockoutCounts
<1>1. Init => LockoutInv
  <2> SUFFICES ASSUME Init PROVE LockoutInv
    OBVIOUS
  <2>1. Alone
    BY DEF Init, Alone, Idle
  <2>2. LockoutCounts
    BY ZeroRemainder DEF Init, LockoutCounts
  <2> QED BY <2>1, <2>2, ShapeInit DEF LockoutInv
<1>2. LockoutInv /\ [Next]_vars => LockoutInv'
  <2> SUFFICES ASSUME LockoutInv, [Next]_vars PROVE LockoutInv'
    OBVIOUS
  <2>1. Shape'
    BY ShapeStep DEF LockoutInv
  <2>2. ASSUME ~overlapped' PROVE Exact'
    <3>1. ~overlapped
      BY <2>2, OverlapRemembered
    <3>2. Exact
      BY <3>1 DEF LockoutInv, Alone, LockoutCounts, Exact
    <3> QED BY <2>2, <3>1, <3>2, ExactStep DEF LockoutInv
  <2> QED BY <2>1, <2>2 DEF LockoutInv, Alone, LockoutCounts, Exact
<1>3. LockoutInv => LockoutCounts
  BY DEF LockoutInv
<1> QED BY <1>1, <1>2, <1>3, PTL DEF Spec
=============================================================================
