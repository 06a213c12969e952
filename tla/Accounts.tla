------------------------------ MODULE Accounts ------------------------------
(***************************************************************************)
(* Sign-up, sign-in, sessions and the throttle (api/v1/auth), who is       *)
(* asking (auth/deps), roles and settings (api/v1/admin, settings_store)   *)
(* and the operator's command (cli).                                       *)
(*                                                                         *)
(* An action is what one request does between two of its awaits: it reads, *)
(* then reads what it decides on, then commits.  Others run in between.    *)
(* A refusal that writes nothing ends the request and changes nothing.     *)
(***************************************************************************)
EXTENDS Integers, FiniteSets, SequencesExt

CONSTANTS
    Slots,          \* the requests and commands under way at one time
    Emails,         \* lower-cased, so an account is its email
    Addresses,      \* what _client_ip returns
    Bootstrap,      \* bootstrap_admin_emails
    AttemptLimit,   \* auth_attempts_per_15_minutes
    AttemptWindow,  \* its 15 minutes
    SessionLife,    \* session_ttl_days
    Switches,       \* FeatureFlags
    SomeSettings,   \* bound: the values administrators save for "features"
    SomeRoles,      \* bound: the roles that are given
    FirstRoles,     \* bound: the accounts there may be at first
    Nobody,         \* no account, no row; and the actor of a command
    MaxTime,        \* bound on the clock
    MaxRequests     \* bound on the requests of a behaviour

Roles == {"user", "professional", "admin"}
Time == 0..MaxTime

\* Rows of system_settings for "features".
SettingRows == [value : SUBSET Switches, by : Emails]

Keys == ({"email"} \X Emails) \cup ({"ip"} \X Addresses)

ASSUME AccountsAssumption ==
    /\ IsFiniteSet(Slots) /\ IsFiniteSet(Emails) /\ IsFiniteSet(Addresses)
    /\ Bootstrap \subseteq Emails
    /\ {AttemptLimit, SessionLife, MaxRequests} \subseteq Nat \ {0}
    /\ {AttemptWindow, MaxTime} \subseteq Nat
    /\ "signups" \in Switches
    /\ SomeSettings \subseteq SUBSET Switches
    /\ SomeRoles \subseteq Roles
    /\ FirstRoles \subseteq [Emails -> Roles \cup {Nobody}]
    /\ Nobody \notin Emails \cup Roles \cup SettingRows
    /\ "features" \notin Emails  \* an email has an @

VARIABLES
    now,       \* the time of day
    role,      \* users.role, Nobody where there is no account
    failures,  \* auth_attempts with succeeded = FALSE
    sessions,  \* sessions
    audit,     \* audit_logs, oldest first
    setting,   \* the "features" row of system_settings, Nobody before its first save
    pc,        \* where each request stands
    ask,       \* what it asks for
    seen,      \* the row it decided on
    begun      \* how many requests are under way or have committed

accountTables == <<role, failures, sessions, audit, setting>>
requests == <<pc, ask, seen, begun>>

NoAsk == [who |-> Nobody, keys |-> {}]

Init ==
    /\ now = 0
    /\ role \in FirstRoles
    /\ failures = {}
    /\ sessions = {[user |-> e, until |-> SessionLife, n |-> 0] :
                      e \in {f \in Emails : role[f] # Nobody}}
    /\ audit = <<>>
    /\ setting = Nobody
    /\ pc = [s \in Slots |-> "idle"]
    /\ ask = [s \in Slots |-> NoAsk]
    /\ seen = [s \in Slots |-> Nobody]
    /\ begun = 0

-----------------------------------------------------------------------------
(***************************************************************************)
(* A request is received, reads a row and goes on, and ends.  One that is  *)
(* refused, fails or is cut off after its first read loses its transaction.*)
(***************************************************************************)
Receive(s, where, what) ==
    /\ pc[s] = "idle" /\ begun < MaxRequests
    /\ begun' = begun + 1
    /\ pc' = [pc EXCEPT ![s] = where]
    /\ ask' = [ask EXCEPT ![s] = what]

Proceed(s, here, there, row) ==
    /\ pc[s] = here
    /\ pc' = [pc EXCEPT ![s] = there]
    /\ seen' = [seen EXCEPT ![s] = row]
    /\ UNCHANGED <<now, accountTables, ask, begun>>

Leave(s, here) ==
    /\ pc[s] = here
    /\ pc' = [pc EXCEPT ![s] = "idle"]
    /\ ask' = [ask EXCEPT ![s] = NoAsk]
    /\ seen' = [seen EXCEPT ![s] = Nobody]
    /\ UNCHANGED now

End(s, here) == Leave(s, here) /\ UNCHANGED begun

Abandon(s) ==
    /\ pc[s] # "idle"
    /\ Leave(s, pc[s])
    /\ begun' = begun - 1
    /\ UNCHANGED accountTables

\* A number no other of these rows has: a row's primary key.
Fresh(rows) == CHOOSE n \in 0..Cardinality(rows) : \A row \in rows : row.n # n

-----------------------------------------------------------------------------
(***************************************************************************)
(* _throttle and _record_attempt.                                          *)
(***************************************************************************)
FailuresOf(keys) == {row \in failures : row.key \in keys /\ row.at >= now - AttemptWindow}

\* Mutant: the attempts on the account are counted, not those of the address.
ThrottledByAccount(keys) ==
    Cardinality({row \in FailuresOf(keys) : row.key[1] = "email"}) >= AttemptLimit

Throttled(keys) == Cardinality(FailuresOf(keys)) >= AttemptLimit

Failure(key) ==
    [key |-> key, at |-> now,
     n |-> Fresh({row \in failures : row.key = key /\ row.at = now})]

RecordFailure(s) ==
    /\ failures' = failures \cup {Failure(key) : key \in ask[s].keys}
    /\ UNCHANGED <<role, sessions, audit, setting>>

StartSession(e) ==
    sessions' = sessions \cup
        {[user |-> e, until |-> now + SessionLife,
          n |-> Fresh({row \in sessions : row.user = e})]}

Logged(by, of, from, to) == Append(audit, [by |-> by, of |-> of, from |-> from, to |-> to])

(***************************************************************************)
(* settings_store.load: the row, or the model's defaults (all on).         *)
(***************************************************************************)
SwitchedOn == IF setting = Nobody THEN Switches ELSE setting.value

-----------------------------------------------------------------------------
(***************************************************************************)
(* POST /auth/signup.  The unique email is checked again by the insert.    *)
(***************************************************************************)
Signup(s) ==
    \E e \in Emails, a \in Addresses :
        /\ "signups" \in SwitchedOn
        /\ ~Throttled({<<"ip", a>>})
        /\ Receive(s, "signup", [who |-> e, keys |-> {<<"ip", a>>}])
        /\ UNCHANGED <<now, accountTables, seen>>

LookUpEmail(s) ==
    Proceed(s, "signup", IF role[ask[s].who] = Nobody THEN "new" ELSE "taken", Nobody)

RefuseSignup(s) == End(s, "taken") /\ RecordFailure(s)

CreateAccount(s) ==
    LET e == ask[s].who
        given == IF e \in Bootstrap THEN "admin" ELSE "user"
    IN  /\ End(s, "new")
        /\ role[e] = Nobody
        /\ role' = [role EXCEPT ![e] = given]
        /\ audit' = Logged(e, e, Nobody, given)
        /\ StartSession(e)
        /\ UNCHANGED <<failures, setting>>

(***************************************************************************)
(* POST /auth/login.  A wrong password and a missing account are refused   *)
(* alike; a listed email that signs in is promoted.                        *)
(***************************************************************************)
Login(s) ==
    \E e \in Emails, a \in Addresses, right \in BOOLEAN :
        /\ ~Throttled({<<"email", e>>, <<"ip", a>>})
        /\ Receive(s, "login",
                   [who |-> e, keys |-> {<<"email", e>>, <<"ip", a>>}, right |-> right])
        /\ UNCHANGED <<now, accountTables, seen>>

\* Mutant: an unknown email is compared with the dummy hash, and that is all.
MatchesDummy(e, right) == right

Matches(e, right) == right /\ role[e] # Nobody

VerifyPassword(s) ==
    LET r == ask[s]
    IN  /\ pc[s] = "login"
        /\ Proceed(s, "login", IF Matches(r.who, r.right) THEN "right" ELSE "wrong",
                   role[r.who])

RefuseLogin(s) == End(s, "wrong") /\ RecordFailure(s)

\* Mutant: the promotion writes no audit row.
PromoteUnlogged(e, was) ==
    /\ role' = IF e \in Bootstrap /\ was # "admin" THEN [role EXCEPT ![e] = "admin"] ELSE role
    /\ audit' = audit

Promote(e, was) ==
    IF e \in Bootstrap /\ was # "admin"
    THEN /\ role' = [role EXCEPT ![e] = "admin"]
         /\ audit' = Logged(e, e, was, "admin")
    ELSE UNCHANGED <<role, audit>>

SignIn(s) ==
    /\ End(s, "right")
    /\ Promote(ask[s].who, seen[s])
    /\ StartSession(ask[s].who)
    /\ UNCHANGED <<failures, setting>>

\* POST /auth/logout: one statement.
Logout ==
    /\ \E row \in sessions : sessions' = sessions \ {row}
    /\ UNCHANGED <<now, role, failures, audit, setting, requests>>

-----------------------------------------------------------------------------
(***************************************************************************)
(* auth/deps: a session that has not expired says who asks, and the role   *)
(* is the row's when the request begins.                                   *)
(***************************************************************************)
Authenticated(e) == \E row \in sessions : row.user = e /\ row.until > now

Administrator(e) == Authenticated(e) /\ role[e] = "admin"

(***************************************************************************)
(* PATCH /admin/users/{id}.  An administrator's own row is the object      *)
(* authentication loaded.  The UPDATE is sent only when the new role is    *)
(* not the one that was loaded.                                            *)
(***************************************************************************)
SetRole(s) ==
    \E admin, target \in Emails, to \in SomeRoles :
        /\ Administrator(admin)
        /\ role[target] # Nobody
        /\ Receive(s, "set_role", [who |-> admin, keys |-> {}, target |-> target, to |-> to])
        /\ UNCHANGED <<now, accountTables, seen>>

\* Mutant: administrators may change their own role.
MayGiveAny(admin, target, to) == TRUE

MayGive(admin, target, to) == target = admin => to = "admin"

LoadTarget(s) ==
    LET r == ask[s]
    IN  /\ pc[s] = "set_role"
        /\ MayGive(r.who, r.target, r.to)
        /\ Proceed(s, "set_role", "giving",
                   IF r.target = r.who THEN "admin" ELSE role[r.target])

Give(s, target, to, by) ==
    /\ role' = IF to = seen[s] THEN role ELSE [role EXCEPT ![target] = to]
    /\ audit' = Logged(by, target, seen[s], to)
    /\ UNCHANGED <<failures, sessions, setting>>

WriteRole(s) == End(s, "giving") /\ Give(s, ask[s].target, ask[s].to, ask[s].who)

(***************************************************************************)
(* python -m app.cli grant-role                                            *)
(***************************************************************************)
GrantRole(s) ==
    \E target \in Emails, to \in SomeRoles :
        /\ role[target] # Nobody
        /\ Receive(s, "granting", [who |-> Nobody, keys |-> {}, target |-> target, to |-> to])
        /\ seen' = [seen EXCEPT ![s] = role[target]]
        /\ UNCHANGED <<now, accountTables>>

WriteGrant(s) == End(s, "granting") /\ Give(s, ask[s].target, ask[s].to, Nobody)

(***************************************************************************)
(* PUT /admin/settings/features.  The first save is an insert, which fails *)
(* where another came first; a later one updates the columns that differ   *)
(* from the row that was loaded.                                           *)
(***************************************************************************)
PutSetting(s) ==
    \E admin \in Emails, value \in SomeSettings :
        /\ Administrator(admin)
        /\ Receive(s, "put_setting", [who |-> admin, keys |-> {}, value |-> value])
        /\ UNCHANGED <<now, accountTables, seen>>

LoadSetting(s) == Proceed(s, "put_setting", "saving", setting)

Column(loaded, new, current) == IF new = loaded THEN current ELSE new

SaveSetting(s) ==
    LET r == ask[s]
    IN  /\ End(s, "saving")
        /\ \/ /\ seen[s] = Nobody /\ setting = Nobody
              /\ setting' = [value |-> r.value, by |-> r.who]
           \/ /\ seen[s] # Nobody
              /\ setting' = [value |-> Column(seen[s].value, r.value, setting.value),
                             by |-> Column(seen[s].by, r.who, setting.by)]
        /\ audit' = Logged(r.who, "features", Nobody, Nobody)
        /\ UNCHANGED <<role, failures, sessions>>

Tick ==
    /\ now < MaxTime
    /\ now' = now + 1
    /\ UNCHANGED <<accountTables, requests>>

AccountStep ==
    \/ \E s \in Slots :
          \/ Signup(s) \/ LookUpEmail(s) \/ RefuseSignup(s) \/ CreateAccount(s)
          \/ Login(s) \/ VerifyPassword(s) \/ RefuseLogin(s) \/ SignIn(s)
          \/ SetRole(s) \/ LoadTarget(s) \/ WriteRole(s)
          \/ GrantRole(s) \/ WriteGrant(s)
          \/ PutSetting(s) \/ LoadSetting(s) \/ SaveSetting(s)
          \/ Abandon(s)
    \/ Logout
    \/ Tick

-----------------------------------------------------------------------------
(* Failures are checked before the password and recorded after it, so      *)
(* attempts under way together all count: a key collects at most as many   *)
(* more failures in a window as requests run at one time (_throttle).      *)
AttemptsBounded ==
    \A key \in Keys :
        Cardinality(FailuresOf({key})) <= AttemptLimit - 1 + Cardinality(Slots)

(* No administrator can leave the service without one (set_role refuses a  *)
(* change of one's own role): the last one goes only by the operator's     *)
(* command, or by the request of someone who was demoted meanwhile.        *)
Administrators == {e \in Emails : role[e] = "admin"}

LastAdministratorStays ==
    [][Administrators # {} /\ Administrators' = {} =>
          \E s \in Slots :
              \/ pc[s] = "granting"
              \/ pc[s] = "giving" /\ ask[s].who \notin Administrators]_<<role, pc, ask>>

(* The audit log explains the roles: where an account's rows follow from   *)
(* one another, so that no change was decided on a role that had changed,  *)
(* its role is the one the last row gave.                                  *)
RowsAbout(e) == {i \in DOMAIN audit : audit[i].of = e}

Unbroken(e) ==
    \A i, j \in RowsAbout(e) :
        i < j /\ (\A k \in RowsAbout(e) : k <= i \/ j <= k) => audit[j].from = audit[i].to

AuditExplainsRoles ==
    \A e \in Emails : Unbroken(e) =>
        \A i \in RowsAbout(e) : (\A j \in RowsAbout(e) : j <= i) => role[e] = audit[i].to

(* "10 failed sign-ins per 15 minutes" (docs/MONETIZATION.md:32): nobody   *)
(* is refused before the account or the address has had that many.         *)
RefusedAfterLimit ==
    \A e \in Emails, a \in Addresses :
        LET keys == {<<"email", e>>, <<"ip", a>>}
        IN  Throttled(keys) =>
                \E key \in keys : Cardinality(FailuresOf({key})) >= AttemptLimit
=============================================================================
