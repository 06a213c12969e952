----------------------------- MODULE AuditProofs -----------------------------
(***************************************************************************)
(* The audit log explains the roles, for any number of requests, accounts  *)
(* and administrators.                                                     *)
(***************************************************************************)
EXTENDS AllowancesProofs

AuditRows == [by : Emails \cup {Nobody}, of : Emails \cup {"features"},
              from : Roles \cup {Nobody}, to : Roles \cup {Nobody}]

(***************************************************************************)
(* No row of the log is about e: no role was given to e.                   *)
(***************************************************************************)
Unmentioned(log, e) == \A i \in DOMAIN log : log[i].of # e

(***************************************************************************)
(* What a request that may write a role decided on, by where it stands: p  *)
(* is the place, a what it asks and n what it read, where held are the     *)
(* roles and log the audit log.  As long as no row is about its target,    *)
(* the role it read is the role.                                           *)
(***************************************************************************)
Decides(p, a, n, held, log) ==
    /\ p \in {"right", "giving", "granting"} => n \in Roles \cup {Nobody}
    /\ p \in {"giving", "granting"} /\ Unmentioned(log, a.target) => n = held[a.target]
    /\ p = "set_role" /\ a.target = a.who /\ Unmentioned(log, a.who) => held[a.who] = "admin"

AuditInv ==
    /\ audit \in Seq(AuditRows)
    /\ \A s \in Slots : Decides(pc[s], ask[s], seen[s], role, audit)
    /\ AuditExplainsRoles

-----------------------------------------------------------------------------
(***************************************************************************)
(* Of the rows about an account, one is the last.                          *)
(***************************************************************************)
LEMMA LastRow ==
    ASSUME audit \in Seq(AuditRows), NEW e, RowsAbout(e) # {}
    PROVE  \E i \in RowsAbout(e) : \A j \in RowsAbout(e) : j <= i
<1> DEFINE n == Len(audit)
           T == {k \in Nat : n - k \in RowsAbout(e)}
<1>1. n \in Nat /\ \A i \in RowsAbout(e) : i \in 1..n
  BY DEF RowsAbout
<1>2. T \in SUBSET Nat
  OBVIOUS
<1>3. \A i \in RowsAbout(e) : n - i \in T
  <2> HIDE DEF n
  <2> SUFFICES ASSUME NEW i \in RowsAbout(e) PROVE n - i \in T
    OBVIOUS
  <2>1. n - i \in Nat /\ n - (n - i) = i
    BY <1>1
  <2> QED BY <2>1
<1>4. T # {}
  BY <1>3
<1> HIDE DEF T
<1>5. PICK k \in T : \A m \in T : k <= m
  BY <1>2, <1>4, LeastNat
<1>6. n - k \in RowsAbout(e) /\ k \in Nat
  BY <1>5 DEF T
<1> HIDE DEF n
<1>7. \A j \in RowsAbout(e) : j <= n - k
  BY <1>1, <1>3, <1>5, <1>6
<1> QED BY <1>6, <1>7

(***************************************************************************)
(* A step that writes neither a role nor a row.                            *)
(***************************************************************************)
LEMMA QuietAudit ==
    ASSUME AuditInv, UNCHANGED <<role, audit>>, NEW s \in Slots,
           \A x \in Slots \ {s} : pc'[x] = pc[x] /\ ask'[x] = ask[x] /\ seen'[x] = seen[x],
           Decides(pc'[s], ask'[s], seen'[s], role, audit)
    PROVE  AuditInv'
<1>1. \A x \in Slots : Decides(pc'[x], ask'[x], seen'[x], role', audit')
  BY DEF AuditInv
<1>2. AuditExplainsRoles'
  BY DEF AuditInv, AuditExplainsRoles, Unbroken, RowsAbout
<1> QED BY <1>1, <1>2 DEF AuditInv

(***************************************************************************)
(* A row is added, and the request that adds it ends.  Either the role is  *)
(* what the row says, or the request gave what it had read, which is the   *)
(* role if there was no row, and otherwise what the last row should say.   *)
(***************************************************************************)
LEMMA RowAdded ==
    ASSUME IInv, AuditInv, NEW s \in Slots, NEW here, Leave(s, here),
           NEW row \in AuditRows, audit' = Append(audit, row),
           \/ row.of = "features" /\ role' = role
           \/ row.of \in Emails /\ role' = [role EXCEPT ![row.of] = row.to]
           \/ /\ row.of \in Emails /\ role' = role /\ row.from = row.to
              /\ Unmentioned(audit, row.of) => role[row.of] = row.to
    PROVE  AuditInv'
<1> USE DEF AuditInv
<1> DEFINE n == Len(audit)
<1>1. /\ n \in Nat /\ DOMAIN audit = 1..n /\ DOMAIN audit' = 1..(n + 1)
      /\ \A i \in 1..n : audit'[i] = audit[i]
      /\ audit'[n + 1] = row /\ audit' \in Seq(AuditRows)
  OBVIOUS
<1>2. /\ \A x \in Slots \ {s} : pc'[x] = pc[x] /\ ask'[x] = ask[x] /\ seen'[x] = seen[x]
      /\ pc'[s] = "idle"
  BY DEF Leave, IInv, TypeOK, RequestsOK
<1>3. role \in [Emails -> Roles \cup {Nobody}]
  BY DEF IInv, TypeOK
<1>4. \A e : Unmentioned(audit', e) => Unmentioned(audit, e) /\ row.of # e
  BY <1>1 DEF Unmentioned
<1>5. \A e \in Emails : row.of # e => role'[e] = role[e]
  BY <1>3
<1> HIDE DEF n
<1>6. \A x \in Slots : Decides(pc'[x], ask'[x], seen'[x], role', audit')
  <2> SUFFICES ASSUME NEW x \in Slots PROVE Decides(pc'[x], ask'[x], seen'[x], role', audit')
    OBVIOUS
  <2>1. CASE x = s
    BY <1>2, <2>1 DEF Decides
  <2>2. CASE x # s
    <3>1. pc'[x] = pc[x] /\ ask'[x] = ask[x] /\ seen'[x] = seen[x]
      BY <1>2, <2>2
    <3>2. /\ Decides(pc[x], ask[x], seen[x], role, audit)
          /\ Fits(pc[x], ask[x], seen[x], role, setting)
      BY DEF IInv, RequestsOK
    <3>3. /\ pc[x] \in {"giving", "granting"} => ask[x].target \in Emails
          /\ pc[x] = "set_role" => ask[x].who \in Emails
      BY <3>2 DEF Fits
    <3> QED BY <1>4, <1>5, <3>1, <3>2, <3>3 DEF Decides
  <2> QED BY <2>1, <2>2
<1>7. ASSUME NEW e \in Emails, Unbroken(e)', NEW i \in RowsAbout(e)',
             \A j \in RowsAbout(e)' : j <= i
      PROVE  role'[e] = audit'[i].to
  <2>1. CASE row.of # e
    <3>1. RowsAbout(e)' = RowsAbout(e)
      BY <1>1, <2>1 DEF RowsAbout
    <3>2. \A k \in RowsAbout(e) : audit'[k] = audit[k]
      BY <1>1 DEF RowsAbout
    <3>3. Unbroken(e)
      <4>1. ASSUME NEW x \in RowsAbout(e), NEW y \in RowsAbout(e), x < y,
                   \A k \in RowsAbout(e) : k <= x \/ y <= k
            PROVE  audit[y].from = audit[x].to
        <5>1. audit'[y].from = audit'[x].to
          BY <1>7, <3>1, <4>1 DEF Unbroken
        <5> QED BY <3>2, <5>1
      <4> QED BY <4>1 DEF Unbroken
    <3>4. role[e] = audit[i].to
      BY <1>7, <3>1, <3>3 DEF AuditExplainsRoles
    <3> QED BY <1>5, <1>7, <2>1, <3>1, <3>2, <3>4
  <2>2. CASE row.of = e
    <3>1. RowsAbout(e)' = RowsAbout(e) \cup {n + 1}
      BY <1>1, <2>2 DEF RowsAbout
    <3>2. RowsAbout(e) \subseteq 1..n
      BY <1>1 DEF RowsAbout
    <3>3. i = n + 1 /\ audit'[i] = row
      BY <1>1, <1>7, <3>1, <3>2
    <3>4. e # "features"
      BY AccountsAssumption
    <3>5. CASE role' = [role EXCEPT ![row.of] = row.to]
      BY <1>3, <2>2, <3>3, <3>5
    <3>6. CASE /\ role' = role /\ row.from = row.to
               /\ Unmentioned(audit, row.of) => role[row.of] = row.to
      <4>1. CASE RowsAbout(e) = {}
        <5>1. Unmentioned(audit, e)
          BY <4>1 DEF Unmentioned, RowsAbout
        <5> QED BY <2>2, <3>3, <3>6, <5>1
      <4>2. CASE RowsAbout(e) # {}
        <5>1. PICK l \in RowsAbout(e) : \A j \in RowsAbout(e) : j <= l
          BY <4>2, LastRow
        <5>2. Unbroken(e)
          <6> SUFFICES ASSUME NEW a \in RowsAbout(e), NEW b \in RowsAbout(e), a < b,
                              \A k \in RowsAbout(e) : k <= a \/ b <= k
                       PROVE  audit[b].from = audit[a].to
            BY DEF Unbroken
          <6>1. \A k \in RowsAbout(e)' : k <= a \/ b <= k
            BY <1>1, <3>1, <3>2
          <6>2. audit'[b].from = audit'[a].to
            BY <1>7, <3>1, <6>1 DEF Unbroken
          <6> QED BY <1>1, <3>2, <6>2
        <5>3. role[e] = audit[l].to
          BY <5>1, <5>2 DEF AuditExplainsRoles
        <5>4. \A k \in RowsAbout(e)' : k <= l \/ n + 1 <= k
          BY <1>1, <3>1, <3>2, <5>1
        <5>5. audit'[n + 1].from = audit'[l].to
          BY <1>1, <1>7, <3>1, <3>2, <5>4 DEF Unbroken
        <5> QED BY <1>1, <3>2, <3>3, <3>6, <5>3, <5>5
      <4> QED BY <4>1, <4>2
    <3> QED BY <2>2, <3>4, <3>5, <3>6
  <2> QED BY <2>1, <2>2
<1>8. AuditExplainsRoles'
  BY <1>7 DEF AuditExplainsRoles
<1> QED BY <1>1, <1>6, <1>8

-----------------------------------------------------------------------------
Writing == {"right", "set_role", "giving", "granting"}

LEMMA NotWriting ==
    ASSUME NEW p, p \notin Writing, NEW a, NEW n
    PROVE  Decides(p, a, n, role, audit)
BY DEF Decides, Writing

(***************************************************************************)
(* The shapes a step has: a request is received, goes on, or ends.         *)
(***************************************************************************)
LEMMA ReceiveAudit ==
    ASSUME IInv, AuditInv, NEW s \in Slots, NEW where, NEW what, Receive(s, where, what),
           UNCHANGED <<role, audit>>, \A x \in Slots \ {s} : seen'[x] = seen[x],
           Decides(where, what, seen'[s], role, audit)
    PROVE  AuditInv'
<1>1. /\ \A x \in Slots \ {s} : pc'[x] = pc[x] /\ ask'[x] = ask[x]
      /\ pc'[s] = where /\ ask'[s] = what
  BY DEF Receive, IInv, TypeOK, RequestsOK
<1> QED BY <1>1, QuietAudit

LEMMA ProceedAudit ==
    ASSUME IInv, AuditInv, NEW s \in Slots, NEW here, NEW there, NEW row,
           Proceed(s, here, there, row), Decides(there, ask[s], row, role, audit)
    PROVE  AuditInv'
<1>1. /\ \A x \in Slots \ {s} : pc'[x] = pc[x] /\ seen'[x] = seen[x]
      /\ pc'[s] = there /\ seen'[s] = row
      /\ ask' = ask /\ UNCHANGED <<role, audit>>
  BY DEF Proceed, accountTables, IInv, TypeOK, RequestsOK
<1> QED BY <1>1, QuietAudit

LEMMA LeaveAudit ==
    ASSUME IInv, AuditInv, NEW s \in Slots, NEW here, Leave(s, here), UNCHANGED <<role, audit>>
    PROVE  AuditInv'
<1>1. /\ \A x \in Slots \ {s} : pc'[x] = pc[x] /\ ask'[x] = ask[x] /\ seen'[x] = seen[x]
      /\ pc'[s] = "idle"
  BY DEF Leave, IInv, TypeOK, RequestsOK
<1>2. Decides(pc'[s], ask'[s], seen'[s], role, audit)
  BY <1>1, NotWriting DEF Writing
<1> QED BY <1>1, <1>2, QuietAudit

(***************************************************************************)
(* Accounts are made and signed in.                                        *)
(***************************************************************************)
LEMMA CreateAccountAudit ==
    ASSUME IInv, AuditInv, NEW s \in Slots, CreateAccount(s)
    PROVE  AuditInv'
<1> DEFINE e == ask[s].who
           given == IF e \in Bootstrap THEN "admin" ELSE "user"
           row == [by |-> e, of |-> e, from |-> Nobody, to |-> given]
<1>1. /\ Leave(s, "new") /\ pc[s] = "new"
      /\ role' = [role EXCEPT ![e] = given] /\ audit' = Append(audit, row)
  BY DEF CreateAccount, End, Leave, Logged
<1>2. e \in Emails
  BY <1>1 DEF IInv, RequestsOK, Fits
<1>3. row \in AuditRows /\ row.of = e /\ row.to = given
  BY <1>2 DEF AuditRows, Roles
<1> HIDE DEF row, given
<1> QED BY <1>1, <1>2, <1>3, RowAdded

LEMMA SignInAudit ==
    ASSUME IInv, AuditInv, NEW s \in Slots, SignIn(s)
    PROVE  AuditInv'
<1> DEFINE e == ask[s].who
           row == [by |-> e, of |-> e, from |-> seen[s], to |-> "admin"]
<1>1. Leave(s, "right") /\ pc[s] = "right" /\ Promote(e, seen[s])
  BY DEF SignIn, End, Leave
<1>2. e \in Emails /\ seen[s] \in Roles \cup {Nobody}
  BY <1>1 DEF IInv, RequestsOK, Fits, AuditInv, Decides
<1>3. CASE role' = role /\ audit' = audit
  BY <1>1, <1>3, LeaveAudit
<1>4. CASE role' = [role EXCEPT ![e] = "admin"] /\ audit' = Append(audit, row)
  <2>1. row \in AuditRows /\ row.of = e /\ row.to = "admin"
    BY <1>2 DEF AuditRows, Roles
  <2> HIDE DEF row
  <2> QED BY <1>1, <1>2, <1>4, <2>1, RowAdded
<1> QED BY <1>1, <1>3, <1>4 DEF Promote, Logged

(***************************************************************************)
(* A role is given.                                                        *)
(***************************************************************************)
LEMMA GiveAudit ==
    ASSUME IInv, AuditInv, NEW s \in Slots, NEW here \in {"giving", "granting"}, Leave(s, here),
           NEW by \in Emails \cup {Nobody}, Give(s, ask[s].target, ask[s].to, by)
    PROVE  AuditInv'
<1> DEFINE e == ask[s].target
           to == ask[s].to
           row == [by |-> by, of |-> e, from |-> seen[s], to |-> to]
<1>1. pc[s] = here
  BY DEF Leave
<1>2. e \in Emails /\ to \in Roles
  BY <1>1 DEF IInv, RequestsOK, Fits
<1>3. /\ seen[s] \in Roles \cup {Nobody}
      /\ Unmentioned(audit, e) => seen[s] = role[e]
  BY <1>1 DEF AuditInv, Decides
<1>4. /\ audit' = Append(audit, row)
      /\ role' = IF to = seen[s] THEN role ELSE [role EXCEPT ![e] = to]
  BY DEF Give, Logged
<1>5. row \in AuditRows /\ row.of = e /\ row.to = to /\ row.from = seen[s]
  BY <1>2, <1>3 DEF AuditRows
<1> HIDE DEF row, e, to
<1>6. CASE to = seen[s]
  BY <1>2, <1>3, <1>4, <1>5, <1>6, RowAdded
<1>7. CASE to # seen[s]
  BY <1>2, <1>4, <1>5, <1>7, RowAdded
<1> QED BY <1>6, <1>7

LEMMA RoleAudit ==
    ASSUME IInv, AuditInv, NEW s \in Slots,
           SetRole(s) \/ LoadTarget(s) \/ WriteRole(s) \/ GrantRole(s) \/ WriteGrant(s)
    PROVE  AuditInv'
<1>f. /\ Fits(pc[s], ask[s], seen[s], role, setting)
      /\ Decides(pc[s], ask[s], seen[s], role, audit)
  BY DEF IInv, RequestsOK, AuditInv
<1>t. role \in [Emails -> Roles \cup {Nobody}]
  BY DEF IInv, TypeOK
<1>1. CASE SetRole(s)
  <2>1. PICK admin \in Emails, target \in Emails, to \in SomeRoles :
            /\ Administrator(admin)
            /\ Receive(s, "set_role", [who |-> admin, keys |-> {}, target |-> target, to |-> to])
            /\ UNCHANGED <<now, accountTables, seen>>
    BY <1>1 DEF SetRole
  <2> DEFINE what == [who |-> admin, keys |-> {}, target |-> target, to |-> to]
  <2>2. what.who = admin /\ role[admin] = "admin"
    BY <2>1 DEF Administrator
  <2> HIDE DEF what
  <2>3. Decides("set_role", what, seen'[s], role, audit)
    BY <2>2 DEF Decides
  <2> QED BY <2>1, <2>3, ReceiveAudit DEF accountTables, what
<1>2. CASE LoadTarget(s)
  <2> DEFINE row == IF ask[s].target = ask[s].who THEN "admin" ELSE role[ask[s].target]
  <2>1. pc[s] = "set_role" /\ Proceed(s, "set_role", "giving", row)
    BY <1>2 DEF LoadTarget
  <2>2. ask[s].target \in Emails
    BY <1>f, <2>1 DEF Fits
  <2>3. Decides("giving", ask[s], row, role, audit)
    BY <1>f, <1>t, <2>1, <2>2 DEF Decides, Roles
  <2> QED BY <2>1, <2>3, ProceedAudit
<1>3. CASE WriteRole(s)
  <2>1. Leave(s, "giving") /\ Give(s, ask[s].target, ask[s].to, ask[s].who) /\ pc[s] = "giving"
    BY <1>3 DEF WriteRole, End, Leave
  <2>2. ask[s].who \in Emails
    BY <1>f, <2>1 DEF Fits
  <2> QED BY <2>1, <2>2, GiveAudit
<1>4. CASE GrantRole(s)
  <2>1. PICK target \in Emails, to \in SomeRoles :
            /\ Receive(s, "granting", [who |-> Nobody, keys |-> {}, target |-> target, to |-> to])
            /\ seen' = [seen EXCEPT ![s] = role[target]]
            /\ UNCHANGED <<now, accountTables>>
    BY <1>4 DEF GrantRole
  <2> DEFINE what == [who |-> Nobody, keys |-> {}, target |-> target, to |-> to]
  <2>2. /\ seen'[s] = role[target] /\ \A x \in Slots \ {s} : seen'[x] = seen[x]
        /\ what.target = target
    BY <2>1 DEF IInv, RequestsOK
  <2> HIDE DEF what
  <2>3. Decides("granting", what, seen'[s], role, audit)
    BY <1>t, <2>2 DEF Decides
  <2> QED BY <2>1, <2>2, <2>3, ReceiveAudit DEF accountTables, what
<1>5. CASE WriteGrant(s)
  <2>1. Leave(s, "granting") /\ Give(s, ask[s].target, ask[s].to, Nobody)
    BY <1>5 DEF WriteGrant, End
  <2> QED BY <2>1, GiveAudit
<1> QED BY <1>1, <1>2, <1>3, <1>4, <1>5

LEMMA SaveSettingAudit ==
    ASSUME IInv, AuditInv, NEW s \in Slots, SaveSetting(s)
    PROVE  AuditInv'
<1> DEFINE row == [by |-> ask[s].who, of |-> "features", from |-> Nobody, to |-> Nobody]
<1>1. Leave(s, "saving") /\ pc[s] = "saving" /\ role' = role /\ audit' = Append(audit, row)
  BY DEF SaveSetting, End, Leave, Logged
<1>2. ask[s].who \in Emails
  BY <1>1 DEF IInv, RequestsOK, Fits
<1>3. row \in AuditRows /\ row.of = "features"
  BY <1>2 DEF AuditRows
<1> HIDE DEF row
<1> QED BY <1>1, <1>3, RowAdded

(***************************************************************************)
(* Every other step.                                                       *)
(***************************************************************************)
LEMMA OtherAudit ==
    ASSUME IInv, AuditInv, NEW s \in Slots,
           \/ Signup(s) \/ LookUpEmail(s) \/ RefuseSignup(s)
           \/ Login(s) \/ VerifyPassword(s) \/ RefuseLogin(s)
           \/ PutSetting(s) \/ LoadSetting(s) \/ Abandon(s)
           \/ Use(s) \/ AskAllowance(s) \/ RecordCounted(s) \/ RecordExempt(s)
           \/ Analyse(s) \/ CallModel(s) \/ RecordCost(s)
    PROVE  AuditInv'
<1>1. CASE Signup(s) \/ Login(s) \/ PutSetting(s) \/ Use(s) \/ Analyse(s)
  <2>1. PICK where, what : /\ Receive(s, where, what) /\ where \notin Writing
                           /\ UNCHANGED <<accountTables, seen>>
    <3>1. /\ "signup" \notin Writing /\ "login" \notin Writing /\ "put_setting" \notin Writing
          /\ "allowance" \notin Writing /\ "explain" \notin Writing
      BY DEF Writing
    <3> QED BY <1>1, <3>1 DEF Signup, Login, PutSetting, Use, Analyse
  <2>2. Decides(where, what, seen'[s], role, audit)
    BY <2>1, NotWriting
  <2> QED BY <2>1, <2>2, ReceiveAudit DEF accountTables
<1>2. CASE LookUpEmail(s) \/ LoadSetting(s) \/ AskAllowance(s) \/ CallModel(s)
  <2>1. PICK here, there, row : Proceed(s, here, there, row) /\ there \notin Writing
    <3>1. /\ "new" \notin Writing /\ "taken" \notin Writing /\ "saving" \notin Writing
          /\ "exempt" \notin Writing /\ "counted" \notin Writing /\ "explaining" \notin Writing
      BY DEF Writing
    <3> QED BY <1>2, <3>1 DEF LookUpEmail, LoadSetting, AskAllowance, CallModel
  <2>2. Decides(there, ask[s], row, role, audit)
    BY <2>1, NotWriting
  <2> QED BY <2>1, <2>2, ProceedAudit
<1>3. CASE VerifyPassword(s)
  <2> DEFINE r == ask[s]
             there == IF Matches(r.who, r.right) THEN "right" ELSE "wrong"
  <2>1. pc[s] = "login" /\ Proceed(s, "login", there, role[r.who])
    BY <1>3 DEF VerifyPassword
  <2>2. role[r.who] \in Roles \cup {Nobody}
    BY <2>1 DEF IInv, RequestsOK, Fits, TypeOK
  <2>3. there \notin {"giving", "granting", "set_role"}
    OBVIOUS
  <2> HIDE DEF there
  <2>4. Decides(there, r, role[r.who], role, audit)
    BY <2>2, <2>3 DEF Decides
  <2> QED BY <2>1, <2>4, ProceedAudit
<1>4. CASE \/ RefuseSignup(s) \/ RefuseLogin(s) \/ Abandon(s)
           \/ RecordCounted(s) \/ RecordExempt(s) \/ RecordCost(s)
  <2>1. \E here : Leave(s, here)
    BY <1>4 DEF RefuseSignup, RefuseLogin, Abandon, RecordCounted, RecordExempt, RecordCost, End
  <2>2. UNCHANGED <<role, audit>>
    BY <1>4 DEF RefuseSignup, RefuseLogin, Abandon, RecordCounted, RecordExempt, RecordCost,
                RecordFailure, RecordUse, accountTables
  <2> QED BY <2>1, <2>2, LeaveAudit
<1> QED BY <1>1, <1>2, <1>3, <1>4

LEMMA StepAudit ==
    ASSUME IInv, AuditInv, [ApiNext]_vars
    PROVE  AuditInv'
<1>1. CASE UNCHANGED <<role, audit, pc, ask, seen>>
  BY <1>1 DEF AuditInv, AuditExplainsRoles, Unbroken, RowsAbout
<1>2. CASE UNCHANGED vars \/ Logout \/ Tick
  BY <1>1, <1>2 DEF vars, Logout, Tick, accountTables, requests
<1>3. CASE AccountStep /\ UNCHANGED allowanceTables
  BY <1>2, <1>3, CreateAccountAudit, SignInAudit, RoleAudit, SaveSettingAudit, OtherAudit
     DEF AccountStep
<1>4. CASE \E s \in Slots :
              \/ Use(s) \/ AskAllowance(s) \/ RecordCounted(s) \/ RecordExempt(s)
              \/ Analyse(s) \/ CallModel(s) \/ RecordCost(s)
  BY <1>4, OtherAudit
<1> QED BY <1>2, <1>3, <1>4 DEF ApiNext

LEMMA InitAudit ==
    ASSUME ApiInit
    PROVE  AuditInv
<1>1. audit = <<>> /\ \A s \in Slots : pc[s] = "idle"
  BY DEF ApiInit, Init
<1>2. \A s \in Slots : Decides(pc[s], ask[s], seen[s], role, audit)
  BY <1>1, NotWriting DEF Writing
<1>3. \A e : RowsAbout(e) = {}
  BY <1>1 DEF RowsAbout
<1> QED BY <1>1, <1>2, <1>3 DEF AuditInv, AuditExplainsRoles

(***************************************************************************)
(* The audit log explains the roles: where an account's rows follow from   *)
(* one another, its role is the one the last of them gave (admin.py,       *)
(* set_role; auth.py, signup and login; cli.py, grant-role).               *)
(***************************************************************************)
THEOREM RolesAreAudited == ApiSpec => []AuditExplainsRoles
<1>1. AuditInv => AuditExplainsRoles
  BY DEF AuditInv
<1>2. ApiInit => AuditInv
  BY InitAudit
<1>3. IInv /\ AuditInv /\ [ApiNext]_vars => AuditInv'
  BY StepAudit
<1> QED BY <1>1, <1>2, <1>3, AlwaysIInv, PTL DEF ApiSpec
=============================================================================
