--------------------------- MODULE MeteringProofs ---------------------------
(***************************************************************************)
(* Theorems about Metering, for any number of users, requests and plans,   *)
(* any pricing and any calendar.                                           *)
(***************************************************************************)
EXTENDS Metering, SumProofs

(***************************************************************************)
(* FOR UPDATE admits one request per user.                                 *)
(***************************************************************************)
LockExclusive ==
    \A q, r \in Requests :
        q # r /\ who[q] = who[r] => ~(pc[q] \in {"locked", "drawing"}
                                      /\ pc[r] \in {"locked", "drawing"})

(***************************************************************************)
(* What a request read under the lock still holds when it commits: nobody  *)
(* else has drawn for its user meanwhile, and promotions only add.         *)
(***************************************************************************)
DrawCovered ==
    \A r \in Requests, u \in Users, t \in Time :
        pc[r] = "drawing" /\ who[r] = u /\ now[r] = t =>
            /\ source[r] # "none"
            /\ source[r] = "free" => FreeCovers(FreeUsed(u), promo[u])
            /\ source[r] = "plan" => PlanCovers(plan[r], PlanUsed(u, t))

(***************************************************************************)
(* The inductive invariant.                                                *)
(***************************************************************************)
IInv ==
    /\ TypeOK
    /\ IsFiniteSet(ledger)
    /\ LockExclusive
    /\ DrawCovered
    /\ FreeAllowanceHeld
    /\ PlanCapHeld

-----------------------------------------------------------------------------
(***************************************************************************)
(* A plan that governs is a plan, or there is none.                        *)
(***************************************************************************)
LEMMA PlanChoicesType ==
    ASSUME NEW r, NEW s \in SUBSET Plans
    PROVE  PlanChoices(r, s) \subseteq Plans \cup {NoPlan}
BY PricingAssumption DEF PlanChoices

LEMMA CreditSourceType ==
    ASSUME NEW r, NEW p, NEW a, NEW b, NEW c
    PROVE  CreditSource(r, p, a, b, c) \in CreditSources
BY DEF CreditSource, CreditSources

(***************************************************************************)
(* Every set the counting statements count is finite, and counting a row   *)
(* more adds at most one.                                                  *)
(***************************************************************************)
LEMMA CountsAreNumbers ==
    ASSUME IsFiniteSet(ledger), NEW u, NEW t
    PROVE  /\ IsFiniteSet(RowsOf(u, "free"))
           /\ IsFiniteSet(PlanRowsSince(u, t))
           /\ IsFiniteSet(PlanRowsIn(u, t))
           /\ FreeUsed(u) \in Nat
           /\ PlanUsed(u, t) \in Nat
           /\ Cardinality(PlanRowsIn(u, t)) \in Nat
<1>1. /\ RowsOf(u, "free") \in SUBSET ledger
      /\ PlanRowsSince(u, t) \in SUBSET ledger
      /\ PlanRowsIn(u, t) \in SUBSET ledger
  BY DEF RowsOf, PlanRowsSince, PlanRowsIn
<1>2. /\ IsFiniteSet(RowsOf(u, "free"))
      /\ IsFiniteSet(PlanRowsSince(u, t))
      /\ IsFiniteSet(PlanRowsIn(u, t))
  BY <1>1, FS_Subset
<1> QED BY <1>2, FS_CardinalityType DEF FreeUsed, PlanUsed

LEMMA OneRowMore ==
    ASSUME NEW S, IsFiniteSet(S), NEW x
    PROVE  /\ IsFiniteSet(S \cup {x})
           /\ Cardinality(S \cup {x}) \in Nat
           /\ Cardinality(S \cup {x}) <= Cardinality(S) + 1
<1>1. IsFiniteSet(S \cup {x}) /\ Cardinality(S) \in Nat
  BY FS_AddElement, FS_CardinalityType
<1>2. Cardinality(S \cup {x}) = IF x \in S THEN Cardinality(S) ELSE Cardinality(S) + 1
  BY FS_AddElement
<1>3. Cardinality(S \cup {x}) \in Nat
  BY <1>1, FS_CardinalityType
<1>4. CASE x \in S
  BY <1>1, <1>2, <1>3, <1>4
<1>5. CASE x \notin S
  BY <1>1, <1>2, <1>3, <1>5
<1> QED BY <1>1, <1>3, <1>4, <1>5

(***************************************************************************)
(* The row a request's Draw appends.                                       *)
(***************************************************************************)
NewRow(r) ==
    [req |-> r, user |-> who[r], source |-> source[r], plan |-> plan[r], at |-> now[r]]

(***************************************************************************)
(* Only Draw touches the ledger.                                           *)
(***************************************************************************)
LEMMA LedgerSteps ==
    ASSUME [Next]_vars
    PROVE  \/ ledger' = ledger
           \/ \E r \in Requests : Draw(r) /\ ledger' = ledger \cup {NewRow(r)}
<1>1. ASSUME NEW r \in Requests, Step(r)
      PROVE  \/ ledger' = ledger
             \/ Draw(r) /\ ledger' = ledger \cup {NewRow(r)}
  BY <1>1 DEF Step, Receive, CheckEntitlement, LookUpDuplicate, StopAtLimit, CheckRate,
              Refuse, WorkRecorded, WorkUnrecorded, LockUser, Recheck, Draw,
              DeadlockVictim, NewRow, tables
<1>2. ASSUME NEW r \in Requests, Crash(r) PROVE ledger' = ledger
  BY <1>2 DEF Crash, tables
<1>3. ASSUME Environment PROVE ledger' = ledger
  BY <1>3 DEF Environment, SetRole, Redeem, SubscriptionsChange, Tick, tables
<1>4. ASSUME UNCHANGED vars PROVE ledger' = ledger
  BY <1>4 DEF vars, tables
<1> QED BY <1>1, <1>2, <1>3, <1>4 DEF Next

-----------------------------------------------------------------------------
LEMMA InitIInv == Init => IInv
<1> SUFFICES ASSUME Init PROVE IInv
  OBVIOUS
<1>1. TypeOK
  <2>1. 0 \in Time /\ SomeRoles \subseteq Roles
    BY MeteringAssumption DEF Time
  <2>2. analyses \subseteq AnalysisRow /\ ledger \subseteq LedgerRow
    BY DEF Init
  <2>3. pc \in [Requests -> {"idle"} \cup Running \cup Ended]
    BY DEF Init
  <2>4. asRole \in [Requests -> Roles] /\ source \in [Requests -> CreditSources]
    BY DEF Init, Roles, CreditSources
  <2>5. role \in [Users -> Roles]
    BY <2>1 DEF Init
  <2> QED BY <2>1, <2>2, <2>3, <2>4, <2>5 DEF Init, TypeOK
<1>2. IsFiniteSet(ledger)
  BY FS_EmptySet DEF Init
<1>3. LockExclusive /\ DrawCovered
  BY DEF Init, LockExclusive, DrawCovered
<1>4. \A u, t, src : RowsOf(u, src) = {} /\ PlanRowsIn(u, t) = {}
  BY DEF Init, RowsOf, PlanRowsIn
<1>5. FreeAllowanceHeld
  <2>1. \A u \in Users : FreeUsed(u) = 0
    BY <1>4, FS_EmptySet DEF FreeUsed
  <2> QED BY <2>1, <1>1, PricingAssumption DEF FreeAllowanceHeld, TypeOK
<1>6. PlanCapHeld
  BY <1>4 DEF PlanCapHeld
<1> QED BY <1>1, <1>2, <1>3, <1>5, <1>6 DEF IInv

(***************************************************************************)
(* Every step keeps the types.                                             *)
(***************************************************************************)
LEMMA EntitlementsType ==
    ASSUME TypeOK, NEW r \in Requests, ReadEntitlements(r)
    PROVE  /\ source' \in [Requests -> CreditSources]
           /\ plan' \in [Requests -> Plans \cup {NoPlan}]
           /\ granted' \in [Requests -> Nat]
<1>1. subs[who[r]] \in SUBSET Plans
  BY DEF TypeOK
<1>2. PICK p \in PlanChoices(asRole[r], subs[who[r]]) :
        /\ source' = [source EXCEPT ![r] = CreditSource(asRole[r], p,
                PlanUsed(who[r], now[r]), FreeUsed(who[r]), promo[who[r]])]
        /\ plan' = [plan EXCEPT ![r] = p]
        /\ granted' = [granted EXCEPT ![r] = promo[who[r]]]
  BY DEF ReadEntitlements
<1>3. p \in Plans \cup {NoPlan}
  BY <1>1, <1>2, PlanChoicesType
<1> QED BY <1>2, <1>3, CreditSourceType DEF TypeOK

LEMMA TypeStep == TypeOK /\ DrawCovered /\ [Next]_vars => TypeOK'
<1> SUFFICES ASSUME TypeOK, DrawCovered, [Next]_vars PROVE TypeOK'
  OBVIOUS
<1> USE DEF TypeOK
<1>1. ASSUME NEW r \in Requests, Receive(r) PROVE TypeOK'
  BY <1>1 DEF Receive, GoTo, account, tables, Running
<1>2. ASSUME NEW r \in Requests, CheckEntitlement(r) PROVE TypeOK'
  <2>1. /\ source' \in [Requests -> CreditSources]
        /\ plan' \in [Requests -> Plans \cup {NoPlan}]
        /\ granted' \in [Requests -> Nat]
    BY <1>2, EntitlementsType DEF CheckEntitlement
  <2> QED BY <1>2, <2>1 DEF CheckEntitlement, GoTo, account, tables, request, Running
<1>3. ASSUME NEW r \in Requests, LookUpDuplicate(r) PROVE TypeOK'
  BY <1>3 DEF LookUpDuplicate, account, tables, request, Running, Ended
<1>4. ASSUME NEW r \in Requests, CheckRate(r) PROVE TypeOK'
  BY <1>4 DEF CheckRate, account, tables, request, Running, Ended
<1>5. ASSUME NEW r \in Requests,
             \/ StopAtLimit(r) \/ Refuse(r) \/ WorkRecorded(r) \/ WorkUnrecorded(r)
             \/ LockUser(r) \/ DeadlockVictim(r) \/ Crash(r)
      PROVE  TypeOK'
  BY <1>5 DEF StopAtLimit, Refuse, WorkRecorded, WorkUnrecorded, LockUser, DeadlockVictim,
              Crash, GoTo, account, tables, request, Running, Ended
<1>6. ASSUME NEW r \in Requests, Recheck(r) PROVE TypeOK'
  <2>1. /\ source' \in [Requests -> CreditSources]
        /\ plan' \in [Requests -> Plans \cup {NoPlan}]
        /\ granted' \in [Requests -> Nat]
    BY <1>6, EntitlementsType DEF Recheck
  <2> QED BY <1>6, <2>1 DEF Recheck, account, tables, request, Running, Ended
<1>7. ASSUME NEW r \in Requests, Draw(r) PROVE TypeOK'
  <2>1. NewRow(r) \in LedgerRow
    <3>1. source[r] # "none"
      BY <1>7 DEF Draw, GoTo, DrawCovered
    <3> QED BY <3>1 DEF NewRow, LedgerRow, CreditSources
  <2>2. [req |-> r, user |-> who[r], input |-> what[r], at |-> now[r]] \in AnalysisRow
    BY DEF AnalysisRow
  <2> QED BY <1>7, <2>1, <2>2 DEF Draw, GoTo, account, request, NewRow, Ended
<1>8. ASSUME NEW u \in Users, NEW newRole \in SomeRoles, SetRole(u, newRole) PROVE TypeOK'
  BY <1>8, MeteringAssumption DEF SetRole, tables, request
<1>9. ASSUME NEW u \in Users, NEW code \in PromoCodes, Redeem(u, code) PROVE TypeOK'
  BY <1>9, MeteringAssumption DEF Redeem, tables, request
<1>10. ASSUME NEW u \in Users, NEW live \in SUBSET SomePlans, SubscriptionsChange(u, live)
       PROVE  TypeOK'
  BY <1>10, MeteringAssumption DEF SubscriptionsChange, tables, request
<1>11. ASSUME Tick PROVE TypeOK'
  BY <1>11, MeteringAssumption DEF Tick, Time, account, tables, request
<1>12. ASSUME UNCHANGED vars PROVE TypeOK'
  BY <1>12 DEF vars, account, tables, request
<1> QED
  BY <1>1, <1>2, <1>3, <1>4, <1>5, <1>6, <1>7, <1>8, <1>9, <1>10, <1>11, <1>12
     DEF Next, Step, Environment

(***************************************************************************)
(* A request enters the critical section only past LockUser's guard.       *)
(***************************************************************************)
LEMMA LockStep == TypeOK /\ LockExclusive /\ [Next]_vars => LockExclusive'
<1> SUFFICES ASSUME TypeOK, LockExclusive, [Next]_vars PROVE LockExclusive'
  OBVIOUS
<1> DEFINE Critical == {"locked", "drawing"}
<1>1. ASSUME who' = who,
             \A r \in Requests : pc'[r] \in Critical => pc[r] \in Critical
      PROVE  LockExclusive'
  BY <1>1 DEF LockExclusive
<1>2. ASSUME NEW r \in Requests, LockUser(r) PROVE LockExclusive'
  <2>1. \A q \in Requests \ {r} : ~(who[q] = who[r] /\ pc[q] \in Critical)
    BY <1>2 DEF LockUser, MayUpdate, HoldsUpdate
  <2>2. who' = who /\ \A q \in Requests \ {r} : pc'[q] = pc[q]
    BY <1>2 DEF LockUser, request, TypeOK
  <2> QED BY <2>1, <2>2 DEF LockExclusive
<1>3. ASSUME NEW r \in Requests, Step(r), ~LockUser(r) PROVE LockExclusive'
  <2>1. who' = who
    BY <1>3 DEF Step, Receive, CheckEntitlement, LookUpDuplicate, StopAtLimit, CheckRate,
                Refuse, WorkRecorded, WorkUnrecorded, Recheck, Draw, DeadlockVictim, request
  <2>2. \A q \in Requests : pc'[q] \in Critical => pc[q] \in Critical
    BY <1>3 DEF TypeOK, GoTo, Step, Receive, CheckEntitlement, LookUpDuplicate, StopAtLimit,
                CheckRate, Refuse, WorkRecorded, WorkUnrecorded, Recheck, Draw, DeadlockVictim
  <2> QED BY <1>1, <2>1, <2>2
<1>4. ASSUME NEW r \in Requests, Crash(r) PROVE LockExclusive'
  BY <1>1, <1>4 DEF Crash, TypeOK, request
<1>5. ASSUME Environment \/ UNCHANGED vars PROVE LockExclusive'
  BY <1>1, <1>5 DEF Environment, SetRole, Redeem, SubscriptionsChange, Tick, vars, request
<1> QED BY <1>2, <1>3, <1>4, <1>5 DEF Next

(***************************************************************************)
(* What changes the figures a covered draw relies on: another draw for the *)
(* same user, which the lock excludes, or a redemption, which only adds.   *)
(***************************************************************************)
LEMMA PromoGrows ==
    ASSUME TypeOK, [Next]_vars
    PROVE  \A u \in Users : promo'[u] \in Nat /\ promo'[u] >= promo[u]
<1>1. ASSUME NEW u \in Users, NEW code \in PromoCodes, Redeem(u, code)
      PROVE  \A v \in Users : promo'[v] \in Nat /\ promo'[v] >= promo[v]
  <2>1. PromoValue[code] \in Nat
    BY MeteringAssumption
  <2> QED BY <1>1, <2>1 DEF Redeem, TypeOK
<1>2. ASSUME promo' = promo
      PROVE  \A v \in Users : promo'[v] \in Nat /\ promo'[v] >= promo[v]
  BY <1>2 DEF TypeOK
<1>3. ASSUME NEW r \in Requests, Step(r) \/ Crash(r) PROVE promo' = promo
  BY <1>3 DEF Step, Receive, CheckEntitlement, LookUpDuplicate, StopAtLimit, CheckRate,
              Refuse, WorkRecorded, WorkUnrecorded, LockUser, Recheck, Draw,
              DeadlockVictim, Crash, account
<1>4. ASSUME UNCHANGED vars PROVE promo' = promo
  BY <1>4 DEF vars, account
<1>5. ASSUME NEW u \in Users, NEW newRole \in SomeRoles, SetRole(u, newRole) PROVE promo' = promo
  BY <1>5 DEF SetRole
<1>6. ASSUME NEW u \in Users, NEW live \in SUBSET SomePlans, SubscriptionsChange(u, live)
      PROVE  promo' = promo
  BY <1>6 DEF SubscriptionsChange
<1>7. ASSUME Tick PROVE promo' = promo
  BY <1>7 DEF Tick, account
<1> QED BY <1>1, <1>2, <1>3, <1>4, <1>5, <1>6, <1>7 DEF Next, Environment

LEMMA FreeMonotone ==
    ASSUME NEW used \in Nat, NEW p \in Nat, NEW q \in Nat, p <= q, FreeCovers(used, p)
    PROVE  FreeCovers(used, q)
BY PricingAssumption DEF FreeCovers

(***************************************************************************)
(* A row appended for one user leaves the counts of the others alone.      *)
(***************************************************************************)
LEMMA OthersUnchanged ==
    ASSUME NEW q \in Requests, ledger' = ledger \cup {NewRow(q)}
    PROVE  \A u \in Users, t \in Time : u # who[q] =>
               /\ FreeUsed(u)' = FreeUsed(u)
               /\ PlanUsed(u, t)' = PlanUsed(u, t)
               /\ PlanRowsIn(u, t)' = PlanRowsIn(u, t)
<1> SUFFICES ASSUME NEW u \in Users, NEW t \in Time, u # who[q]
             PROVE  /\ FreeUsed(u)' = FreeUsed(u)
                    /\ PlanUsed(u, t)' = PlanUsed(u, t)
                    /\ PlanRowsIn(u, t)' = PlanRowsIn(u, t)
  OBVIOUS
<1>1. ASSUME NEW src PROVE RowsOf(u, src)' = RowsOf(u, src)
  BY DEF RowsOf, NewRow
<1>2. PlanRowsSince(u, t)' = PlanRowsSince(u, t) /\ PlanRowsIn(u, t)' = PlanRowsIn(u, t)
  BY <1>1 DEF PlanRowsSince, PlanRowsIn
<1> QED BY <1>1, <1>2 DEF FreeUsed, PlanUsed

(***************************************************************************)
(* Who else is drawing when a request is does not draw for the same user.  *)
(***************************************************************************)
LEMMA CoveredStep ==
    TypeOK /\ IsFiniteSet(ledger) /\ LockExclusive /\ DrawCovered /\ [Next]_vars
        => DrawCovered'
<1> SUFFICES ASSUME TypeOK, IsFiniteSet(ledger), LockExclusive, DrawCovered, [Next]_vars,
                    NEW r \in Requests, NEW u \in Users, NEW t \in Time,
                    pc'[r] = "drawing", who'[r] = u, now'[r] = t
             PROVE  /\ source'[r] # "none"
                    /\ source'[r] = "free" => FreeCovers(FreeUsed(u)', promo'[u])
                    /\ source'[r] = "plan" => PlanCovers(plan'[r], PlanUsed(u, t)')
  BY DEF DrawCovered
<1>1. FreeUsed(u) \in Nat /\ PlanUsed(u, t) \in Nat
  BY CountsAreNumbers
<1>2. CASE Recheck(r)
  <2>1. who[r] = u /\ now[r] = t /\ promo' = promo /\ ledger' = ledger
    BY <1>2 DEF Recheck, request, account, tables
  <2>2. FreeUsed(u)' = FreeUsed(u) /\ PlanUsed(u, t)' = PlanUsed(u, t)
    BY <2>1 DEF FreeUsed, PlanUsed, PlanRowsSince, RowsOf
  <2>3. PICK p \in PlanChoices(asRole[r], subs[u]) :
          /\ source'[r] = CreditSource(asRole[r], p, PlanUsed(u, t), FreeUsed(u), promo[u])
          /\ plan'[r] = p
    BY <1>2, <2>1 DEF Recheck, ReadEntitlements, TypeOK
  <2>4. source'[r] # "none"
    BY <1>2 DEF Recheck, TypeOK
  <2> QED BY <2>1, <2>2, <2>3, <2>4 DEF CreditSource
<1>3. CASE ~Recheck(r)
  <2>1. /\ pc[r] = "drawing" /\ who[r] = u /\ now[r] = t
        /\ source'[r] = source[r] /\ plan'[r] = plan[r]
    <3>1. ASSUME NEW q \in Requests, Step(q), ~Recheck(q) \/ q # r
          PROVE  /\ pc[r] = "drawing" /\ who[r] = u /\ now[r] = t
                 /\ source'[r] = source[r] /\ plan'[r] = plan[r]
      <4>1. CASE Receive(q)
        BY <4>1 DEF Receive, GoTo, TypeOK
      <4>2. CASE CheckEntitlement(q)
        BY <4>2 DEF CheckEntitlement, ReadEntitlements, GoTo, TypeOK, request
      <4>3. CASE Recheck(q)
        BY <3>1, <4>3 DEF Recheck, ReadEntitlements, TypeOK, request
      <4> QED
        BY <3>1, <4>1, <4>2, <4>3
           DEF Step, LookUpDuplicate, StopAtLimit, CheckRate, Refuse, WorkRecorded,
               WorkUnrecorded, LockUser, Draw, DeadlockVictim, GoTo, TypeOK, request
    <3>2. ASSUME NEW q \in Requests, Crash(q)
          PROVE  /\ pc[r] = "drawing" /\ who[r] = u /\ now[r] = t
                 /\ source'[r] = source[r] /\ plan'[r] = plan[r]
      BY <3>2 DEF Crash, TypeOK, request
    <3>3. ASSUME Environment \/ UNCHANGED vars
          PROVE  /\ pc[r] = "drawing" /\ who[r] = u /\ now[r] = t
                 /\ source'[r] = source[r] /\ plan'[r] = plan[r]
      BY <3>3 DEF Environment, SetRole, Redeem, SubscriptionsChange, Tick, vars, request
    <3> QED BY <1>3, <3>1, <3>2, <3>3 DEF Next
  <2>2. FreeUsed(u)' = FreeUsed(u) /\ PlanUsed(u, t)' = PlanUsed(u, t)
    <3>1. CASE ledger' = ledger
      BY <3>1 DEF FreeUsed, PlanUsed, PlanRowsSince, RowsOf
    <3>2. ASSUME NEW q \in Requests, Draw(q), ledger' = ledger \cup {NewRow(q)}
          PROVE  FreeUsed(u)' = FreeUsed(u) /\ PlanUsed(u, t)' = PlanUsed(u, t)
      <4>1. pc[q] = "drawing" /\ pc'[q] = "served"
        BY <3>2 DEF Draw, GoTo, TypeOK
      <4>2. who[q] # u
        BY <2>1, <4>1 DEF LockExclusive
      <4> QED BY <3>2, <4>2, OthersUnchanged
    <3> QED BY <3>1, <3>2, LedgerSteps
  <2>3. /\ source[r] # "none"
        /\ source[r] = "free" => FreeCovers(FreeUsed(u), promo[u])
        /\ source[r] = "plan" => PlanCovers(plan[r], PlanUsed(u, t))
    BY <2>1 DEF DrawCovered
  <2>4. promo[u] \in Nat /\ promo'[u] \in Nat /\ promo[u] <= promo'[u]
    BY PromoGrows DEF TypeOK
  <2> QED BY <1>1, <2>1, <2>2, <2>3, <2>4, FreeMonotone
<1> QED BY <1>2, <1>3

-----------------------------------------------------------------------------
(***************************************************************************)
(* A draw adds one row to its own user's count of its own source.          *)
(***************************************************************************)
LEMMA FreeStep == IInv /\ [Next]_vars => FreeAllowanceHeld'
<1> SUFFICES ASSUME IInv, [Next]_vars, NEW u \in Users
             PROVE  FreeUsed(u)' <= FreeAnalyses + promo'[u]
  BY DEF FreeAllowanceHeld
<1>1. TypeOK /\ IsFiniteSet(ledger) /\ DrawCovered /\ FreeUsed(u) <= FreeAnalyses + promo[u]
  BY DEF IInv, FreeAllowanceHeld
<1>2. /\ FreeUsed(u) \in Nat /\ IsFiniteSet(RowsOf(u, "free"))
      /\ promo[u] \in Nat /\ promo'[u] \in Nat /\ promo[u] <= promo'[u]
      /\ FreeAnalyses \in Nat
  BY <1>1, CountsAreNumbers, PromoGrows, PricingAssumption DEF TypeOK
<1>3. CASE ledger' = ledger
  <2>1. FreeUsed(u)' = FreeUsed(u)
    BY <1>3 DEF FreeUsed, RowsOf
  <2> QED BY <1>1, <1>2, <2>1
<1>4. ASSUME NEW r \in Requests, Draw(r), ledger' = ledger \cup {NewRow(r)}
      PROVE  FreeUsed(u)' <= FreeAnalyses + promo'[u]
  <2>1. CASE who[r] = u /\ source[r] = "free"
    <3>1. FreeCovers(FreeUsed(u), promo[u])
      BY <1>1, <1>4, <2>1 DEF DrawCovered, Draw, GoTo, TypeOK
    <3>2. RowsOf(u, "free")' = RowsOf(u, "free") \cup {NewRow(r)}
      BY <1>4, <2>1 DEF RowsOf, NewRow
    <3>3. FreeUsed(u)' \in Nat /\ FreeUsed(u)' <= FreeUsed(u) + 1
      BY <1>2, <3>2, OneRowMore DEF FreeUsed
    <3> QED BY <1>2, <3>1, <3>3 DEF FreeCovers
  <2>2. CASE ~(who[r] = u /\ source[r] = "free")
    <3>1. RowsOf(u, "free")' = RowsOf(u, "free")
      BY <1>4, <2>2 DEF RowsOf, NewRow
    <3> QED BY <1>1, <1>2, <3>1 DEF FreeUsed
  <2> QED BY <2>1, <2>2
<1> QED BY <1>3, <1>4, LedgerSteps

(***************************************************************************)
(* Rows of the month a request started in are among those it counts, so    *)
(* the row it adds is within the cap of the plan it was drawn under.       *)
(***************************************************************************)
LEMMA PlanStep == IInv /\ [Next]_vars => PlanCapHeld'
<1> DEFINE Within(rows) == \E row \in rows : \/ PlanCap(row.plan) = NoCap
                                            \/ Cardinality(rows) <= PlanCap(row.plan)
<1> SUFFICES ASSUME IInv, [Next]_vars, NEW u \in Users, NEW m \in Time,
                    PlanRowsIn(u, m)' # {}
             PROVE  Within(PlanRowsIn(u, m)')
  BY DEF PlanCapHeld
<1>1. TypeOK /\ IsFiniteSet(ledger) /\ DrawCovered
  BY DEF IInv
<1>2. PlanRowsIn(u, m) # {} => Within(PlanRowsIn(u, m))
  BY DEF IInv, PlanCapHeld
<1>3. CASE PlanRowsIn(u, m)' = PlanRowsIn(u, m)
  BY <1>2, <1>3
<1>4. ASSUME NEW r \in Requests, Draw(r), ledger' = ledger \cup {NewRow(r)},
             who[r] = u, source[r] = "plan", MonthStart[now[r]] = m
      PROVE  Within(PlanRowsIn(u, m)')
  <2> DEFINE before == PlanRowsIn(u, m)
             t == now[r]
  <2>1. t \in Time /\ pc[r] = "drawing"
    BY <1>1, <1>4 DEF Draw, GoTo, TypeOK
  <2>2. PlanCovers(plan[r], PlanUsed(u, t))
    BY <1>1, <1>4, <2>1 DEF DrawCovered
  <2>3. PlanRowsIn(u, m)' = before \cup {NewRow(r)}
    BY <1>4 DEF PlanRowsIn, RowsOf, NewRow
  <2>4. before \subseteq PlanRowsSince(u, t)
    <3>1. \A row \in before : row.at \in Time
      BY <1>1 DEF TypeOK, LedgerRow, PlanRowsIn, RowsOf
    <3>2. \A row \in before : MonthStart[row.at] <= row.at
      BY <3>1, MeteringAssumption
    <3> QED BY <1>4, <3>2 DEF PlanRowsIn, PlanRowsSince
  <2>5. /\ IsFiniteSet(before)
        /\ Cardinality(before) \in Nat /\ PlanUsed(u, t) \in Nat
        /\ Cardinality(before) <= PlanUsed(u, t)
    BY <1>1, <2>4, CountsAreNumbers, FS_Subset DEF PlanUsed
  <2>6. /\ Cardinality(before \cup {NewRow(r)}) \in Nat
        /\ Cardinality(before \cup {NewRow(r)}) <= Cardinality(before) + 1
    BY <2>5, OneRowMore
  <2>7. PlanCap(plan[r]) = NoCap \/ PlanCap(plan[r]) \in Nat
    BY PricingAssumption DEF PlanCap, FeaturesOf, PlanFeatures
  <2>8. \/ PlanCap(plan[r]) = NoCap
        \/ Cardinality(before \cup {NewRow(r)}) <= PlanCap(plan[r])
    BY <2>2, <2>5, <2>6, <2>7 DEF PlanCovers
  <2>9. NewRow(r) \in PlanRowsIn(u, m)' /\ NewRow(r).plan = plan[r]
    BY <2>3 DEF NewRow
  <2> QED BY <2>3, <2>8, <2>9
<1>5. ASSUME NEW r \in Requests, Draw(r), ledger' = ledger \cup {NewRow(r)},
             ~(who[r] = u /\ source[r] = "plan" /\ MonthStart[now[r]] = m)
      PROVE  PlanRowsIn(u, m)' = PlanRowsIn(u, m)
  BY <1>5 DEF PlanRowsIn, RowsOf, NewRow
<1>6. CASE ledger' = ledger
  <2>1. PlanRowsIn(u, m)' = PlanRowsIn(u, m)
    BY <1>6 DEF PlanRowsIn, RowsOf
  <2> QED BY <1>3, <2>1
<1> QED BY <1>3, <1>4, <1>5, <1>6, LedgerSteps

LEMMA NextIInv == IInv /\ [Next]_vars => IInv'
<1> SUFFICES ASSUME IInv, [Next]_vars PROVE IInv'
  OBVIOUS
<1>1. TypeOK'
  BY TypeStep DEF IInv
<1>2. IsFiniteSet(ledger)'
  BY LedgerSteps, FS_AddElement DEF IInv
<1>3. LockExclusive'
  BY LockStep DEF IInv
<1>4. DrawCovered'
  BY CoveredStep DEF IInv
<1>5. FreeAllowanceHeld'
  BY FreeStep
<1>6. PlanCapHeld'
  BY PlanStep
<1> QED BY <1>1, <1>2, <1>3, <1>4, <1>5, <1>6 DEF IInv

-----------------------------------------------------------------------------
(***************************************************************************)
(* The inductive invariant holds throughout every behaviour.               *)
(***************************************************************************)
THEOREM Invariance == Spec => []IInv
BY InitIInv, NextIInv, PTL DEF Spec

(***************************************************************************)
(* Every variable always has its type (routes.py analyze).                 *)
(***************************************************************************)
THEOREM TypeCorrect == Spec => []TypeOK
<1>1. IInv => TypeOK
  BY DEF IInv
<1> QED BY <1>1, Invariance, PTL

(***************************************************************************)
(* No number of racing requests draws more free analyses than the free     *)
(* allowance and the redeemed promotions add up to.                        *)
(***************************************************************************)
THEOREM FreeAllowance == Spec => []FreeAllowanceHeld
<1>1. IInv => FreeAllowanceHeld
  BY DEF IInv
<1> QED BY <1>1, Invariance, PTL

(***************************************************************************)
(* No number of racing requests takes a calendar month's plan draws past   *)
(* the cap of the plans they were drawn under.                             *)
(***************************************************************************)
THEOREM PlanCaps == Spec => []PlanCapHeld
<1>1. IInv => PlanCapHeld
  BY DEF IInv
<1> QED BY <1>1, Invariance, PTL

-----------------------------------------------------------------------------
(***************************************************************************)
(* Saved analyses and ended requests stay.  Every row carries what its     *)
(* request asked, and its request is over.                                 *)
(***************************************************************************)
SavedAsAsked ==
    \A row \in analyses :
        /\ row.user = who[row.req] /\ row.input = what[row.req] /\ row.at = now[row.req]
        /\ pc[row.req] = "served"

EarlierEnded == \A r \in Requests : \A q \in earlier[r] : pc[q] \in Ended

(***************************************************************************)
(* A request past its duplicate lookup found nothing recent among what     *)
(* ended before it came.                                                   *)
(***************************************************************************)
PastLookup == {"rating", "working", "unflushed", "flushed", "locked", "drawing", "served"}

CheckedApart ==
    \A r \in Requests : pc[r] \in PastLookup =>
        \A row \in analyses :
            row.req \in earlier[r] /\ row.user = who[r] /\ row.input = what[r] =>
                ~(row.at >= now[r] - DuplicateWindow)

HInv == TypeOK /\ SavedAsAsked /\ EarlierEnded /\ CheckedApart

LEMMA ApartSuffices == HInv => PatientClientNotChargedTwice
<1> SUFFICES ASSUME HInv, NEW a \in analyses, NEW b \in analyses,
                    a.user = b.user, a.input = b.input,
                    a.at - b.at \in 0 .. DuplicateWindow, Sequential(a.req, b.req)
             PROVE  FALSE
  BY DEF PatientClientNotChargedTwice
<1>1. /\ a.at \in Time /\ b.at \in Time /\ a.req \in Requests /\ b.req \in Requests
      /\ pc[a.req] \in PastLookup /\ pc[b.req] \in PastLookup
      /\ a.at = now[a.req] /\ b.at = now[b.req]
      /\ a.user = who[a.req] /\ b.user = who[b.req]
      /\ a.input = what[a.req] /\ b.input = what[b.req]
  BY DEF HInv, TypeOK, AnalysisRow, SavedAsAsked, PastLookup
<1>2. /\ a.at \in Int /\ b.at \in Int /\ DuplicateWindow \in Nat
      /\ a.at >= b.at /\ a.at - b.at <= DuplicateWindow
  BY <1>1, MeteringAssumption DEF Time
<1>3. CASE a.req \in earlier[b.req]
  <2>1. ~(a.at >= b.at - DuplicateWindow)
    BY <1>1, <1>3 DEF HInv, CheckedApart
  <2> QED BY <1>2, <2>1
<1>4. CASE b.req \in earlier[a.req]
  <2>1. ~(b.at >= a.at - DuplicateWindow)
    BY <1>1, <1>4 DEF HInv, CheckedApart
  <2> QED BY <1>2, <2>1
<1> QED BY <1>3, <1>4 DEF Sequential

(***************************************************************************)
(* A step either receives one request, moves one request on, or leaves the *)
(* requests alone.                                                         *)
(***************************************************************************)
LEMMA RequestSteps ==
    ASSUME TypeOK, [Next]_vars
    PROVE  \/ \E r \in Requests : Receive(r)
           \/ \E r \in Requests :
                /\ request' = request /\ pc[r] \in Running
                /\ \A q \in Requests \ {r} : pc'[q] = pc[q]
                /\ \/ LookUpDuplicate(r) /\ analyses' = analyses
                   \/ Draw(r)
                   \/ /\ analyses' = analyses
                      /\ pc'[r] \in PastLookup => pc[r] \in PastLookup
           \/ request' = request /\ pc' = pc /\ analyses' = analyses
<1>1. ASSUME NEW r \in Requests, Step(r), ~Receive(r)
      PROVE  /\ request' = request /\ pc[r] \in Running
             /\ \A q \in Requests \ {r} : pc'[q] = pc[q]
             /\ \/ LookUpDuplicate(r) /\ analyses' = analyses
                \/ Draw(r)
                \/ /\ analyses' = analyses
                   /\ pc'[r] \in PastLookup => pc[r] \in PastLookup
  BY <1>1 DEF Step, CheckEntitlement, LookUpDuplicate, StopAtLimit, CheckRate, Refuse,
              WorkRecorded, WorkUnrecorded, LockUser, Recheck, Draw, DeadlockVictim, GoTo,
              TypeOK, Running, PastLookup, request, tables
<1>2. ASSUME NEW r \in Requests, Crash(r)
      PROVE  /\ request' = request /\ pc[r] \in Running /\ analyses' = analyses
             /\ \A q \in Requests \ {r} : pc'[q] = pc[q]
             /\ pc'[r] \notin PastLookup
  BY <1>2 DEF Crash, TypeOK, PastLookup, request, tables
<1>3. ASSUME Environment \/ UNCHANGED vars
      PROVE  request' = request /\ pc' = pc /\ analyses' = analyses
  BY <1>3 DEF Environment, SetRole, Redeem, SubscriptionsChange, Tick, vars, request, tables
<1> QED BY <1>1, <1>2, <1>3 DEF Next

LEMMA NextHInv == IInv /\ HInv /\ [Next]_vars => HInv'
<1> SUFFICES ASSUME IInv, HInv, [Next]_vars PROVE HInv'
  OBVIOUS
<1>1. TypeOK /\ TypeOK' /\ SavedAsAsked /\ EarlierEnded /\ CheckedApart
  BY TypeStep DEF HInv, IInv
<1>2. CASE request' = request /\ pc' = pc /\ analyses' = analyses
  BY <1>1, <1>2 DEF HInv, SavedAsAsked, EarlierEnded, CheckedApart, request
<1>3. ASSUME NEW r \in Requests, Receive(r) PROVE HInv'
  <2>1. /\ analyses' = analyses /\ who' = who /\ what' = what
        /\ now' = [now EXCEPT ![r] = clock] /\ pc[r] = "idle"
        /\ pc' = [pc EXCEPT ![r] = "checking"]
        /\ earlier' = [earlier EXCEPT ![r] = {q \in Requests : pc[q] \in Ended}]
    BY <1>3 DEF Receive, GoTo, tables
  <2>2. \A row \in analyses : row.req \in Requests /\ row.req # r
    BY <1>1, <2>1 DEF SavedAsAsked, TypeOK, AnalysisRow
  <2>3. SavedAsAsked'
    BY <1>1, <2>1, <2>2 DEF SavedAsAsked, TypeOK
  <2>4. EarlierEnded'
    BY <1>1, <2>1 DEF EarlierEnded, Ended, TypeOK
  <2>5. CheckedApart'
    BY <1>1, <2>1 DEF CheckedApart, PastLookup, TypeOK
  <2> QED BY <1>1, <2>3, <2>4, <2>5 DEF HInv
<1>4. ASSUME NEW r \in Requests, request' = request, pc[r] \in Running,
             \A q \in Requests \ {r} : pc'[q] = pc[q],
             \/ LookUpDuplicate(r) /\ analyses' = analyses
             \/ Draw(r)
             \/ analyses' = analyses /\ (pc'[r] \in PastLookup => pc[r] \in PastLookup)
      PROVE  HInv'
  <2>1. who' = who /\ what' = what /\ now' = now /\ earlier' = earlier
    BY <1>4 DEF request
  <2>2. pc[r] \notin Ended
    BY <1>4 DEF Running, Ended
  <2>3. EarlierEnded'
    BY <1>1, <1>4, <2>1, <2>2 DEF EarlierEnded, TypeOK
  <2>4. \A row \in analyses : row.req \in Requests /\ row.req # r
    BY <1>1, <2>2 DEF SavedAsAsked, TypeOK, AnalysisRow, Ended
  <2>5. CASE Draw(r)
    <3> DEFINE row0 == [req |-> r, user |-> who[r], input |-> what[r], at |-> now[r]]
    <3>1. analyses' = analyses \cup {row0} /\ pc[r] = "drawing" /\ pc'[r] = "served"
      BY <1>1, <2>5 DEF Draw, GoTo, TypeOK
    <3>2. SavedAsAsked'
      BY <1>1, <1>4, <2>1, <2>4, <3>1 DEF SavedAsAsked
    <3>3. \A q \in Requests : r \notin earlier[q]
      BY <1>1, <2>2 DEF EarlierEnded
    <3>4. CheckedApart'
      BY <1>1, <1>4, <2>1, <3>1, <3>3 DEF CheckedApart, PastLookup
    <3> QED BY <1>1, <2>3, <3>2, <3>4 DEF HInv
  <2>6. CASE analyses' = analyses
    <3>1. SavedAsAsked'
      BY <1>1, <1>4, <2>1, <2>4, <2>6 DEF SavedAsAsked
    <3>2. CASE pc'[r] \in PastLookup => pc[r] \in PastLookup
      BY <1>1, <1>4, <2>1, <2>3, <2>6, <3>1, <3>2 DEF HInv, CheckedApart
    <3>3. CASE LookUpDuplicate(r) /\ pc'[r] \in PastLookup
      <4>1. Duplicates(who[r], what[r], now[r]) = {}
        BY <1>1, <3>3 DEF LookUpDuplicate, PastLookup, TypeOK
      <4>2. \A row \in analyses : row.user = who[r] /\ row.input = what[r] =>
                ~(row.at >= now[r] - DuplicateWindow)
        BY <4>1 DEF Duplicates
      <4>3. CheckedApart'
        BY <1>1, <1>4, <2>1, <2>6, <4>2 DEF CheckedApart
      <4> QED BY <1>1, <2>3, <3>1, <4>3 DEF HInv
    <3> QED BY <1>4, <3>2, <3>3, <2>5
  <2> QED BY <1>4, <2>5, <2>6
<1> QED BY <1>1, <1>2, <1>3, <1>4, RequestSteps

(***************************************************************************)
(* A client that waits for each answer is never charged twice for the same *)
(* inputs within the duplicate window, whatever else runs meanwhile.       *)
(***************************************************************************)
THEOREM PatientClient == Spec => []PatientClientNotChargedTwice
<1>1. Init => HInv
  BY InitIInv DEF HInv, IInv, Init, SavedAsAsked, EarlierEnded, CheckedApart, PastLookup
<1>2. Spec => []HInv
  BY <1>1, NextHInv, Invariance, PTL DEF Spec
<1> QED BY <1>2, ApartSuffices, PTL
-----------------------------------------------------------------------------
(***************************************************************************)
(* What a request that is turned away found spent: the free allowance,     *)
(* promotions included, and the cap of its plan.  Rows are never taken     *)
(* back, so what was spent stays spent.                                    *)
(***************************************************************************)
Spent(r) ==
    /\ FreeUsed(who[r]) >= FreeAnalyses + granted[r]
    /\ ~PlanCovers(plan[r], PlanUsed(who[r], now[r]))
    /\ asRole[r] # "admin"

StopsWhenSpent ==
    \A r \in Requests :
        /\ pc[r] \in {"stopping", "limit"} => source[r] = "none"
        /\ pc[r] \in {"lookup", "stopping", "limit"} /\ source[r] = "none" => Spent(r)

LEMMA NoSourceNoneLeft ==
    ASSUME NEW x, NEW p, NEW planUsed, NEW freeUsed \in Nat, NEW added \in Nat,
           CreditSource(x, p, planUsed, freeUsed, added) = "none"
    PROVE  freeUsed >= FreeAnalyses + added /\ ~PlanCovers(p, planUsed) /\ x # "admin"
<1>1. x # "admin" /\ ~PlanCovers(p, planUsed) /\ ~FreeCovers(freeUsed, added)
  BY DEF CreditSource
<1> QED BY <1>1, PricingAssumption DEF FreeCovers

LEMMA FreeUsedGrows ==
    ASSUME IInv, [Next]_vars, NEW u
    PROVE  FreeUsed(u) \in Nat /\ FreeUsed(u)' \in Nat /\ FreeUsed(u)' >= FreeUsed(u)
<1>1. IsFiniteSet(RowsOf(u, "free")) /\ IsFiniteSet(RowsOf(u, "free")')
  BY NextIInv, FS_Subset DEF IInv, RowsOf
<1>2. RowsOf(u, "free") \subseteq RowsOf(u, "free")'
  BY LedgerSteps DEF RowsOf
<1> QED BY <1>1, <1>2, FS_CardinalityType, FS_Subset DEF FreeUsed

LEMMA PlanUsedGrows ==
    ASSUME IInv, [Next]_vars, NEW u, NEW t
    PROVE  /\ PlanUsed(u, t) \in Nat /\ PlanUsed(u, t)' \in Nat
           /\ PlanUsed(u, t)' >= PlanUsed(u, t)
<1>1. IsFiniteSet(PlanRowsSince(u, t)) /\ IsFiniteSet(PlanRowsSince(u, t)')
  BY NextIInv, FS_Subset DEF IInv, PlanRowsSince, RowsOf
<1>2. PlanRowsSince(u, t) \subseteq PlanRowsSince(u, t)'
  BY LedgerSteps DEF PlanRowsSince, RowsOf
<1> QED BY <1>1, <1>2, FS_CardinalityType, FS_Subset DEF PlanUsed

(***************************************************************************)
(* A plan that is spent stays spent.                                       *)
(***************************************************************************)
LEMMA CoverEnds ==
    ASSUME NEW p \in Plans \cup {NoPlan}, NEW used \in Nat, NEW later \in Nat, later >= used,
           ~PlanCovers(p, used)
    PROVE  ~PlanCovers(p, later)
<1>1. CASE p = NoPlan
  BY <1>1 DEF PlanCovers
<1>2. CASE p # NoPlan
  <2>1. PlanCap(p) \in Nat \cup {NoCap}
    BY PricingAssumption DEF PlanCap, FeaturesOf, PlanFeatures
  <2> QED BY <1>2, <2>1 DEF PlanCovers
<1> QED BY <1>1, <1>2

LEMMA StaysSpent ==
    ASSUME IInv, [Next]_vars, NEW r \in Requests, Spent(r), who'[r] = who[r], now'[r] = now[r],
           plan'[r] = plan[r], granted'[r] = granted[r], asRole'[r] = asRole[r]
    PROVE  Spent(r)'
<1> PICK u \in Users, t \in Time, p \in Plans \cup {NoPlan}, g \in Nat :
        who[r] = u /\ now[r] = t /\ plan[r] = p /\ granted[r] = g
  BY DEF IInv, TypeOK
<1>1. /\ FreeUsed(u) \in Nat /\ FreeUsed(u)' \in Nat /\ FreeUsed(u)' >= FreeUsed(u)
      /\ PlanUsed(u, t) \in Nat /\ PlanUsed(u, t)' \in Nat /\ PlanUsed(u, t)' >= PlanUsed(u, t)
  BY FreeUsedGrows, PlanUsedGrows
<1>2. ~PlanCovers(p, PlanUsed(u, t))
  BY DEF Spent
<1>3. ~PlanCovers(p, PlanUsed(u, t)')
  BY <1>1, <1>2, CoverEnds
<1>4. FreeUsed(u)' >= FreeAnalyses + g
  BY <1>1, PricingAssumption DEF Spent
<1> QED BY <1>3, <1>4 DEF Spent

(***************************************************************************)
(* Entitlements that name no source were computed from what is spent.      *)
(***************************************************************************)
LEMMA ReadsWhatIsSpent ==
    ASSUME TypeOK, IsFiniteSet(ledger), NEW r \in Requests, ReadEntitlements(r),
           UNCHANGED <<who, now, asRole, ledger>>, source'[r] = "none"
    PROVE  Spent(r)'
<1>1. /\ FreeUsed(who[r]) \in Nat /\ promo[who[r]] \in Nat
      /\ FreeUsed(who[r])' = FreeUsed(who[r])
      /\ PlanUsed(who[r], now[r])' = PlanUsed(who[r], now[r])
  BY CountsAreNumbers DEF TypeOK, FreeUsed, PlanUsed, PlanRowsSince, RowsOf
<1>2. PICK p : /\ source'[r] = CreditSource(asRole[r], p, PlanUsed(who[r], now[r]),
                                            FreeUsed(who[r]), promo[who[r]])
               /\ plan'[r] = p /\ granted'[r] = promo[who[r]]
  BY DEF ReadEntitlements, TypeOK
<1> QED BY <1>1, <1>2, NoSourceNoneLeft DEF Spent

LEMMA NextStopsWhenSpent == IInv /\ StopsWhenSpent /\ [Next]_vars => StopsWhenSpent'
<1> SUFFICES ASSUME IInv, StopsWhenSpent, [Next]_vars PROVE StopsWhenSpent'
  OBVIOUS
<1>1. TypeOK /\ IsFiniteSet(ledger)
  BY DEF IInv
<1> DEFINE spent(r) ==
        pc[r] \in {"lookup", "stopping", "limit"} /\ source[r] = "none" => Spent(r)
           stops(r) == pc[r] \in {"stopping", "limit"} => source[r] = "none"
           keeps(r) == /\ source'[r] = source[r] /\ plan'[r] = plan[r] /\ granted'[r] = granted[r]
                       /\ who'[r] = who[r] /\ now'[r] = now[r] /\ asRole'[r] = asRole[r]
<1>2. ASSUME NEW r \in Requests, keeps(r),
             \/ pc'[r] = pc[r]
             \/ /\ pc[r] \in {"lookup", "stopping"}
                /\ pc'[r] \in {"stopping", "limit"} => source[r] = "none"
             \/ pc'[r] \notin {"lookup", "stopping", "limit"}
      PROVE  spent(r)' /\ stops(r)'
  BY <1>2, StaysSpent DEF StopsWhenSpent
<1>3. ASSUME NEW r \in Requests, Step(r) \/ Crash(r)
      PROVE  spent(r)' /\ stops(r)'
  <2>1. CASE CheckEntitlement(r)
    BY <1>1, <2>1, ReadsWhatIsSpent DEF CheckEntitlement, GoTo, request, tables, TypeOK
  <2>2. CASE Recheck(r)
    BY <1>1, <2>2, ReadsWhatIsSpent DEF Recheck, request, tables, TypeOK
  <2>3. CASE LookUpDuplicate(r)
    BY <1>1, <1>2, <2>3 DEF LookUpDuplicate, request, TypeOK
  <2>4. CASE StopAtLimit(r)
    BY <1>1, <1>2, <2>4 DEF StopAtLimit, GoTo, request, TypeOK, StopsWhenSpent
  <2>5. CASE \/ Receive(r) \/ CheckRate(r) \/ Refuse(r) \/ WorkRecorded(r)
             \/ WorkUnrecorded(r) \/ LockUser(r) \/ Draw(r) \/ DeadlockVictim(r) \/ Crash(r)
    BY <1>1, <2>5 DEF Receive, CheckRate, Refuse, WorkRecorded, WorkUnrecorded, LockUser, Draw,
                      DeadlockVictim, Crash, GoTo, TypeOK
  <2> QED BY <1>3, <2>1, <2>2, <2>3, <2>4, <2>5 DEF Step
<1>4. ASSUME NEW q \in Requests, Step(q) \/ Crash(q), NEW r \in Requests, r # q
      PROVE  pc'[r] = pc[r] /\ keeps(r)
  BY <1>1, <1>4, RequestSteps DEF TypeOK, Step, Receive, CheckEntitlement, LookUpDuplicate,
     StopAtLimit, CheckRate, Refuse, WorkRecorded, WorkUnrecorded, LockUser, Recheck, Draw,
     DeadlockVictim, Crash, GoTo, ReadEntitlements, request
<1>5. ASSUME Environment \/ UNCHANGED vars, NEW r \in Requests
      PROVE  pc'[r] = pc[r] /\ keeps(r)
  BY <1>5 DEF Environment, SetRole, Redeem, SubscriptionsChange, Tick, vars, request
<1>6. \A r \in Requests : spent(r)' /\ stops(r)'
  BY <1>2, <1>3, <1>4, <1>5 DEF Next
<1> QED BY <1>6 DEF StopsWhenSpent

(***************************************************************************)
(* Nobody is turned away with a 402 while free analyses, those of          *)
(* promotions redeemed by the refusing read included, or credits of the    *)
(* plan that governs are left, and no administrator ever is.               *)
(***************************************************************************)
THEOREM LimitOnlySpent == Spec => []LimitOnlyWhenSpent
<1>1. Init => StopsWhenSpent
  BY DEF Init, StopsWhenSpent
<1>2. StopsWhenSpent => LimitOnlyWhenSpent
  BY DEF StopsWhenSpent, Spent, LimitOnlyWhenSpent, TurnedAway
<1>3. Spec => []StopsWhenSpent
  BY <1>1, Invariance, NextStopsWhenSpent, PTL DEF Spec
<1> QED BY <1>2, <1>3, PTL

-----------------------------------------------------------------------------
(***************************************************************************)
(* Ledger rows carry what their request read, and come after every request *)
(* that had ended before; what had ended before an earlier request had     *)
(* ended before a later one.                                               *)
(***************************************************************************)
DrawnAsAsked ==
    \A row \in ledger :
        /\ row.user = who[row.req] /\ row.at = now[row.req] /\ pc[row.req] = "served"
        /\ row.source = "unlimited" => asRole[row.req] = "admin"
        /\ asRole[row.req] = "admin" => row.source = "unlimited"

EarlierNested ==
    \A r \in Requests : r \notin earlier[r] /\ \A q \in earlier[r] : earlier[q] \subseteq earlier[r]

(***************************************************************************)
(* The source is "unlimited" exactly for those authenticated as an         *)
(* administrator, at both checks.                                          *)
(***************************************************************************)
SourceShowsRole ==
    \A r \in Requests : pc[r] \in PastLookup \cup {"lookup"} =>
        (source[r] = "unlimited" <=> asRole[r] = "admin")

(***************************************************************************)
(* A request past the hourly limit, unless it is an administrator's, found *)
(* less than the limit among what ended before it came.  Nothing that came *)
(* after it can change what that was.                                      *)
(***************************************************************************)
Rated == {"working", "unflushed", "flushed", "locked", "drawing", "served"}

EarlierDraws(r) == {row \in Recent(who[r], now[r]) : row.req \in earlier[r]}

CheckedRate ==
    \A r \in Requests : pc[r] \in Rated /\ asRole[r] # "admin" =>
        Cardinality(EarlierDraws(r)) < RateLimit

RInv == DrawnAsAsked /\ EarlierNested /\ SourceShowsRole /\ CheckedRate

(***************************************************************************)
(* Of requests made one after the other, one came last: the one before     *)
(* which most had ended.                                                   *)
(***************************************************************************)
LEMMA LastOfAll ==
    ASSUME TypeOK, NEW S, S # {}, \A a \in S : a.req \in Requests
    PROVE  \E b \in S : \A a \in S :
               Cardinality(earlier[a.req]) <= Cardinality(earlier[b.req])
<1>1. IsFiniteSet(Requests) /\ Cardinality(Requests) \in Nat
  BY MeteringAssumption, FS_CardinalityType
<1>2. PICK K : K = Cardinality(Requests) /\ K \in Nat
  BY <1>1
<1>3. ASSUME NEW a \in S
      PROVE  Cardinality(earlier[a.req]) \in Nat /\ Cardinality(earlier[a.req]) <= K
  <2>1. earlier[a.req] \in SUBSET Requests
    BY DEF TypeOK
  <2> QED BY <1>1, <1>2, <2>1, FS_Subset, FS_CardinalityType
<1> DEFINE T == {K - Cardinality(earlier[a.req]) : a \in S}
<1>4. T \in SUBSET Nat /\ T # {}
  BY <1>2, <1>3
<1>5. PICK n \in T : \A m \in T : n <= m
  <2> HIDE DEF T
  <2> QED BY <1>4, LeastNat
<1>6. PICK b \in S : n = K - Cardinality(earlier[b.req])
  BY <1>5
<1>7. ASSUME NEW a \in S
      PROVE  Cardinality(earlier[a.req]) <= Cardinality(earlier[b.req])
  <2>1. K - Cardinality(earlier[b.req]) <= K - Cardinality(earlier[a.req])
    BY <1>5, <1>6
  <2> QED BY <1>2, <1>3, <2>1
<1> QED BY <1>7

LEMMA RateSuffices == IInv /\ HInv /\ RInv => PatientClientRateLimited
<1> SUFFICES ASSUME IInv, HInv, RInv, NEW u \in Users, NEW t \in Time,
                    NEW S \in SUBSET InWindow(u, t),
                    \A a, b \in S : a = b \/ Sequential(a.req, b.req)
             PROVE  Cardinality(S) <= RateLimit
  BY DEF PatientClientRateLimited
<1>1. /\ TypeOK /\ IsFiniteSet(ledger) /\ EarlierEnded /\ RateLimit \in Nat /\ RateWindow \in Nat
      /\ IsFiniteSet(Requests) /\ t \in Int
  BY MeteringAssumption DEF IInv, HInv, Time
<1>2. /\ S \subseteq ledger /\ IsFiniteSet(S)
      /\ \A a \in S : /\ a.req \in Requests /\ a.user = u /\ a.source # "unlimited"
                      /\ a.at \in Int /\ a.at >= t - RateWindow /\ a.at <= t
  <2>1. S \subseteq ledger
    BY DEF InWindow
  <2>2. IsFiniteSet(S)
    BY <1>1, <2>1, FS_Subset
  <2>3. \A a \in S : a.req \in Requests /\ a.at \in Int
    BY <1>1, <2>1 DEF TypeOK, LedgerRow, Time
  <2> QED BY <1>1, <2>1, <2>2, <2>3 DEF InWindow
<1>3. CASE S = {}
  BY <1>1, <1>3, FS_EmptySet
<1>4. CASE S # {}
  <2>1. PICK b \in S : \A a \in S : Cardinality(earlier[a.req]) <= Cardinality(earlier[b.req])
    BY <1>1, <1>2, <1>4, LastOfAll
  <2>2. ASSUME NEW a \in S, a # b PROVE a.req \in earlier[b.req]
    <3> SUFFICES ASSUME b.req \in earlier[a.req] PROVE FALSE
      BY <2>2 DEF Sequential
    <3>1. /\ earlier[b.req] \subseteq earlier[a.req] /\ b.req \notin earlier[b.req]
          /\ earlier[a.req] \in SUBSET Requests
      BY <1>1, <1>2 DEF RInv, EarlierNested, TypeOK
    <3>2. IsFiniteSet(earlier[a.req])
      BY <1>1, <3>1, FS_Subset
    <3>3. earlier[b.req] \subseteq earlier[a.req] \ {b.req}
      BY <3>1
    <3>4. PICK before : before = earlier[a.req] \ {b.req}
      OBVIOUS
    <3>5. /\ IsFiniteSet(before) /\ Cardinality(before) = Cardinality(earlier[a.req]) - 1
          /\ Cardinality(earlier[a.req]) \in Nat
      BY <3>2, <3>4, FS_RemoveElement, FS_CardinalityType
    <3>6. /\ Cardinality(earlier[b.req]) \in Nat
          /\ Cardinality(earlier[b.req]) <= Cardinality(before)
      BY <3>3, <3>4, <3>5, FS_Subset, FS_CardinalityType
    <3> QED BY <2>1, <3>5, <3>6
  <2>3. /\ b \in ledger /\ b.req \in Requests /\ who[b.req] = u /\ now[b.req] = b.at
        /\ pc[b.req] \in Rated /\ asRole[b.req] # "admin"
    BY <1>2 DEF RInv, DrawnAsAsked, Rated
  <2>4. Cardinality(EarlierDraws(b.req)) < RateLimit
    BY <2>3 DEF RInv, CheckedRate
  <2>5. S \ {b} \subseteq EarlierDraws(b.req)
    <3> SUFFICES ASSUME NEW a \in S, a # b PROVE a \in EarlierDraws(b.req)
      OBVIOUS
    <3>1. a.at >= now[b.req] - RateWindow
      BY <1>1, <1>2, <2>3
    <3> QED BY <1>2, <2>2, <2>3, <3>1 DEF EarlierDraws, Recent
  <2>6. IsFiniteSet(EarlierDraws(b.req))
    BY <1>1, FS_Subset DEF EarlierDraws, Recent
  <2>7. PICK others : others = S \ {b}
    OBVIOUS
  <2>8. /\ Cardinality(others) = Cardinality(S) - 1 /\ Cardinality(S) \in Nat
    BY <1>2, <2>7, FS_RemoveElement, FS_CardinalityType
  <2>9. /\ Cardinality(others) <= Cardinality(EarlierDraws(b.req))
        /\ Cardinality(EarlierDraws(b.req)) \in Nat
    BY <2>5, <2>6, <2>7, FS_Subset, FS_CardinalityType
  <2> QED BY <1>1, <2>4, <2>8, <2>9
<1> QED BY <1>3, <1>4

(***************************************************************************)
(* What the steps do to what the rate limit depends on.                    *)
(***************************************************************************)
LEMMA SourceOfRole ==
    ASSUME TypeOK, NEW r \in Requests, ReadEntitlements(r)
    PROVE  /\ source'[r] = "unlimited" <=> asRole[r] = "admin"
           /\ \A q \in Requests \ {r} : source'[q] = source[q]
<1>1. PICK p : source' = [source EXCEPT ![r] = CreditSource(asRole[r], p, PlanUsed(who[r], now[r]),
                                                          FreeUsed(who[r]), promo[who[r]])]
  BY DEF ReadEntitlements
<1> QED BY <1>1 DEF TypeOK, CreditSource

\* A request r, in the middle of its work, moves on.
MovesOn(r) ==
    /\ request' = request /\ pc[r] \in Running
    /\ \A q \in Requests \ {r} : pc'[q] = pc[q] /\ source'[q] = source[q]

LEMMA RatingSteps ==
    ASSUME TypeOK, [Next]_vars
    PROVE  \/ \E r \in Requests : Receive(r)
           \/ \E r \in Requests :
                /\ MovesOn(r)
                /\ \/ /\ ReadEntitlements(r) /\ ledger' = ledger
                      /\ pc'[r] \in Rated => pc[r] \in Rated
                   \/ /\ source' = source /\ ledger' = ledger
                      /\ pc'[r] \in PastLookup \cup {"lookup"} =>
                            pc[r] \in PastLookup \cup {"lookup"}
                      /\ \/ pc'[r] \in Rated => pc[r] \in Rated
                         \/ pc[r] = "lookup" /\ source[r] = "unlimited"
                         \/ CheckRate(r)
                   \/ Draw(r) /\ source' = source
           \/ request' = request /\ pc' = pc /\ source' = source /\ ledger' = ledger
<1>1. ASSUME NEW r \in Requests, Step(r), ~Receive(r)
      PROVE  request' = request /\ pc[r] \in Running /\ \A q \in Requests \ {r} : pc'[q] = pc[q]
  BY <1>1, RequestSteps DEF Step, CheckEntitlement, LookUpDuplicate, StopAtLimit, CheckRate,
              Refuse, WorkRecorded, WorkUnrecorded, LockUser, Recheck, Draw, DeadlockVictim, GoTo,
              TypeOK, Running, request
<1>2. ASSUME NEW r \in Requests, CheckEntitlement(r) \/ Recheck(r)
      PROVE  /\ ReadEntitlements(r) /\ ledger' = ledger
             /\ pc'[r] \in Rated => pc[r] \in Rated
  BY <1>2 DEF CheckEntitlement, Recheck, GoTo, tables, TypeOK, Rated
<1>3. ASSUME NEW r \in Requests,
             \/ StopAtLimit(r) \/ Refuse(r) \/ WorkRecorded(r) \/ WorkUnrecorded(r)
             \/ LockUser(r) \/ DeadlockVictim(r) \/ Crash(r)
      PROVE  /\ source' = source /\ ledger' = ledger
             /\ pc'[r] \in PastLookup \cup {"lookup"} => pc[r] \in PastLookup \cup {"lookup"}
             /\ pc'[r] \in Rated => pc[r] \in Rated
  BY <1>3 DEF StopAtLimit, Refuse, WorkRecorded, WorkUnrecorded, LockUser, DeadlockVictim, Crash,
              GoTo, tables, TypeOK, Rated, PastLookup
<1>4. ASSUME NEW r \in Requests, LookUpDuplicate(r)
      PROVE  /\ source' = source /\ ledger' = ledger /\ pc[r] = "lookup"
             /\ pc'[r] \in Rated => source[r] = "unlimited"
  BY <1>4 DEF LookUpDuplicate, tables, TypeOK, Rated
<1>5. ASSUME NEW r \in Requests, CheckRate(r)
      PROVE  source' = source /\ ledger' = ledger /\ pc[r] \in PastLookup
  BY <1>5 DEF CheckRate, tables, PastLookup
<1>6. ASSUME NEW r \in Requests, Draw(r) PROVE source' = source
  BY <1>6 DEF Draw
<1>7. ASSUME NEW r \in Requests, Crash(r)
      PROVE  request' = request /\ pc[r] \in Running /\ \A q \in Requests \ {r} : pc'[q] = pc[q]
  BY <1>7 DEF Crash, TypeOK
<1>8. ASSUME NEW r \in Requests, Step(r) \/ Crash(r), ~Receive(r) PROVE MovesOn(r)
  <2>1. request' = request /\ pc[r] \in Running /\ \A q \in Requests \ {r} : pc'[q] = pc[q]
    BY <1>1, <1>7, <1>8
  <2>2. \/ ReadEntitlements(r) \/ source' = source
    BY <1>2, <1>3, <1>4, <1>5, <1>6, <1>8 DEF Step
  <2> QED BY <2>1, <2>2, SourceOfRole DEF MovesOn
<1>9. ASSUME Environment \/ UNCHANGED vars
      PROVE  request' = request /\ pc' = pc /\ source' = source /\ ledger' = ledger
  BY <1>9 DEF Environment, SetRole, Redeem, SubscriptionsChange, Tick, vars, request, tables
<1>10. ASSUME NEW r \in Requests, Step(r) \/ Crash(r), ~Receive(r)
       PROVE  \/ /\ ReadEntitlements(r) /\ ledger' = ledger
                 /\ pc'[r] \in Rated => pc[r] \in Rated
              \/ /\ source' = source /\ ledger' = ledger
                 /\ pc'[r] \in PastLookup \cup {"lookup"} => pc[r] \in PastLookup \cup {"lookup"}
                 /\ \/ pc'[r] \in Rated => pc[r] \in Rated
                    \/ pc[r] = "lookup" /\ source[r] = "unlimited"
                    \/ CheckRate(r)
              \/ Draw(r) /\ source' = source
  BY <1>2, <1>3, <1>4, <1>5, <1>6, <1>10 DEF Step
<1> QED BY <1>8, <1>9, <1>10 DEF Next

LEMMA NextRInv == IInv /\ HInv /\ RInv /\ [Next]_vars => RInv'
<1> SUFFICES ASSUME IInv, HInv, RInv, [Next]_vars PROVE RInv'
  OBVIOUS
<1>1. /\ TypeOK /\ TypeOK' /\ IsFiniteSet(ledger) /\ EarlierEnded
      /\ DrawnAsAsked /\ EarlierNested /\ SourceShowsRole /\ CheckedRate
      /\ \A row \in ledger : row.req \in Requests /\ row.user \in Users
      /\ \A row \in ledger : pc[row.req] = "served"
  BY TypeStep DEF IInv, HInv, RInv, TypeOK, LedgerRow, DrawnAsAsked
<1>2. CASE request' = request /\ pc' = pc /\ source' = source /\ ledger' = ledger
  <2>1. who' = who /\ now' = now /\ asRole' = asRole /\ earlier' = earlier
    BY <1>2 DEF request
  <2> QED BY <1>1, <1>2, <2>1 DEF RInv, DrawnAsAsked, EarlierNested, SourceShowsRole, CheckedRate,
                                  EarlierDraws, Recent
<1>3. ASSUME NEW r \in Requests, Receive(r) PROVE RInv'
  <2>1. /\ ledger' = ledger /\ who' = who /\ source' = source
        /\ now' = [now EXCEPT ![r] = clock] /\ pc[r] = "idle"
        /\ pc' = [pc EXCEPT ![r] = "checking"]
        /\ asRole' = [asRole EXCEPT ![r] = role[who[r]]]
        /\ earlier' = [earlier EXCEPT ![r] = {q \in Requests : pc[q] \in Ended}]
    BY <1>3 DEF Receive, GoTo, tables
  <2>2. \A row \in ledger : row.req # r
    BY <1>1, <2>1
  <2>3. DrawnAsAsked'
    BY <1>1, <2>1, <2>2 DEF DrawnAsAsked, TypeOK
  <2>4. \A q \in Requests : r \notin earlier[q]
    BY <1>1, <2>1 DEF EarlierEnded, Ended
  <2>5. EarlierNested'
    <3>1. r \notin earlier'[r]
      BY <1>1, <2>1 DEF TypeOK, Ended
    <3>2. \A q \in earlier'[r] : q # r /\ q \in Requests /\ earlier'[q] = earlier[q]
      BY <1>1, <2>1 DEF TypeOK, Ended
    <3>3. \A q \in earlier'[r] : earlier'[q] \subseteq earlier'[r]
      BY <1>1, <2>1, <3>2 DEF TypeOK, EarlierEnded
    <3>4. ASSUME NEW s \in Requests, s # r
          PROVE  s \notin earlier'[s] /\ \A q \in earlier'[s] : earlier'[q] \subseteq earlier'[s]
      <4>1. earlier'[s] = earlier[s]
        BY <1>1, <2>1, <3>4 DEF TypeOK
      <4>2. \A q \in earlier[s] : q # r /\ q \in Requests /\ earlier'[q] = earlier[q]
        BY <1>1, <2>1, <2>4 DEF TypeOK
      <4> QED BY <1>1, <4>1, <4>2 DEF EarlierNested
    <3> QED BY <3>1, <3>3, <3>4 DEF EarlierNested
  <2>6. SourceShowsRole'
    BY <1>1, <2>1 DEF SourceShowsRole, PastLookup, TypeOK
  <2>7. CheckedRate'
    <3> SUFFICES ASSUME NEW s \in Requests, pc'[s] \in Rated, asRole'[s] # "admin"
                 PROVE  Cardinality(EarlierDraws(s)') < RateLimit
      BY DEF CheckedRate
    <3>1. s # r
      BY <1>1, <2>1 DEF TypeOK, Rated
    <3>2. /\ pc[s] \in Rated /\ asRole[s] # "admin"
          /\ now'[s] = now[s] /\ earlier'[s] = earlier[s]
      BY <1>1, <2>1, <3>1 DEF TypeOK
    <3>3. EarlierDraws(s)' = EarlierDraws(s)
      BY <2>1, <3>2 DEF EarlierDraws, Recent
    <3> QED BY <1>1, <3>2, <3>3 DEF CheckedRate
  <2> QED BY <2>3, <2>5, <2>6, <2>7 DEF RInv
<1>4. ASSUME NEW r \in Requests, MovesOn(r),
             \/ /\ ReadEntitlements(r) /\ ledger' = ledger
                /\ pc'[r] \in Rated => pc[r] \in Rated
             \/ /\ source' = source /\ ledger' = ledger
                /\ pc'[r] \in PastLookup \cup {"lookup"} => pc[r] \in PastLookup \cup {"lookup"}
                /\ \/ pc'[r] \in Rated => pc[r] \in Rated
                   \/ pc[r] = "lookup" /\ source[r] = "unlimited"
                   \/ CheckRate(r)
             \/ Draw(r) /\ source' = source
      PROVE  RInv'
  <2>1. /\ who' = who /\ now' = now /\ asRole' = asRole /\ earlier' = earlier
        /\ pc[r] \in Running /\ pc[r] \notin Ended
        /\ \A q \in Requests \ {r} : pc'[q] = pc[q] /\ source'[q] = source[q]
    BY <1>4 DEF MovesOn, request, Running, Ended
  <2>2. \A row \in ledger : row.req # r
    BY <1>1, <2>1 DEF Ended
  <2>3. Draw(r) => /\ ledger' = ledger \cup {NewRow(r)} /\ pc[r] = "drawing" /\ pc'[r] = "served"
    BY <1>1 DEF Draw, GoTo, TypeOK, NewRow
  <2>4. DrawnAsAsked'
    <3>1. CASE Draw(r)
      <4>1. source[r] = "unlimited" <=> asRole[r] = "admin"
        BY <1>1, <2>3, <3>1 DEF SourceShowsRole, PastLookup
      <4> QED BY <1>1, <2>1, <2>2, <2>3, <3>1, <4>1 DEF DrawnAsAsked, NewRow
    <3>2. CASE ledger' = ledger
      BY <1>1, <2>1, <2>2, <3>2 DEF DrawnAsAsked
    <3> QED BY <1>4, <3>1, <3>2
  <2>5. EarlierNested'
    BY <1>1, <2>1 DEF EarlierNested
  <2>6. SourceShowsRole'
    <3>1. CASE ReadEntitlements(r)
      BY <1>1, <2>1, <3>1, SourceOfRole DEF SourceShowsRole
    <3>2. CASE source' = source
      BY <1>1, <1>4, <2>1, <2>3, <3>1, <3>2 DEF SourceShowsRole, PastLookup
    <3> QED BY <1>4, <3>1, <3>2
  <2>7. ASSUME NEW s \in Requests PROVE EarlierDraws(s)' = EarlierDraws(s)
    <3>1. r \notin earlier[s]
      BY <1>1, <2>1 DEF EarlierEnded
    <3>2. ledger' = ledger \/ ledger' = ledger \cup {NewRow(r)}
      BY <1>4, <2>3
    <3> QED BY <2>1, <3>1, <3>2 DEF EarlierDraws, Recent, NewRow
  <2>8. CheckedRate'
    <3> SUFFICES ASSUME NEW s \in Requests, pc'[s] \in Rated, asRole[s] # "admin"
                 PROVE  Cardinality(EarlierDraws(s)) < RateLimit
      BY <2>1, <2>7 DEF CheckedRate
    <3>1. CASE pc[s] \in Rated
      BY <1>1, <3>1 DEF CheckedRate
    <3>2. CASE pc[s] \notin Rated
      <4>1. s = r
        BY <2>1, <3>2
      <4>2. CheckRate(r) \/ (pc[r] = "lookup" /\ source[r] = "unlimited")
        BY <1>4, <2>3, <3>2, <4>1 DEF Rated
      <4>3. CheckRate(r)
        BY <1>1, <4>1, <4>2 DEF SourceShowsRole
      <4>4. ~(Cardinality(Recent(who[r], now[r])) >= RateLimit)
        BY <1>1, <4>1, <4>3 DEF CheckRate, TypeOK, Rated
      <4>5. IsFiniteSet(Recent(who[r], now[r])) /\ EarlierDraws(r) \in SUBSET Recent(who[r], now[r])
        BY <1>1, FS_Subset DEF Recent, EarlierDraws
      <4> QED BY <4>1, <4>4, <4>5, FS_Subset, FS_CardinalityType, MeteringAssumption
    <3> QED BY <3>1, <3>2
  <2> QED BY <2>4, <2>5, <2>6, <2>8 DEF RInv
<1> QED BY <1>1, <1>2, <1>3, <1>4, RatingSteps

(***************************************************************************)
(* A client that waits for each answer never gets more analyses out of an  *)
(* hour than the rate limit, though the limit is read long before the draw *)
(* and nothing is locked in between.                                       *)
(***************************************************************************)
THEOREM PatientClientLimited == Spec => []PatientClientRateLimited
<1>1. Init => HInv /\ RInv
  <2>1. Init => HInv
    BY InitIInv DEF HInv, IInv, Init, SavedAsAsked, EarlierEnded, CheckedApart, PastLookup
  <2>2. Init => RInv
    BY DEF Init, RInv, DrawnAsAsked, EarlierNested, SourceShowsRole, PastLookup, CheckedRate, Rated
  <2> QED BY <2>1, <2>2
<1>2. Spec => [](HInv /\ RInv)
  BY <1>1, NextHInv, NextRInv, Invariance, PTL DEF Spec
<1> QED BY <1>2, Invariance, RateSuffices, PTL
=============================================================================
