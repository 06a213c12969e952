-------------------------- MODULE MeteringRefinement --------------------------
(***************************************************************************)
(* Metering implements CreditLedger, for any number of users, requests and *)
(* plans.                                                                  *)
(***************************************************************************)
EXTENDS MeteringProofs

(***************************************************************************)
(* A request that draws has no rows yet.                                   *)
(***************************************************************************)
RowsEnded ==
    /\ IsFiniteSet(analyses)
    /\ \A row \in ledger \cup analyses : pc[row.req] = "served"

AnalysisOf(r) == [req |-> r, user |-> who[r], input |-> what[r], at |-> now[r]]

SavedFor(u) == {row \in analyses : row.user = u}

(***************************************************************************)
(* Only Draw touches either table.                                         *)
(***************************************************************************)
LEMMA TableSteps ==
    ASSUME TypeOK, [Next]_vars
    PROVE  \/ /\ ledger' = ledger /\ analyses' = analyses
              /\ \A r \in Requests : pc[r] = "served" => pc'[r] = "served"
           \/ \E r \in Requests : Draw(r)
<1>1. ASSUME NEW r \in Requests, Step(r) \/ Crash(r), ~Draw(r)
      PROVE  /\ ledger' = ledger /\ analyses' = analyses
             /\ \A q \in Requests : pc[q] = "served" => pc'[q] = "served"
  BY <1>1 DEF Step, Receive, CheckEntitlement, LookUpDuplicate, StopAtLimit, CheckRate,
              Refuse, WorkRecorded, WorkUnrecorded, LockUser, Recheck, DeadlockVictim, Crash,
              GoTo, TypeOK, Running, tables
<1>2. ASSUME Environment \/ UNCHANGED vars
      PROVE  ledger' = ledger /\ analyses' = analyses /\ pc' = pc
  BY <1>2 DEF Environment, SetRole, Redeem, SubscriptionsChange, Tick, vars, tables
<1> QED BY <1>1, <1>2 DEF Next

LEMMA NextRowsEnded == IInv /\ RowsEnded /\ [Next]_vars => RowsEnded'
<1> SUFFICES ASSUME IInv, RowsEnded, [Next]_vars PROVE RowsEnded'
  OBVIOUS
<1>1. TypeOK
  BY DEF IInv
<1>2. \A row \in ledger \cup analyses : row.req \in Requests
  BY <1>1 DEF TypeOK, LedgerRow, AnalysisRow
<1>3. CASE /\ ledger' = ledger /\ analyses' = analyses
           /\ \A r \in Requests : pc[r] = "served" => pc'[r] = "served"
  BY <1>2, <1>3 DEF RowsEnded
<1>4. ASSUME NEW r \in Requests, Draw(r) PROVE RowsEnded'
  <2>1. /\ ledger' = ledger \cup {NewRow(r)} /\ analyses' = analyses \cup {AnalysisOf(r)}
        /\ pc'[r] = "served" /\ \A q \in Requests \ {r} : pc'[q] = pc[q]
    BY <1>1, <1>4 DEF Draw, GoTo, NewRow, AnalysisOf, TypeOK
  <2>2. IsFiniteSet(analyses')
    BY <2>1, FS_AddElement DEF RowsEnded
  <2>3. NewRow(r).req = r /\ AnalysisOf(r).req = r
    BY DEF NewRow, AnalysisOf
  <2> QED BY <1>2, <2>1, <2>2, <2>3 DEF RowsEnded
<1> QED BY <1>1, <1>3, <1>4, TableSteps

(***************************************************************************)
(* Counting one row more counts exactly one more.                          *)
(***************************************************************************)
LEMMA CountsOneMore ==
    ASSUME NEW S, IsFiniteSet(S), NEW x, x \notin S
    PROVE  Cardinality(S \cup {x}) = Cardinality(S) + 1
BY FS_AddElement

-----------------------------------------------------------------------------
LEMMA InitRefines == Init => Promise!Init
<1> SUFFICES ASSUME Init PROVE Promise!Init
  OBVIOUS
<1>1. \A u : RowsOf(u, "free") = {} /\ SavedFor(u) = {}
             /\ RowsOf(u, "unlimited") = {} /\ \A m : PlanRowsIn(u, m) = {}
  BY DEF Init, RowsOf, PlanRowsIn, SavedFor
<1>2. \A u \in Users : FreeAnalyses + promo[u] = FreeAnalyses
  BY PricingAssumption DEF Init
<1> QED BY <1>1, <1>2, FS_EmptySet DEF Promise!Init, FreeUsed, SavedFor

(***************************************************************************)
(* Whatever does not draw can only have granted more free analyses.        *)
(***************************************************************************)
LEMMA GrantRefines ==
    ASSUME IInv, [Next]_vars, ledger' = ledger, analyses' = analyses
    PROVE  Promise!Grant
<1>1. TypeOK
  BY DEF IInv
<1>2. \A u \in Users : promo[u] \in Nat /\ promo'[u] \in Nat /\ promo'[u] >= promo[u]
  BY <1>1, PromoGrows DEF TypeOK
<1>3. /\ [u \in Users |-> FreeAnalyses + promo[u]]' \in [Users -> Nat]
      /\ \A v \in Users : [u \in Users |-> FreeAnalyses + promo[u]]'[v]
                            >= [u \in Users |-> FreeAnalyses + promo[u]][v]
  BY <1>2, PricingAssumption
<1>4. /\ [u \in Users |-> FreeUsed(u)]' = [u \in Users |-> FreeUsed(u)]
      /\ [u \in Users |-> [m \in Months |-> Cardinality(PlanRowsIn(u, m))]]'
            = [u \in Users |-> [m \in Months |-> Cardinality(PlanRowsIn(u, m))]]
      /\ [u \in Users |-> Cardinality(RowsOf(u, "unlimited"))]'
            = [u \in Users |-> Cardinality(RowsOf(u, "unlimited"))]
      /\ [u \in Users |-> Cardinality({row \in analyses : row.user = u})]'
            = [u \in Users |-> Cardinality({row \in analyses : row.user = u})]
  BY DEF FreeUsed, RowsOf, PlanRowsIn
<1> QED BY <1>3, <1>4 DEF Promise!Grant

(***************************************************************************)
(* A draw is the abstract draw of its source, and saves one analysis.      *)
(***************************************************************************)
LEMMA DrawRefines ==
    ASSUME IInv, RowsEnded, NEW r \in Requests, Draw(r)
    PROVE  \E u \in Users : \/ Promise!DrawFree(u)
                            \/ \E m \in Months : Promise!DrawPlan(u, m)
                            \/ Promise!DrawUnlimited(u)
<1>1. /\ TypeOK /\ DrawCovered /\ IsFiniteSet(ledger) /\ IsFiniteSet(analyses)
      /\ pc[r] = "drawing"
  BY DEF IInv, RowsEnded, Draw, GoTo
<1> PICK u \in Users, t \in Time, m0 \in Months :
        who[r] = u /\ now[r] = t /\ MonthStart[t] = m0
  BY <1>1, MeteringAssumption DEF TypeOK, Months
<1>2. /\ ledger' = ledger \cup {NewRow(r)} /\ analyses' = analyses \cup {AnalysisOf(r)}
      /\ promo' = promo
  BY DEF Draw, NewRow, AnalysisOf, account
<1>3. NewRow(r) \notin ledger /\ AnalysisOf(r) \notin analyses
  <2>1. NewRow(r).req = r /\ AnalysisOf(r).req = r
    BY DEF NewRow, AnalysisOf
  <2> QED BY <1>1, <2>1 DEF RowsEnded
<1>4. Promise!Save(u)
  <2> DEFINE count(v) == Cardinality({row \in analyses : row.user = v})
  <2>1. {row \in analyses' : row.user = u} = SavedFor(u) \cup {AnalysisOf(r)}
    BY <1>2 DEF SavedFor, AnalysisOf
  <2>2. IsFiniteSet(SavedFor(u)) /\ AnalysisOf(r) \notin SavedFor(u)
    BY <1>1, <1>3, FS_Subset DEF SavedFor
  <2>3. Cardinality({row \in analyses' : row.user = u}) = count(u) + 1
    BY <2>1, <2>2, CountsOneMore DEF SavedFor
  <2>4. \A v \in Users \ {u} :
            {row \in analyses' : row.user = v} = {row \in analyses : row.user = v}
    BY <1>2 DEF AnalysisOf
  <2>5. \A v \in Users \ {u} : Cardinality({row \in analyses' : row.user = v}) = count(v)
    BY <2>4
  <2> HIDE DEF count
  <2>6. [v \in Users |-> Cardinality({row \in analyses' : row.user = v})]
            = [[v \in Users |-> count(v)] EXCEPT ![u] = @ + 1]
    BY <2>3, <2>5
  <2> QED BY <2>6 DEF Promise!Save, count
<1>5. UNCHANGED [v \in Users |-> FreeAnalyses + promo[v]]
  BY <1>2
<1>6. ASSUME source[r] # "free" PROVE UNCHANGED [v \in Users |-> FreeUsed(v)]
  <2>1. \A v \in Users : RowsOf(v, "free")' = RowsOf(v, "free")
    BY <1>2, <1>6 DEF RowsOf, NewRow
  <2> QED BY <2>1 DEF FreeUsed
<1>7. ASSUME source[r] # "plan"
      PROVE  UNCHANGED [v \in Users |-> [m \in Months |-> Cardinality(PlanRowsIn(v, m))]]
  <2>1. \A v \in Users, m \in Months : PlanRowsIn(v, m)' = PlanRowsIn(v, m)
    BY <1>2, <1>7 DEF PlanRowsIn, RowsOf, NewRow
  <2> QED BY <2>1
<1>8. ASSUME source[r] # "unlimited"
      PROVE  UNCHANGED [v \in Users |-> Cardinality(RowsOf(v, "unlimited"))]
  <2>1. \A v \in Users : RowsOf(v, "unlimited")' = RowsOf(v, "unlimited")
    BY <1>2, <1>8 DEF RowsOf, NewRow
  <2> QED BY <2>1
<1>9. CASE source[r] = "free"
  <2>1. FreeUsed(u) < FreeAnalyses + promo[u]
    BY <1>1, <1>9 DEF DrawCovered, FreeCovers
  <2>2. RowsOf(u, "free")' = RowsOf(u, "free") \cup {NewRow(r)}
    BY <1>2, <1>9 DEF RowsOf, NewRow
  <2>3. NewRow(r) \notin RowsOf(u, "free") /\ IsFiniteSet(RowsOf(u, "free"))
    BY <1>1, <1>3, CountsAreNumbers DEF RowsOf
  <2>4. FreeUsed(u)' = FreeUsed(u) + 1
    BY <2>2, <2>3, CountsOneMore DEF FreeUsed
  <2>5. \A v \in Users \ {u} : FreeUsed(v)' = FreeUsed(v)
    <3>1. \A v \in Users \ {u} : RowsOf(v, "free")' = RowsOf(v, "free")
      BY <1>2 DEF RowsOf, NewRow
    <3> QED BY <3>1 DEF FreeUsed
  <2>6. [v \in Users |-> FreeUsed(v)]' = [[v \in Users |-> FreeUsed(v)] EXCEPT ![u] = @ + 1]
    BY <2>4, <2>5
  <2>7. Promise!DrawFree(u)
    BY <1>4, <1>5, <1>7, <1>9, <1>8, <2>1, <2>6 DEF Promise!DrawFree
  <2> QED BY <2>7
<1>10. CASE source[r] = "plan"
  <2> DEFINE drawn(v, m) == Cardinality(PlanRowsIn(v, m))
  <2>1. PlanCovers(plan[r], PlanUsed(u, t))
    BY <1>1, <1>10 DEF DrawCovered
  <2>2. PlanRowsIn(u, m0) \subseteq PlanRowsSince(u, t)
    <3>1. \A row \in PlanRowsIn(u, m0) : row.at \in Time
      BY <1>1 DEF TypeOK, LedgerRow, PlanRowsIn, RowsOf
    <3>2. \A row \in PlanRowsIn(u, m0) : MonthStart[row.at] <= row.at
      BY <3>1, MeteringAssumption
    <3> QED BY <3>2 DEF PlanRowsIn, PlanRowsSince
  <2>3. /\ drawn(u, m0) \in Nat /\ PlanUsed(u, t) \in Nat /\ drawn(u, m0) <= PlanUsed(u, t)
        /\ IsFiniteSet(PlanRowsIn(u, m0))
    BY <1>1, <2>2, CountsAreNumbers, FS_Subset DEF PlanUsed
  <2>4. PlanCap(plan[r]) = NoCap \/ PlanCap(plan[r]) \in Nat
    BY PricingAssumption DEF PlanCap, FeaturesOf, PlanFeatures
  <2>5. plan[r] \in Plans /\ PlanCovers(plan[r], drawn(u, m0))
    BY <1>1, <2>1, <2>3, <2>4 DEF PlanCovers, TypeOK
  <2>6. PlanRowsIn(u, m0)' = PlanRowsIn(u, m0) \cup {NewRow(r)}
    <3>1. NewRow(r).at = t /\ NewRow(r).user = u /\ NewRow(r).source = "plan"
      BY <1>10 DEF NewRow
    <3> QED BY <1>2, <3>1 DEF PlanRowsIn, RowsOf
  <2>7. drawn(u, m0)' = drawn(u, m0) + 1
    <3>1. NewRow(r) \notin PlanRowsIn(u, m0)
      BY <1>3 DEF PlanRowsIn, RowsOf
    <3> QED BY <2>3, <2>6, <3>1, CountsOneMore
  <2>8. \A v \in Users, m \in Months : v # u \/ m # m0 => drawn(v, m)' = drawn(v, m)
    <3>1. \A v \in Users, m \in Months :
              v # u \/ m # m0 => PlanRowsIn(v, m)' = PlanRowsIn(v, m)
      BY <1>2 DEF PlanRowsIn, RowsOf, NewRow
    <3> QED BY <3>1
  <2> HIDE DEF drawn
  <2>9. [v \in Users |-> [m \in Months |-> drawn(v, m)]]'
            = [[v \in Users |-> [m \in Months |-> drawn(v, m)]] EXCEPT ![u][m0] = @ + 1]
    <3> DEFINE row(v) == [m \in Months |-> drawn(v, m)]
    <3>1. \A v \in Users \ {u} : row(v)' = row(v)
      BY <2>8
    <3>2. row(u)' = [row(u) EXCEPT ![m0] = @ + 1]
      BY <1>1, <2>7, <2>8
    <3> HIDE DEF row
    <3>3. [v \in Users |-> row(v)]' = [[v \in Users |-> row(v)] EXCEPT ![u] = row(u)']
      BY <3>1
    <3> QED BY <3>2, <3>3 DEF row
  <2>10. Promise!DrawPlan(u, m0)
    BY <1>1, <1>4, <1>5, <1>6, <1>10, <1>8, <2>5, <2>9
    DEF Promise!DrawPlan, drawn, Promise!PlanCovers, PlanCovers, Promise!PlanCap, PlanCap,
        Promise!FeaturesOf, FeaturesOf
  <2> QED BY <1>1, <2>10
<1>11. CASE source[r] = "unlimited"
  <2> DEFINE given(v) == Cardinality(RowsOf(v, "unlimited"))
  <2>1. /\ RowsOf(u, "unlimited")' = RowsOf(u, "unlimited") \cup {NewRow(r)}
        /\ \A v \in Users \ {u} : RowsOf(v, "unlimited")' = RowsOf(v, "unlimited")
    BY <1>2, <1>11 DEF RowsOf, NewRow
  <2>2. NewRow(r) \notin RowsOf(u, "unlimited") /\ IsFiniteSet(RowsOf(u, "unlimited"))
    BY <1>1, <1>3, FS_Subset DEF RowsOf
  <2>3. given(u)' = given(u) + 1 /\ \A v \in Users \ {u} : given(v)' = given(v)
    BY <2>1, <2>2, CountsOneMore
  <2> HIDE DEF given
  <2>4. [v \in Users |-> given(v)]' = [[v \in Users |-> given(v)] EXCEPT ![u] = @ + 1]
    BY <2>3
  <2>5. Promise!DrawUnlimited(u)
    BY <1>4, <1>5, <1>6, <1>7, <1>11, <2>4 DEF Promise!DrawUnlimited, given
  <2> QED BY <2>5
<1>12. source[r] \in {"unlimited", "plan", "free"}
  <2>1. source[r] # "none"
    BY <1>1 DEF DrawCovered
  <2> QED BY <1>1, <2>1 DEF TypeOK, CreditSources
<1> QED BY <1>9, <1>10, <1>11, <1>12

(***************************************************************************)
(* Check, work without a lock, check again under it, draw: together an     *)
(* indivisible check-and-draw.                                             *)
(***************************************************************************)
THEOREM Refinement == Spec => ImplementsCreditLedger
<1>1. Init => RowsEnded
  BY FS_EmptySet DEF Init, RowsEnded
<1>2. Spec => [](IInv /\ RowsEnded)
  BY <1>1, InitIInv, NextIInv, NextRowsEnded, PTL DEF Spec
<1>3. IInv /\ RowsEnded /\ [Next]_vars => [Promise!Next]_(Promise!vars)
  <2> SUFFICES ASSUME IInv, RowsEnded, [Next]_vars PROVE Promise!Next
    OBVIOUS
  <2>1. TypeOK
    BY DEF IInv
  <2>2. CASE ledger' = ledger /\ analyses' = analyses
    BY <2>2, GrantRefines DEF Promise!Next
  <2>3. ASSUME NEW r \in Requests, Draw(r) PROVE Promise!Next
    BY <2>3, DrawRefines DEF Promise!Next
  <2> QED BY <2>1, <2>2, <2>3, TableSteps
<1>4. Spec => Promise!Spec
  BY <1>2, <1>3, InitRefines, PTL DEF Spec, Promise!Spec
<1> QED BY <1>4 DEF ImplementsCreditLedger
=============================================================================
