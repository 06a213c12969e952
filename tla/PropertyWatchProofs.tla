------------------------- MODULE PropertyWatchProofs -------------------------
(***************************************************************************)
(* Theorems about PropertyWatch, for any number of requests, saved         *)
(* analyses, prices, statuses and plans.                                   *)
(***************************************************************************)
EXTENDS PropertyWatch, FiniteSetTheorems, TLAPS

(***************************************************************************)
(* Every set of analyses that is closed under derived_from_id and has a in *)
(* it has o in it: a is o or descends from it.                             *)
(***************************************************************************)
Closed(S) == \A a \in S : analyses[a].from # None => analyses[a].from \in S
Linked(a, o) == \A S \in SUBSET DOMAIN analyses : a \in S /\ Closed(S) => o \in S

(***************************************************************************)
(* A request makes at most one watch and one analysis, and only at its end.*)
(***************************************************************************)
MadeOnce ==
    /\ \A r \in Requests : r \in DOMAIN analyses => pc[r] = "updated"
    /\ \A w \in Watches : pc[w] = "created"

(***************************************************************************)
(* What a request loaded or wants still exists, and a loaded watch is one  *)
(* whose id is never used again.                                           *)
(***************************************************************************)
LoadedOK ==
    \A r \in Requests :
        /\ pc[r] \in Creating => about[r] \in DOMAIN analyses
        /\ pc[r] = "loaded" =>
              /\ about[r] \in Requests /\ pc[about[r]] = "created"
              /\ row[r] \in WatchRow /\ row[r].current \in DOMAIN analyses
              /\ Linked(row[r].current, row[r].original)
              /\ about[r] \in Watches => row[r].original = watches[about[r]].original

RowsOf(w) == {c \in changes : c.watch = w}

(***************************************************************************)
(* The rows of a watch are numbered below their count, so that the next    *)
(* commit's come after all of them.                                        *)
(***************************************************************************)
NumbersOK ==
    /\ IsFiniteSet(changes)
    /\ \A c \in changes : c.at < Cardinality(RowsOf(c.watch))

(***************************************************************************)
(* While a creation runs that has been alone since it began, no other does,*)
(* and what it counted is still the count, or more than it.                *)
(***************************************************************************)
AloneOK ==
    \A r \in Requests : alone[r] /\ pc[r] \in Creating =>
        /\ \A q \in Requests : q # r => pc[q] \notin Creating
        /\ pc[r] # "entitled" /\ allowed[r] # NoLimit => Cardinality(Watches) < allowed[r]

(***************************************************************************)
(* CurrentIsLinked and HistoryExplainsWatch, one watch at a time.          *)
(***************************************************************************)
AtItsPrice(w) ==
    /\ analyses[watches[w].current].price = watches[w].price
    /\ Linked(watches[w].current, watches[w].original)

ExplainedBy(rows, w, field, value, first) ==
    LET reports == {c \in rows : c.watch = w /\ c.field = field} IN
    /\ reports = {} => value = first
    /\ \A c \in reports : (\A d \in reports : d.at <= c.at) => value = c.new

Explained(w, field, value, first) == ExplainedBy(changes, w, field, value, first)

WatchesOK ==
    \A w \in Watches :
        /\ AtItsPrice(w)
        /\ Explained(w, "price", watches[w].price, analyses[watches[w].original].price)
        /\ Explained(w, "listing", watches[w].listing, "for_sale")

IInv == TypeOK /\ MadeOnce /\ LoadedOK /\ NumbersOK /\ AloneOK /\ WatchesOK

-----------------------------------------------------------------------------
(***************************************************************************)
(* Adding analysis r, derived from b, breaks no line of descent.           *)
(***************************************************************************)
LEMMA LinkedGrows ==
    ASSUME NEW r, r \notin DOMAIN analyses, NEW p, NEW b \in DOMAIN analyses, b # None,
           \A a \in DOMAIN analyses : analyses[a].from \in DOMAIN analyses \cup {None},
           analyses' = Put(analyses, r, [price |-> p, from |-> b])
    PROVE  /\ \A a \in DOMAIN analyses : \A o : Linked(a, o) => Linked(a, o)'
           /\ \A o : Linked(b, o) => Linked(r, o)'
<1>1. /\ DOMAIN analyses' = DOMAIN analyses \cup {r}
      /\ analyses'[r].from = b
      /\ \A a \in DOMAIN analyses : analyses'[a] = analyses[a]
  BY DEF Put
<1>2. ASSUME NEW S \in SUBSET DOMAIN analyses',
             \A a \in S : analyses'[a].from # None => analyses'[a].from \in S
      PROVE  /\ S \cap DOMAIN analyses \in SUBSET DOMAIN analyses
             /\ Closed(S \cap DOMAIN analyses)
             /\ r \in S => b \in S \cap DOMAIN analyses
  BY <1>1, <1>2 DEF Closed
<1>3. ASSUME NEW a \in DOMAIN analyses, NEW o, Linked(a, o) PROVE Linked(a, o)'
  BY <1>2, <1>3 DEF Linked, Closed
<1>4. ASSUME NEW o, Linked(b, o) PROVE Linked(r, o)'
  BY <1>2, <1>4 DEF Linked, Closed
<1> QED BY <1>3, <1>4

LEMMA ByWatch ==
    WatchesOK => CurrentIsLinked /\ HistoryExplainsWatch
<1>1. CurrentIsLinked <=> \A w \in Watches : AtItsPrice(w)
  BY DEF CurrentIsLinked, AtItsPrice, Linked, Closed
<1> DEFINE first(w) == [price |-> analyses[watches[w].original].price, listing |-> "for_sale"]
<1>2. HistoryExplainsWatch <=>
          \A w \in Watches, field \in {"price", "listing"} :
             Explained(w, field, watches[w][field], first(w)[field])
  BY DEF HistoryExplainsWatch, Explained, ExplainedBy
<1>3. \A w : /\ first(w)["price"] = analyses[watches[w].original].price
             /\ first(w)["listing"] = "for_sale"
  OBVIOUS
<1>4. \A w : watches[w]["price"] = watches[w].price /\ watches[w]["listing"] = watches[w].listing
  OBVIOUS
<1> HIDE DEF first
<1>5. HistoryExplainsWatch <=>
          \A w \in Watches :
             /\ Explained(w, "price", watches[w].price, analyses[watches[w].original].price)
             /\ Explained(w, "listing", watches[w].listing, "for_sale")
  BY <1>2, <1>3, <1>4
<1> QED BY <1>1, <1>5 DEF WatchesOK

LEMMA InitIInv == Init => IInv
<1> SUFFICES ASSUME Init PROVE IInv
  OBVIOUS
<1>1. /\ limit \in Limits /\ watches = <<>> /\ changes = {} /\ recalculations = {}
      /\ analyses \in [Saved -> [price : Prices \ Refused, from : {None}]]
      /\ pc = [r \in Requests |-> "idle"]
      /\ about = [r \in Requests |-> None]
      /\ reported = [r \in Requests |-> [price |-> None, listing |-> None]]
      /\ allowed = [r \in Requests |-> 0]
      /\ row = [r \in Requests |-> None]
      /\ alone = [r \in Requests |-> TRUE]
  BY DEF Init
<1>2. Watches = {}
  BY <1>1 DEF Watches
<1>3. TypeOK
  BY <1>1, <1>2 DEF TypeOK, Places, AnalysisIds
<1>4. MadeOnce
  BY <1>1, <1>2, WatchAssumption DEF MadeOnce
<1>5. LoadedOK /\ AloneOK
  BY <1>1 DEF LoadedOK, AloneOK, Creating
<1>6. NumbersOK
  BY <1>1, FS_EmptySet DEF NumbersOK
<1>7. WatchesOK
  BY <1>2 DEF WatchesOK
<1> QED BY <1>3, <1>4, <1>5, <1>6, <1>7 DEF IInv

(***************************************************************************)
(* A step that changes no table leaves what is said of tables alone.       *)
(***************************************************************************)
LEMMA TablesKept ==
    ASSUME IInv, UNCHANGED tables
    PROVE  /\ NumbersOK' /\ WatchesOK'
           /\ Watches' = Watches
           /\ \A a, o : Linked(a, o)' <=> Linked(a, o)
BY DEF IInv, tables, NumbersOK, RowsOf, WatchesOK, AtItsPrice, Explained, ExplainedBy, Watches, Linked, Closed

(***************************************************************************)
(* A request that only moves on, to a place where nothing is asked of it.  *)
(***************************************************************************)
LEMMA MoveOK ==
    ASSUME IInv, NEW r \in Requests, NEW p \in Places, UNCHANGED <<limit, tables, request, alone>>,
           pc[r] \notin {"idle", "created", "updated"},
           pc' = [pc EXCEPT ![r] = p], p \notin {"loaded", "created", "updated"},
           p \in Creating => /\ pc[r] \in Creating
                             /\ \/ pc[r] # "entitled"
                                \/ allowed[r] # NoLimit => Cardinality(Watches) < allowed[r]
    PROVE  IInv'
<1> USE DEF IInv
<1>1. /\ NumbersOK' /\ WatchesOK' /\ Watches' = Watches
      /\ \A a, o : Linked(a, o)' <=> Linked(a, o)
  BY TablesKept
<1>2. UNCHANGED <<limit, analyses, watches, changes, recalculations, about, reported, allowed, row, alone>>
  BY DEF tables, request
<1>3. pc \in [Requests -> Places]
  BY DEF TypeOK
<1>4. TypeOK'
  BY <1>2, <1>3, <1>1 DEF TypeOK
<1>5. MadeOnce'
  BY <1>1, <1>2, <1>3, <1>4 DEF MadeOnce, TypeOK
<1>6. LoadedOK'
  <2> SUFFICES ASSUME NEW q \in Requests
               PROVE  /\ pc'[q] \in Creating => about[q] \in DOMAIN analyses
                      /\ pc'[q] = "loaded" =>
                            /\ about[q] \in Requests /\ pc'[about[q]] = "created"
                            /\ row[q] \in WatchRow /\ row[q].current \in DOMAIN analyses
                            /\ Linked(row[q].current, row[q].original)
                            /\ about[q] \in Watches => row[q].original = watches[about[q]].original
    BY <1>1, <1>2 DEF LoadedOK
  <2>1. CASE q = r
    BY <1>3, <2>1 DEF LoadedOK
  <2>2. CASE q # r
    BY <1>3, <2>2 DEF LoadedOK
  <2> QED BY <2>1, <2>2
<1>7. AloneOK'
  <2> SUFFICES ASSUME NEW q \in Requests, alone[q], pc'[q] \in Creating
               PROVE  /\ \A s \in Requests : s # q => pc'[s] \notin Creating
                      /\ pc'[q] # "entitled" /\ allowed[q] # NoLimit => Cardinality(Watches) < allowed[q]
    BY <1>1, <1>2 DEF AloneOK
  <2>1. CASE q = r
    BY <1>3, <2>1 DEF AloneOK
  <2>2. CASE q # r
    BY <1>3, <2>2 DEF AloneOK
  <2> QED BY <2>1, <2>2
<1> QED BY <1>1, <1>4, <1>5, <1>6, <1>7

LEMMA ReadLimitOK ==
    ASSUME IInv, NEW r \in Requests, NEW a \in DOMAIN analyses, ReadLimit(r, a)
    PROVE  IInv'
<1> USE DEF IInv
<1> DEFINE others == {q \in Requests \ {r} : pc[q] \in Creating}
<1>1. /\ UNCHANGED <<limit, tables, reported, row>>
      /\ pc[r] = "idle" /\ pc' = [pc EXCEPT ![r] = "entitled"]
      /\ about' = [about EXCEPT ![r] = a]
      /\ allowed' = [allowed EXCEPT ![r] = limit]
      /\ alone' = [q \in Requests |-> IF q = r THEN others = {} ELSE alone[q] /\ q \notin others]
  BY DEF ReadLimit, GoTo
<1>2. /\ NumbersOK' /\ WatchesOK' /\ Watches' = Watches
      /\ \A x, o : Linked(x, o)' <=> Linked(x, o)
      /\ UNCHANGED <<analyses, watches, changes, recalculations>>
  BY <1>1, TablesKept DEF tables
<1>3. /\ \A q \in Requests : pc'[q] = IF q = r THEN "entitled" ELSE pc[q]
      /\ \A q \in Requests : about'[q] = IF q = r THEN a ELSE about[q]
      /\ \A q \in Requests : allowed'[q] = IF q = r THEN limit ELSE allowed[q]
      /\ alone' \in [Requests -> BOOLEAN]
  BY <1>1 DEF TypeOK
<1>4. TypeOK'
  <2>1. pc' \in [Requests -> Places]
    BY <1>1 DEF TypeOK, Places
  <2>2. about' \in [Requests -> AnalysisIds \cup {None}]
    BY <1>1 DEF TypeOK
  <2>3. allowed' \in [Requests -> Limits \cup {0}]
    BY <1>1 DEF TypeOK
  <2> QED BY <1>1, <1>2, <1>3, <2>1, <2>2, <2>3 DEF TypeOK
<1>5. MadeOnce'
  BY <1>1, <1>2, <1>3 DEF MadeOnce, TypeOK
<1>6. LoadedOK'
  BY <1>1, <1>2, <1>3 DEF LoadedOK, Creating
<1>7. AloneOK'
  <2> SUFFICES ASSUME NEW q \in Requests, alone'[q], pc'[q] \in Creating
               PROVE  /\ \A s \in Requests : s # q => pc'[s] \notin Creating
                      /\ pc'[q] # "entitled" /\ allowed'[q] # NoLimit =>
                            Cardinality(Watches) < allowed'[q]
    BY <1>2 DEF AloneOK
  <2>1. CASE q = r
    BY <1>1, <1>3, <2>1
  <2>2. CASE q # r
    <3>1. FALSE
      BY <1>1, <1>3, <2>2
    <3> QED BY <3>1
  <2> QED BY <2>1, <2>2
<1> QED BY <1>2, <1>4, <1>5, <1>6, <1>7

LEMMA WatchesFinite ==
    ASSUME TypeOK
    PROVE  IsFiniteSet(Watches) /\ Cardinality(Watches) \in Nat
<1>1. Watches \in SUBSET Requests /\ IsFiniteSet(Requests)
  BY WatchAssumption DEF TypeOK
<1>2. IsFiniteSet(Watches)
  BY <1>1, FS_Subset
<1> QED BY <1>2, FS_CardinalityType

LEMMA AllowedType ==
    ASSUME TypeOK, NEW r \in Requests
    PROVE  allowed[r] \in Nat \cup {NoLimit}
<1>1. allowed[r] \in Limits \cup {0}
  BY DEF TypeOK
<1>2. Limits \subseteq Nat \cup {NoLimit} /\ 0 \in Nat
  BY WatchAssumption
<1> QED BY <1>1, <1>2, Zenon

LEMMA CountWatchesOK ==
    ASSUME IInv, NEW r \in Requests, CountWatches(r)
    PROVE  IInv'
<1>1. /\ pc[r] = "entitled" /\ UNCHANGED <<limit, tables, request, alone>>
      /\ pc' = [pc EXCEPT ![r] = IF allowed[r] # NoLimit /\ Cardinality(Watches) >= allowed[r]
                                 THEN "locked" ELSE "counted"]
  BY DEF CountWatches
<1>2. CASE allowed[r] # NoLimit /\ Cardinality(Watches) >= allowed[r]
  <2>1. pc' = [pc EXCEPT ![r] = "locked"]
    BY <1>1, <1>2
  <2> QED BY <1>1, <2>1, MoveOK DEF Places, Creating
<1>3. CASE ~(allowed[r] # NoLimit /\ Cardinality(Watches) >= allowed[r])
  <2>1. pc' = [pc EXCEPT ![r] = "counted"]
    BY <1>1, <1>3
  <2>2. allowed[r] # NoLimit => Cardinality(Watches) < allowed[r]
    <3>1. allowed[r] \in Nat \cup {NoLimit}
      BY AllowedType DEF IInv
    <3>2. Cardinality(Watches) \in Nat
      BY WatchesFinite DEF IInv
    <3> QED BY <1>3, <3>1, <3>2
  <2> QED BY <1>1, <2>1, <2>2, MoveOK DEF Places, Creating
<1> QED BY <1>2, <1>3

LEMMA FindDuplicateOK ==
    ASSUME IInv, NEW r \in Requests, FindDuplicate(r)
    PROVE  IInv'
<1> DEFINE p == IF \E w \in Watches : watches[w].current = about[r] THEN "existing" ELSE "unmatched"
<1>1. pc[r] = "counted" /\ UNCHANGED <<limit, tables, request, alone>> /\ pc' = [pc EXCEPT ![r] = p]
  BY DEF FindDuplicate
<1>2. p \in {"existing", "unmatched"}
  OBVIOUS
<1> HIDE DEF p
<1> QED BY <1>1, <1>2, MoveOK DEF Places, Creating

LEMMA RefusedOrLostOK ==
    ASSUME IInv, NEW r \in Requests, RefusePrice(r) \/ UpdateLost(r)
    PROVE  IInv'
<1>1. PICK p \in {"refused", "failed"} :
        pc[r] = "loaded" /\ pc' = [pc EXCEPT ![r] = p] /\ UNCHANGED <<limit, tables, request, alone>>
  BY DEF RefusePrice, UpdateLost, GoTo
<1> QED BY <1>1, MoveOK DEF Places, Creating

LEMMA LoadForUpdateOK ==
    ASSUME IInv, NEW r \in Requests, NEW w \in Watches, NEW p \in Prices \cup {None},
           NEW l \in Listings \cup {None}, LoadForUpdate(r, w, p, l)
    PROVE  IInv'
<1> USE DEF IInv
<1>1. /\ UNCHANGED <<limit, tables, allowed, alone>>
      /\ pc[r] = "idle" /\ pc' = [pc EXCEPT ![r] = "loaded"]
      /\ about' = [about EXCEPT ![r] = w]
      /\ row' = [row EXCEPT ![r] = watches[w]]
      /\ reported' = [reported EXCEPT ![r] = [price |-> p, listing |-> l]]
  BY DEF LoadForUpdate, GoTo
<1>2. /\ NumbersOK' /\ WatchesOK' /\ Watches' = Watches
      /\ \A x, o : Linked(x, o)' <=> Linked(x, o)
      /\ UNCHANGED <<analyses, watches, changes, recalculations>>
  BY <1>1, TablesKept DEF tables
<1>3. /\ w \in Requests /\ watches[w] \in WatchRow /\ pc[w] = "created"
      /\ watches[w].current \in DOMAIN analyses
      /\ Linked(watches[w].current, watches[w].original)
  BY DEF TypeOK, MadeOnce, WatchesOK, AtItsPrice
<1>4. /\ \A q \in Requests : pc'[q] = IF q = r THEN "loaded" ELSE pc[q]
      /\ \A q \in Requests : about'[q] = IF q = r THEN w ELSE about[q]
      /\ \A q \in Requests : row'[q] = IF q = r THEN watches[w] ELSE row[q]
  BY <1>1 DEF TypeOK
<1>5. TypeOK'
  <2>1. pc' \in [Requests -> Places]
    BY <1>1 DEF TypeOK, Places
  <2>2. about' \in [Requests -> AnalysisIds \cup {None}]
    BY <1>1, <1>3 DEF TypeOK, AnalysisIds
  <2>3. row' \in [Requests -> WatchRow \cup {None}]
    BY <1>1, <1>3 DEF TypeOK
  <2>4. reported' \in [Requests -> [price : Prices \cup {None}, listing : Listings \cup {None}]]
    BY <1>1 DEF TypeOK
  <2> QED BY <1>1, <1>2, <2>1, <2>2, <2>3, <2>4 DEF TypeOK
<1>6. MadeOnce'
  BY <1>1, <1>2, <1>4 DEF MadeOnce, TypeOK
<1>7. LoadedOK'
  BY <1>1, <1>2, <1>3, <1>4 DEF LoadedOK, Creating
<1>8. AloneOK'
  BY <1>1, <1>2, <1>4 DEF AloneOK, Creating
<1> QED BY <1>2, <1>5, <1>6, <1>7, <1>8

LEMMA LoadForDeleteOK ==
    ASSUME IInv, NEW r \in Requests, NEW w \in Watches, LoadForDelete(r, w)
    PROVE  IInv'
<1> USE DEF IInv
<1>1. /\ UNCHANGED <<limit, tables, reported, allowed, row, alone>>
      /\ pc[r] = "idle" /\ pc' = [pc EXCEPT ![r] = "deleting"]
      /\ about' = [about EXCEPT ![r] = w]
  BY DEF LoadForDelete, GoTo
<1>2. /\ NumbersOK' /\ WatchesOK' /\ Watches' = Watches
      /\ \A x, o : Linked(x, o)' <=> Linked(x, o)
      /\ UNCHANGED <<analyses, watches, changes, recalculations>>
  BY <1>1, TablesKept DEF tables
<1>3. /\ \A q \in Requests : pc'[q] = IF q = r THEN "deleting" ELSE pc[q]
      /\ \A q \in Requests : about'[q] = IF q = r THEN w ELSE about[q]
  BY <1>1 DEF TypeOK
<1>4. TypeOK'
  <2>1. pc' \in [Requests -> Places] /\ about' \in [Requests -> AnalysisIds \cup {None}]
    BY <1>1 DEF TypeOK, Places, AnalysisIds
  <2> QED BY <1>1, <1>2, <2>1 DEF TypeOK
<1>5. MadeOnce'
  BY <1>1, <1>2, <1>3 DEF MadeOnce, TypeOK
<1>6. LoadedOK'
  BY <1>1, <1>2, <1>3 DEF LoadedOK, Creating
<1>7. AloneOK'
  BY <1>1, <1>2, <1>3 DEF AloneOK, Creating
<1> QED BY <1>2, <1>4, <1>5, <1>6, <1>7

LEMMA ChangePlanOK ==
    ASSUME IInv, NEW l \in Limits, ChangePlan(l)
    PROVE  IInv'
<1> USE DEF IInv
<1>1. /\ limit' = l /\ UNCHANGED <<tables, pc, request, alone>>
      /\ NumbersOK' /\ WatchesOK' /\ Watches' = Watches
      /\ \A x, o : Linked(x, o)' <=> Linked(x, o)
  BY TablesKept DEF ChangePlan
<1>2. TypeOK'
  BY <1>1 DEF TypeOK, tables, request
<1>3. MadeOnce' /\ LoadedOK' /\ AloneOK'
  BY <1>1 DEF MadeOnce, LoadedOK, AloneOK, tables, request
<1> QED BY <1>1, <1>2, <1>3

LEMMA InsertWatchOK ==
    ASSUME IInv, NEW r \in Requests, InsertWatch(r)
    PROVE  IInv'
<1> USE DEF IInv
<1> DEFINE new == [original |-> about[r], current |-> about[r],
                   price |-> analyses[about[r]].price, listing |-> "for_sale"]
<1>1. /\ UNCHANGED <<limit, analyses, changes, recalculations, about, reported, allowed, row, alone>>
      /\ pc[r] = "unmatched" /\ pc' = [pc EXCEPT ![r] = "created"]
      /\ watches' = Put(watches, r, new)
  BY DEF InsertWatch, GoTo, request
<1>2. about[r] \in DOMAIN analyses /\ r \notin Watches
  BY <1>1 DEF LoadedOK, MadeOnce, Creating
<1>3. /\ Watches' = Watches \cup {r} /\ watches'[r] = new
      /\ \A w \in Watches : watches'[w] = watches[w]
  BY <1>1, <1>2 DEF Watches, Put
<1>4. \A q \in Requests : pc'[q] = IF q = r THEN "created" ELSE pc[q]
  BY <1>1 DEF TypeOK
<1>5. new \in WatchRow /\ new.price \notin Refused /\ new.price = analyses[new.current].price
  BY <1>2, WatchAssumption DEF TypeOK, WatchRow
<1>6. TypeOK'
  <2>1. pc' \in [Requests -> Places]
    BY <1>1 DEF TypeOK, Places
  <2>2. \A w \in Watches' : /\ watches'[w] \in WatchRow
                            /\ watches'[w].price \notin Refused
                            /\ {watches'[w].original, watches'[w].current} \subseteq DOMAIN analyses
    BY <1>2, <1>3, <1>5 DEF TypeOK
  <2>3. /\ Watches' \subseteq Requests
        /\ changes \subseteq [by : Requests, watch : Watches', field : {"price", "listing"},
                              old : Prices \cup Listings, new : Prices \cup Listings, at : Nat]
    BY <1>3 DEF TypeOK
  <2> HIDE DEF new
  <2> QED BY <1>1, <2>1, <2>2, <2>3 DEF TypeOK
<1>7. MadeOnce'
  BY <1>1, <1>3, <1>4 DEF MadeOnce, TypeOK
<1>8. \A a, o : Linked(a, o)' <=> Linked(a, o)
  BY <1>1 DEF Linked, Closed
<1>9. LoadedOK'
  <2> SUFFICES ASSUME NEW q \in Requests
               PROVE  /\ pc'[q] \in Creating => about[q] \in DOMAIN analyses
                      /\ pc'[q] = "loaded" =>
                            /\ about[q] \in Requests /\ pc'[about[q]] = "created"
                            /\ row[q] \in WatchRow /\ row[q].current \in DOMAIN analyses
                            /\ Linked(row[q].current, row[q].original)
                            /\ about[q] \in Watches' => row[q].original = watches'[about[q]].original
    BY <1>1, <1>8 DEF LoadedOK
  <2>1. CASE q = r
    BY <1>4, <2>1 DEF Creating
  <2>2. CASE q # r
    <3> HIDE DEF new
    <3> QED BY <1>1, <1>3, <1>4, <2>2 DEF LoadedOK
  <2> QED BY <2>1, <2>2
<1>10. AloneOK'
  <2>1. \A q \in Requests : ~(alone[q] /\ pc'[q] \in Creating)
    BY <1>1, <1>4 DEF AloneOK, Creating
  <2> QED BY <1>1, <2>1 DEF AloneOK
<1>11. NumbersOK'
  BY <1>1 DEF NumbersOK, RowsOf
<1>12. WatchesOK'
  <2>1. ASSUME NEW w \in Watches'
        PROVE  /\ AtItsPrice(w)'
               /\ Explained(w, "price", watches[w].price, analyses[watches[w].original].price)'
               /\ Explained(w, "listing", watches[w].listing, "for_sale")'
    <3>1. CASE w = r
      <4>1. \A c \in changes : c.watch # r
        BY <1>2 DEF TypeOK
      <4>2. AtItsPrice(w)'
        BY <1>1, <1>3, <1>5, <3>1 DEF AtItsPrice, Linked
      <4> QED BY <1>1, <1>3, <3>1, <4>1, <4>2 DEF Explained, ExplainedBy
    <3>2. CASE w # r
      <4> HIDE DEF new
      <4>1. w \in Watches /\ watches'[w] = watches[w]
        BY <1>3, <3>2
      <4> QED BY <1>1, <1>8, <4>1 DEF Explained, ExplainedBy, AtItsPrice, WatchesOK
    <3> QED BY <3>1, <3>2
  <2> QED BY <2>1 DEF WatchesOK
<1> QED BY <1>6, <1>7, <1>9, <1>10, <1>11, <1>12

LEMMA DeleteOK ==
    ASSUME IInv, NEW r \in Requests, Delete(r)
    PROVE  IInv'
<1> USE DEF IInv
<1>1. /\ UNCHANGED <<limit, analyses, recalculations, about, reported, allowed, row, alone>>
      /\ pc[r] = "deleting" /\ pc' = [pc EXCEPT ![r] = "deleted"]
      /\ watches' = [w \in Watches \ {about[r]} |-> watches[w]]
      /\ changes' = {c \in changes : c.watch # about[r]}
  BY DEF Delete, GoTo, request
<1>2. Watches' = Watches \ {about[r]} /\ \A w \in Watches' : watches'[w] = watches[w]
  BY <1>1 DEF Watches
<1>3. \A q \in Requests : pc'[q] = IF q = r THEN "deleted" ELSE pc[q]
  BY <1>1 DEF TypeOK
<1>4. TypeOK'
  <2>1. pc' \in [Requests -> Places]
    BY <1>1 DEF TypeOK, Places
  <2>2. changes' \subseteq [by : Requests, watch : Watches', field : {"price", "listing"},
                            old : Prices \cup Listings, new : Prices \cup Listings, at : Nat]
    BY <1>1, <1>2 DEF TypeOK
  <2> QED BY <1>1, <1>2, <2>1, <2>2 DEF TypeOK
<1>5. MadeOnce'
  BY <1>1, <1>2, <1>3 DEF MadeOnce, TypeOK
<1>6. \A a, o : Linked(a, o)' <=> Linked(a, o)
  BY <1>1 DEF Linked, Closed
<1>7. LoadedOK'
  BY <1>1, <1>2, <1>3, <1>6 DEF LoadedOK, Creating
<1>8. Cardinality(Watches') <= Cardinality(Watches) /\ Cardinality(Watches') \in Nat
  <2>1. IsFiniteSet(Watches) /\ Watches' \in SUBSET Watches
    BY <1>2, WatchesFinite
  <2> QED BY <2>1, FS_Subset, FS_CardinalityType
<1>9. AloneOK'
  <2> SUFFICES ASSUME NEW q \in Requests, alone[q], pc'[q] \in Creating
               PROVE  /\ \A s \in Requests : s # q => pc'[s] \notin Creating
                      /\ pc[q] # "entitled" /\ allowed[q] # NoLimit =>
                            Cardinality(Watches') < allowed[q]
    BY <1>1, <1>3 DEF AloneOK, Creating
  <2>1. q # r /\ pc[q] \in Creating
    BY <1>3 DEF Creating
  <2>2. \A s \in Requests : s # q => pc'[s] \notin Creating
    BY <1>3, <2>1 DEF AloneOK, Creating
  <2>3. allowed[q] # NoLimit => allowed[q] \in Nat
    BY AllowedType
  <2>4. Cardinality(Watches) \in Nat
    BY WatchesFinite
  <2> QED BY <1>8, <2>1, <2>2, <2>3, <2>4 DEF AloneOK
<1>10. NumbersOK'
  <2>1. changes' \in SUBSET changes
    BY <1>1
  <2>2. IsFiniteSet(changes')
    BY <2>1, FS_Subset DEF NumbersOK
  <2>3. \A c \in changes' : RowsOf(c.watch)' = RowsOf(c.watch)
    BY <1>1 DEF RowsOf
  <2> QED BY <2>1, <2>2, <2>3 DEF NumbersOK
<1>11. WatchesOK'
  <2>1. ASSUME NEW w \in Watches'
        PROVE  /\ AtItsPrice(w)'
               /\ Explained(w, "price", watches[w].price, analyses[watches[w].original].price)'
               /\ Explained(w, "listing", watches[w].listing, "for_sale")'
    <3>1. w \in Watches /\ w # about[r] /\ watches'[w] = watches[w]
      BY <1>2
    <3>2. \A field : {c \in changes' : c.watch = w /\ c.field = field}
                     = {c \in changes : c.watch = w /\ c.field = field}
      BY <1>1, <3>1
    <3>3. AtItsPrice(w)'
      BY <1>1, <1>6, <3>1 DEF WatchesOK, AtItsPrice
    <3>4. /\ Explained(w, "price", watches[w].price, analyses[watches[w].original].price)
          /\ Explained(w, "listing", watches[w].listing, "for_sale")
      BY <3>1 DEF WatchesOK
    <3> QED BY <1>1, <3>1, <3>2, <3>3, <3>4 DEF Explained, ExplainedBy
  <2> QED BY <2>1 DEF WatchesOK
<1> QED BY <1>4, <1>5, <1>7, <1>9, <1>10, <1>11

(***************************************************************************)
(* The rows of a commit come after the watch's earlier ones.               *)
(***************************************************************************)
LEMMA NewRows ==
    ASSUME TypeOK, NumbersOK, NEW r \in Requests, about[r] \in Watches, row[r] \in WatchRow
    PROVE  /\ ChangesOf(r) \subseteq [by : Requests, watch : Watches, field : {"price", "listing"},
                                      old : Prices \cup Listings, new : Prices \cup Listings,
                                      at : Nat]
           /\ IsFiniteSet(ChangesOf(r))
           /\ \A c \in ChangesOf(r) :
                /\ c.watch = about[r] /\ c.at = Cardinality(RowsOf(about[r]))
                /\ c.field = "price" => NewPrice(r) /\ c.new = reported[r].price
                /\ c.field = "listing" => NewListing(r) /\ c.new = reported[r].listing
           /\ NewPrice(r) => \E c \in ChangesOf(r) : c.field = "price"
           /\ NewListing(r) => \E c \in ChangesOf(r) : c.field = "listing"
<1> DEFINE n == Cardinality(RowsOf(about[r]))
           price == [by |-> r, watch |-> about[r], field |-> "price", old |-> row[r]["price"],
                     new |-> reported[r]["price"], at |-> n]
           listing == [by |-> r, watch |-> about[r], field |-> "listing", old |-> row[r]["listing"],
                       new |-> reported[r]["listing"], at |-> n]
<1>1. ChangesOf(r) = (IF NewPrice(r) THEN {price} ELSE {}) \cup (IF NewListing(r) THEN {listing} ELSE {})
  BY DEF ChangesOf, RowsOf
<1>2. n \in Nat
  <2>1. RowsOf(about[r]) \in SUBSET changes /\ IsFiniteSet(changes)
    BY DEF RowsOf, NumbersOK
  <2>2. IsFiniteSet(RowsOf(about[r]))
    BY <2>1, FS_Subset
  <2> QED BY <2>2, FS_CardinalityType
<1>3. /\ row[r].price \in Prices /\ row[r].listing \in Listings
      /\ reported[r].price \in Prices \cup {None} /\ reported[r].listing \in Listings \cup {None}
  BY DEF TypeOK, WatchRow
<1>4. /\ row[r]["price"] = row[r].price /\ row[r]["listing"] = row[r].listing
      /\ reported[r]["price"] = reported[r].price /\ reported[r]["listing"] = reported[r].listing
  OBVIOUS
<1>5. IsFiniteSet({price}) /\ IsFiniteSet({listing}) /\ IsFiniteSet({})
  BY FS_Singleton, FS_EmptySet
<1> HIDE DEF n
<1>6. /\ NewPrice(r) => price.new \in Prices
      /\ NewListing(r) => listing.new \in Listings
  BY <1>3, <1>4 DEF NewPrice, NewListing
<1>7. /\ price.watch = about[r] /\ price.at = n /\ price.field = "price"
      /\ price.new = reported[r].price /\ price.by = r
      /\ listing.watch = about[r] /\ listing.at = n /\ listing.field = "listing"
      /\ listing.new = reported[r].listing /\ listing.by = r
  BY <1>4
<1>8. /\ NewPrice(r) =>
           price \in [by : Requests, watch : Watches, field : {"price", "listing"},
                      old : Prices \cup Listings, new : Prices \cup Listings, at : Nat]
      /\ NewListing(r) =>
           listing \in [by : Requests, watch : Watches, field : {"price", "listing"},
                        old : Prices \cup Listings, new : Prices \cup Listings, at : Nat]
  BY <1>2, <1>3, <1>4, <1>6
<1>9. IsFiniteSet(ChangesOf(r))
  <2> HIDE DEF price, listing
  <2>1. /\ IsFiniteSet(IF NewPrice(r) THEN {price} ELSE {})
        /\ IsFiniteSet(IF NewListing(r) THEN {listing} ELSE {})
    BY <1>5
  <2> QED BY <1>1, <2>1, FS_Union
<1> HIDE DEF price, listing
<1>10. /\ \A c \in ChangesOf(r) : \/ c = price /\ NewPrice(r)
                                  \/ c = listing /\ NewListing(r)
       /\ NewPrice(r) => price \in ChangesOf(r)
       /\ NewListing(r) => listing \in ChangesOf(r)
  BY <1>1
<1>11. \A c \in ChangesOf(r) :
         /\ c.watch = about[r] /\ c.at = n
         /\ c.field = "price" => NewPrice(r) /\ c.new = reported[r].price
         /\ c.field = "listing" => NewListing(r) /\ c.new = reported[r].listing
  BY <1>7, <1>10
<1>12. /\ NewPrice(r) => \E c \in ChangesOf(r) : c.field = "price"
       /\ NewListing(r) => \E c \in ChangesOf(r) : c.field = "listing"
  BY <1>7, <1>10
<1>13. ChangesOf(r) \subseteq [by : Requests, watch : Watches, field : {"price", "listing"},
                               old : Prices \cup Listings, new : Prices \cup Listings, at : Nat]
  BY <1>8, <1>10
<1> QED BY <1>9, <1>11, <1>12, <1>13 DEF n

(***************************************************************************)
(* The numbers go on: after a commit every row's is below the count again. *)
(***************************************************************************)
LEMMA NumbersGoOn ==
    ASSUME TypeOK, NumbersOK, NEW w, NEW C, IsFiniteSet(C),
           \A c \in C : c.watch = w /\ c.at = Cardinality(RowsOf(w)),
           changes' = changes \cup C
    PROVE  NumbersOK'
<1>1. IsFiniteSet(changes) /\ IsFiniteSet(changes')
  BY FS_Union DEF NumbersOK
<1>2. \A v : /\ RowsOf(v) \in SUBSET changes /\ RowsOf(v)' \in SUBSET changes'
             /\ RowsOf(v) \in SUBSET RowsOf(v)'
  BY DEF RowsOf
<1>3. ASSUME NEW v
      PROVE  /\ Cardinality(RowsOf(v)) \in Nat /\ Cardinality(RowsOf(v)') \in Nat
             /\ Cardinality(RowsOf(v)) <= Cardinality(RowsOf(v)')
             /\ Cardinality(RowsOf(v)) = Cardinality(RowsOf(v)') => RowsOf(v) = RowsOf(v)'
  <2> DEFINE before == RowsOf(v)
             after == RowsOf(v)'
  <2>1. IsFiniteSet(before) /\ IsFiniteSet(after) /\ before \in SUBSET after
    BY <1>1, <1>2, FS_Subset
  <2> HIDE DEF before, after
  <2>2. /\ Cardinality(before) \in Nat /\ Cardinality(after) \in Nat
        /\ Cardinality(before) <= Cardinality(after)
        /\ Cardinality(before) = Cardinality(after) => before = after
    BY <2>1, FS_Subset, FS_CardinalityType
  <2> QED BY <2>2 DEF before, after
<1>4. ASSUME NEW c \in changes' PROVE c.at < Cardinality(RowsOf(c.watch)')
  <2>1. CASE c \in changes
    <3>1. c.at < Cardinality(RowsOf(c.watch)) /\ c.at \in Nat
      BY <2>1 DEF NumbersOK, TypeOK
    <3> QED BY <1>3, <3>1
  <2>2. CASE c \notin changes
    <3>1. c.watch = w /\ c.at = Cardinality(RowsOf(w))
      BY <2>2
    <3>2. c \in RowsOf(w)' /\ c \notin RowsOf(w)
      BY <2>2, <3>1 DEF RowsOf
    <3> QED BY <1>3, <3>1, <3>2
  <2> QED BY <2>1, <2>2
<1> QED BY <1>1, <1>4 DEF NumbersOK

(***************************************************************************)
(* One field after a commit that may have changed it.                      *)
(***************************************************************************)
LEMMA FieldExplained ==
    ASSUME TypeOK, NumbersOK, NEW w, NEW C, NEW field, NEW old, NEW new, NEW first, NEW changed \in BOOLEAN,
           \A c \in C : /\ c.watch = w /\ c.at = Cardinality(RowsOf(w))
                        /\ c.field = field => changed /\ c.new = new,
           changed => \E c \in C : c.field = field,
           changes' = changes \cup C,
           Explained(w, field, old, first)
    PROVE  ExplainedBy(changes', w, field, IF changed THEN new ELSE old, first)
<1> DEFINE n == Cardinality(RowsOf(w))
<1>1. \A c \in changes : c.watch = w => c.at < n /\ c.at \in Nat
  BY DEF NumbersOK, TypeOK
<1>2. n \in Nat
  <2>1. RowsOf(w) \in SUBSET changes /\ IsFiniteSet(changes)
    BY DEF RowsOf, NumbersOK
  <2>2. IsFiniteSet(RowsOf(w))
    BY <2>1, FS_Subset
  <2> QED BY <2>2, FS_CardinalityType
<1>3. CASE changed
  <2>1. PICK c0 \in C : c0.field = field /\ c0.watch = w /\ c0.at = n
    BY <1>3
  <2> DEFINE reports == {c \in changes' : c.watch = w /\ c.field = field}
  <2>2. c0 \in reports
    BY <2>1
  <2>3. ASSUME NEW c \in reports, \A d \in reports : d.at <= c.at PROVE new = c.new
    <3>1. n <= c.at
      BY <2>1, <2>2, <2>3
    <3>2. c \notin changes
      <4> HIDE DEF n
      <4> QED BY <1>1, <1>2, <3>1
    <3> QED BY <3>2
  <2> HIDE DEF reports
  <2>4. reports # {}
    BY <2>2
  <2> QED BY <1>3, <2>3, <2>4 DEF reports, ExplainedBy
<1>4. CASE ~changed
  <2>1. {c \in changes' : c.watch = w /\ c.field = field} = {c \in changes : c.watch = w /\ c.field = field}
    BY <1>4
  <2> QED BY <1>4, <2>1 DEF Explained, ExplainedBy
<1> QED BY <1>3, <1>4

(***************************************************************************)
(* The commit of an update: the columns it writes, the analysis it saves   *)
(* and the rows it adds say the same.                                      *)
(***************************************************************************)
LEMMA CommitUpdateOK ==
    ASSUME IInv, NEW r \in Requests, CommitUpdate(r)
    PROVE  IInv'
<1> USE DEF IInv
<1>1. PICK w \in Watches : w = about[r]
  BY DEF CommitUpdate
<1> DEFINE price == IF NewPrice(r) THEN reported[r].price ELSE watches[w].price
           current == IF NewPrice(r) THEN r ELSE watches[w].current
           listing == IF NewListing(r) THEN reported[r].listing ELSE watches[w].listing
<1>2. /\ UNCHANGED <<limit, about, reported, allowed, row, alone>>
      /\ pc[r] = "loaded" /\ pc' = [pc EXCEPT ![r] = "updated"]
      /\ changes' = changes \cup ChangesOf(r)
      /\ recalculations' \subseteq Requests
      /\ NewPrice(r) => reported[r].price \notin Refused
      /\ NewPrice(r) =>
           analyses' = Put(analyses, r, [price |-> reported[r].price, from |-> row[r].current])
      /\ ~NewPrice(r) => analyses' = analyses
      /\ watches' = [watches EXCEPT
              ![w].price = IF NewPrice(r) THEN reported[r].price ELSE @,
              ![w].current = IF NewPrice(r) THEN r ELSE @,
              ![w].listing = IF NewListing(r) THEN reported[r].listing ELSE @]
  <2>1. /\ UNCHANGED <<limit, about, reported, allowed, row, alone>>
        /\ pc[r] = "loaded" /\ pc' = [pc EXCEPT ![r] = "updated"]
        /\ changes' = changes \cup ChangesOf(r)
        /\ NewPrice(r) => reported[r].price \notin Refused
    BY DEF CommitUpdate, GoTo, request
  <2>2. recalculations' \subseteq Requests
    BY DEF CommitUpdate, TypeOK
  <2>3. /\ NewPrice(r) =>
             analyses' = Put(analyses, r, [price |-> reported[r].price, from |-> row[r].current])
        /\ ~NewPrice(r) => analyses' = analyses
    BY DEF CommitUpdate
  <2>4. watches' = [watches EXCEPT
              ![w].price = IF NewPrice(r) THEN reported[r].price ELSE @,
              ![w].current = IF NewPrice(r) THEN r ELSE @,
              ![w].listing = IF NewListing(r) THEN reported[r].listing ELSE @]
    BY <1>1 DEF CommitUpdate
  <2> QED BY <2>1, <2>2, <2>3, <2>4
<1>3. /\ row[r] \in WatchRow /\ row[r].current \in DOMAIN analyses
      /\ Linked(row[r].current, row[r].original) /\ row[r].original = watches[w].original
  BY <1>1, <1>2 DEF LoadedOK
<1>4. /\ r \notin DOMAIN analyses /\ r \notin Watches
      /\ \A a \in DOMAIN analyses : a # None
  BY <1>2, WatchAssumption DEF MadeOnce, TypeOK, AnalysisIds
<1>5. watches[w] \in WatchRow /\ w \in Requests
  BY DEF TypeOK
<1>6. /\ Watches' = Watches
      /\ watches'[w] = [original |-> watches[w].original, current |-> current,
                         price |-> price, listing |-> listing]
      /\ \A v \in Watches : v # w => watches'[v] = watches[v]
  <2>1. /\ Watches' = Watches
        /\ \A v \in Watches : v # w => watches'[v] = watches[v]
    BY <1>2 DEF Watches
  <2>2. watches'[w] = [original |-> watches[w].original, current |-> current,
                       price |-> price, listing |-> listing]
    BY <1>2, <1>5 DEF WatchRow, Watches
  <2> QED BY <2>1, <2>2
<1>7. /\ watches'[w].original = watches[w].original /\ watches'[w].price = price
      /\ watches'[w].current = current /\ watches'[w].listing = listing
  BY <1>5, <1>6 DEF WatchRow
<1>8. /\ DOMAIN analyses \subseteq DOMAIN analyses'
      /\ \A a \in DOMAIN analyses : analyses'[a] = analyses[a]
      /\ DOMAIN analyses' \subseteq DOMAIN analyses \cup {r}
      /\ NewPrice(r) => r \in DOMAIN analyses' /\ analyses'[r].price = reported[r].price
                        /\ analyses'[r].from = row[r].current
      /\ r \in DOMAIN analyses' => NewPrice(r)
  BY <1>2, <1>4 DEF Put
<1>9. /\ NewPrice(r) => reported[r].price \in Prices \ Refused
      /\ NewListing(r) => reported[r].listing \in Listings
  BY <1>2 DEF TypeOK, NewPrice, NewListing
<1>10. \A q \in Requests : pc'[q] = IF q = r THEN "updated" ELSE pc[q]
  BY <1>2 DEF TypeOK
<1>11. /\ ChangesOf(r) \subseteq [by : Requests, watch : Watches, field : {"price", "listing"},
                                  old : Prices \cup Listings, new : Prices \cup Listings, at : Nat]
       /\ IsFiniteSet(ChangesOf(r))
       /\ \A c \in ChangesOf(r) :
            /\ c.watch = w /\ c.at = Cardinality(RowsOf(w))
            /\ c.field = "price" => NewPrice(r) /\ c.new = reported[r].price
            /\ c.field = "listing" => NewListing(r) /\ c.new = reported[r].listing
       /\ NewPrice(r) => \E c \in ChangesOf(r) : c.field = "price"
       /\ NewListing(r) => \E c \in ChangesOf(r) : c.field = "listing"
  BY <1>1, <1>3, NewRows
<1>12. watches'[w] \in WatchRow /\ price \notin Refused /\ current \in DOMAIN analyses'
  <2>1. /\ price \in Prices \ Refused /\ listing \in Listings
        /\ current \in AnalysisIds /\ current \in DOMAIN analyses'
    BY <1>5, <1>8, <1>9 DEF TypeOK, WatchRow, AnalysisIds
  <2> HIDE DEF price, listing, current
  <2> QED BY <1>5, <1>6, <2>1 DEF WatchRow
<1>13. TypeOK'
  <2>1. pc' \in [Requests -> Places]
    BY <1>2 DEF TypeOK, Places
  <2>2. /\ Saved \subseteq DOMAIN analyses' /\ DOMAIN analyses' \subseteq AnalysisIds
        /\ \A a \in DOMAIN analyses' : /\ analyses'[a].price \in Prices \ Refused
                                       /\ analyses'[a].from \in DOMAIN analyses' \cup {None}
    <3>1. Saved \subseteq DOMAIN analyses' /\ DOMAIN analyses' \subseteq AnalysisIds
      BY <1>8 DEF TypeOK, AnalysisIds
    <3>2. ASSUME NEW a \in DOMAIN analyses'
          PROVE  /\ analyses'[a].price \in Prices \ Refused
                 /\ analyses'[a].from \in DOMAIN analyses' \cup {None}
      <4>1. CASE a \in DOMAIN analyses
        BY <1>8, <4>1 DEF TypeOK
      <4>2. CASE a \notin DOMAIN analyses
        BY <1>3, <1>8, <1>9, <4>2
      <4> QED BY <4>1, <4>2
    <3> QED BY <3>1, <3>2
  <2>3. /\ Watches' \subseteq Requests
        /\ \A v \in Watches' : /\ watches'[v] \in WatchRow
                               /\ watches'[v].price \notin Refused
                               /\ {watches'[v].original, watches'[v].current} \subseteq DOMAIN analyses'
    <3>1. ASSUME NEW v \in Watches
          PROVE  /\ watches'[v] \in WatchRow
                 /\ watches'[v].price \notin Refused
                 /\ {watches'[v].original, watches'[v].current} \subseteq DOMAIN analyses'
      <4>1. CASE v = w
        <5> HIDE DEF price, current, listing
        <5> QED BY <1>7, <1>8, <1>12, <4>1 DEF TypeOK
      <4>2. CASE v # w
        BY <1>6, <1>8, <4>2 DEF TypeOK
      <4> QED BY <4>1, <4>2
    <3> QED BY <1>6, <3>1 DEF TypeOK
  <2>4. changes' \subseteq [by : Requests, watch : Watches', field : {"price", "listing"},
                            old : Prices \cup Listings, new : Prices \cup Listings, at : Nat]
    BY <1>2, <1>6, <1>11 DEF TypeOK
  <2> HIDE DEF price, current, listing
  <2> QED BY <1>2, <2>1, <2>2, <2>3, <2>4 DEF TypeOK
<1>14. MadeOnce'
  <2> HIDE DEF price, current, listing
  <2> QED BY <1>4, <1>6, <1>8, <1>10 DEF MadeOnce, TypeOK
<1>15. /\ \A a \in DOMAIN analyses : \A o : Linked(a, o) => Linked(a, o)'
       /\ NewPrice(r) => \A o : Linked(row[r].current, o) => Linked(r, o)'
  <2>1. CASE NewPrice(r)
    <3>1. \A a \in DOMAIN analyses : analyses[a].from \in DOMAIN analyses \cup {None}
      BY DEF TypeOK
    <3> QED BY <1>2, <1>3, <1>4, <2>1, <3>1, LinkedGrows
  <2>2. CASE ~NewPrice(r)
    BY <1>2, <2>2 DEF Linked, Closed
  <2> QED BY <2>1, <2>2
<1> HIDE DEF price, current, listing
<1>16. LoadedOK'
  <2> SUFFICES ASSUME NEW q \in Requests
               PROVE  /\ pc'[q] \in Creating => about[q] \in DOMAIN analyses'
                      /\ pc'[q] = "loaded" =>
                            /\ about[q] \in Requests /\ pc'[about[q]] = "created"
                            /\ row[q] \in WatchRow /\ row[q].current \in DOMAIN analyses'
                            /\ Linked(row[q].current, row[q].original)'
                            /\ about[q] \in Watches' => row[q].original = watches'[about[q]].original
    BY <1>2 DEF LoadedOK
  <2>1. pc'[q] \in Creating => about[q] \in DOMAIN analyses'
    BY <1>8, <1>10 DEF LoadedOK, Creating
  <2>2. ASSUME pc'[q] = "loaded"
        PROVE  /\ about[q] \in Requests /\ pc'[about[q]] = "created"
               /\ row[q] \in WatchRow /\ row[q].current \in DOMAIN analyses'
               /\ Linked(row[q].current, row[q].original)'
               /\ about[q] \in Watches' => row[q].original = watches'[about[q]].original
    <3>1. pc[q] = "loaded"
      BY <1>10, <2>2
    <3>2. /\ about[q] \in Requests /\ pc[about[q]] = "created"
          /\ row[q] \in WatchRow /\ row[q].current \in DOMAIN analyses
          /\ Linked(row[q].current, row[q].original)
          /\ about[q] \in Watches => row[q].original = watches[about[q]].original
      BY <3>1 DEF LoadedOK
    <3>3. PICK a, o : a \in DOMAIN analyses /\ a = row[q].current /\ o = row[q].original
      BY <3>2
    <3>4. Linked(a, o)'
      BY <1>15, <3>2, <3>3
    <3>5. Linked(row[q].current, row[q].original)'
      BY <1>2, <3>3, <3>4
    <3>6. pc'[about[q]] = "created"
      BY <1>2, <1>10, <3>2
    <3>7. about[q] \in Watches' => row[q].original = watches'[about[q]].original
      BY <1>6, <1>7, <3>2
    <3> QED BY <1>8, <3>2, <3>5, <3>6, <3>7
  <2> QED BY <2>1, <2>2
<1>17. AloneOK'
  BY <1>2, <1>6, <1>10 DEF AloneOK, Creating
<1>18. NumbersOK'
  BY <1>2, <1>11, NumbersGoOn
<1>19. ASSUME NEW v \in Watches, v # w
       PROVE  /\ AtItsPrice(v)'
              /\ Explained(v, "price", watches[v].price, analyses[watches[v].original].price)'
              /\ Explained(v, "listing", watches[v].listing, "for_sale")'
  <2>1. /\ watches'[v] = watches[v]
        /\ watches[v].current \in DOMAIN analyses /\ watches[v].original \in DOMAIN analyses
    BY <1>6, <1>19 DEF TypeOK
  <2>2. \A field : {c \in changes' : c.watch = v /\ c.field = field}
                   = {c \in changes : c.watch = v /\ c.field = field}
    BY <1>2, <1>11, <1>19
  <2>3. /\ AtItsPrice(v)
        /\ Explained(v, "price", watches[v].price, analyses[watches[v].original].price)
        /\ Explained(v, "listing", watches[v].listing, "for_sale")
    BY DEF WatchesOK
  <2>4. PICK a, o : a \in DOMAIN analyses /\ a = watches[v].current /\ o = watches[v].original
    BY <2>1
  <2>5. Linked(a, o)'
    BY <1>15, <2>3, <2>4 DEF AtItsPrice
  <2>6. AtItsPrice(v)'
    BY <1>8, <2>1, <2>3, <2>4, <2>5 DEF AtItsPrice
  <2> QED BY <1>8, <2>1, <2>2, <2>3, <2>6 DEF Explained, ExplainedBy
<1>20. AtItsPrice(w)'
  <2>1. analyses[watches[w].current].price = watches[w].price /\ watches[w].current \in DOMAIN analyses
        /\ Linked(watches[w].current, watches[w].original)
    BY DEF WatchesOK, AtItsPrice, TypeOK
  <2>2. analyses'[watches'[w].current].price = watches'[w].price
    BY <1>7, <1>8, <2>1 DEF price, current
  <2>3. PICK a, o : a = watches'[w].current /\ o = watches[w].original
    OBVIOUS
  <2>4. Linked(a, o)'
    BY <1>3, <1>7, <1>15, <2>1, <2>3 DEF current
  <2> QED BY <1>7, <2>2, <2>3, <2>4 DEF AtItsPrice
<1>21. /\ Explained(w, "price", watches[w].price, analyses[watches[w].original].price)'
       /\ Explained(w, "listing", watches[w].listing, "for_sale")'
  <2>1. /\ Explained(w, "price", watches[w].price, analyses[watches[w].original].price)
        /\ Explained(w, "listing", watches[w].listing, "for_sale")
        /\ watches[w].original \in DOMAIN analyses
    BY DEF WatchesOK, TypeOK
  <2>2. PICK C : C = ChangesOf(r)
    OBVIOUS
  <2>3. PICK changed \in BOOLEAN, repriced \in BOOLEAN :
            (changed <=> NewListing(r)) /\ (repriced <=> NewPrice(r))
    OBVIOUS
  <2>4. ExplainedBy(changes', w, "price", price, analyses[watches[w].original].price)
    <3>1. PICK old, new, first : /\ old = watches[w].price /\ new = reported[r].price
                                 /\ first = analyses[watches[w].original].price
      OBVIOUS
    <3>2. \A c \in C : /\ c.watch = w /\ c.at = Cardinality(RowsOf(w))
                       /\ c.field = "price" => repriced /\ c.new = new
      BY <1>11, <2>2, <2>3, <3>1
    <3>3. repriced => \E c \in C : c.field = "price"
      BY <1>11, <2>2, <2>3
    <3>4. changes' = changes \cup C /\ Explained(w, "price", old, first)
      BY <1>2, <2>1, <2>2, <3>1
    <3>5. price = IF repriced THEN new ELSE old
      BY <2>3, <3>1 DEF price
    <3>6. ExplainedBy(changes', w, "price", IF repriced THEN new ELSE old, first)
      BY <3>2, <3>3, <3>4, FieldExplained
    <3> QED BY <3>1, <3>5, <3>6
  <2>5. ExplainedBy(changes', w, "listing", listing, "for_sale")
    <3>1. PICK old, new : old = watches[w].listing /\ new = reported[r].listing
      OBVIOUS
    <3>2. \A c \in C : /\ c.watch = w /\ c.at = Cardinality(RowsOf(w))
                       /\ c.field = "listing" => changed /\ c.new = new
      BY <1>11, <2>2, <2>3, <3>1
    <3>3. changed => \E c \in C : c.field = "listing"
      BY <1>11, <2>2, <2>3
    <3>4. changes' = changes \cup C /\ Explained(w, "listing", old, "for_sale")
      BY <1>2, <2>1, <2>2, <3>1
    <3>5. listing = IF changed THEN new ELSE old
      BY <2>3, <3>1 DEF listing
    <3>6. ExplainedBy(changes', w, "listing", IF changed THEN new ELSE old, "for_sale")
      BY <3>2, <3>3, <3>4, FieldExplained
    <3> QED BY <3>5, <3>6
  <2> QED BY <1>7, <1>8, <2>1, <2>4, <2>5 DEF Explained, ExplainedBy
<1>22. WatchesOK'
  BY <1>6, <1>19, <1>20, <1>21 DEF WatchesOK
<1> QED BY <1>13, <1>14, <1>16, <1>17, <1>18, <1>22

-----------------------------------------------------------------------------
(***************************************************************************)
(* The inductive invariant.                                                *)
(***************************************************************************)
LEMMA NextIInv == IInv /\ [Next]_vars => IInv'
<1> SUFFICES ASSUME IInv, [Next]_vars PROVE IInv'
  OBVIOUS
<1>1. CASE UNCHANGED vars
  BY <1>1, TablesKept DEF vars, IInv, TypeOK, MadeOnce, LoadedOK, AloneOK, tables, request
<1>2. CASE Next
  BY <1>2, ReadLimitOK, CountWatchesOK, FindDuplicateOK, InsertWatchOK, LoadForUpdateOK,
     RefusedOrLostOK, CommitUpdateOK, LoadForDeleteOK, DeleteOK, ChangePlanOK DEF Next
<1> QED BY <1>1, <1>2

LEMMA Inductive == Spec => []IInv
BY InitIInv, NextIInv, PTL DEF Spec

(***************************************************************************)
(* Every variable keeps its type; what refers to an analysis finds it, and *)
(* no watch or analysis is at a price the engines refuse.                  *)
(***************************************************************************)
THEOREM WatchTypes == Spec => []TypeOK
BY Inductive, PTL DEF IInv

(***************************************************************************)
(* A watch's current analysis is at the watch's price and descends from    *)
(* the analysis it was made for, however many tabs report at once          *)
(* (api/v1/watch.py, update_watch).                                        *)
(***************************************************************************)
THEOREM WatchIsLinked == Spec => []CurrentIsLinked
<1>1. IInv => CurrentIsLinked
  BY ByWatch DEF IInv
<1> QED BY <1>1, Inductive, PTL

(***************************************************************************)
(* What a watch shows is what was last committed of it, field by field     *)
(* (api/v1/watch.py, update_watch writes only what changed).               *)
(***************************************************************************)
THEOREM WatchIsExplained == Spec => []HistoryExplainsWatch
<1>1. IInv => HistoryExplainsWatch
  BY ByWatch DEF IInv
<1> QED BY <1>1, Inductive, PTL

(***************************************************************************)
(* A client that creates one watch at a time never gets more of them than  *)
(* its plan included when it asked (api/v1/watch.py, create_watch).        *)
(***************************************************************************)
THEOREM LimitHolds == Spec => LimitHeldWhenAlone
<1> DEFINE A == \A r \in Requests :
                   pc[r] = "unmatched" /\ pc'[r] = "created" /\ alone[r] /\ allowed[r] # NoLimit =>
                      Cardinality(Watches') <= allowed[r]
<1>1. IInv /\ [Next]_vars => [A]_vars
  <2> SUFFICES ASSUME IInv, [Next]_vars, NEW r \in Requests, pc[r] = "unmatched",
                      pc'[r] = "created", alone[r], allowed[r] # NoLimit
               PROVE  Cardinality(Watches') <= allowed[r]
    OBVIOUS
  <2>1. pc \in [Requests -> Places]
    BY DEF IInv, TypeOK
  <2>2. InsertWatch(r)
    BY <2>1 DEF Next, vars, ReadLimit, CountWatches, FindDuplicate, InsertWatch, LoadForUpdate,
                RefusePrice, CommitUpdate, UpdateLost, LoadForDelete, Delete, ChangePlan, GoTo
  <2>3. Watches' = Watches \cup {r}
    BY <2>2 DEF InsertWatch, Put, Watches
  <2>4. Cardinality(Watches) < allowed[r]
    BY DEF IInv, AloneOK, Creating
  <2>5. IsFiniteSet(Watches) /\ Cardinality(Watches) \in Nat /\ allowed[r] \in Nat \cup {NoLimit}
    BY AllowedType, WatchesFinite DEF IInv
  <2>6. Cardinality(Watches \cup {r})
          = IF r \in Watches THEN Cardinality(Watches) ELSE Cardinality(Watches) + 1
    <3> HIDE DEF A
    <3> QED BY ONLY <2>5, FS_AddElement
  <2>7. allowed[r] \in Nat
    BY <2>5
  <2> QED BY <2>3, <2>4, <2>5, <2>6, <2>7
<1> QED BY <1>1, Inductive, PTL DEF Spec, LimitHeldWhenAlone
=============================================================================
