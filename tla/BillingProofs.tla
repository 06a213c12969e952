---------------------------- MODULE BillingProofs ----------------------------
(***************************************************************************)
(* Theorems about Billing, for any number of handlers, subscriptions and   *)
(* purchases, any log of the provider and any number of crashes.           *)
(***************************************************************************)
EXTENDS Billing, FiniteSetTheorems, SequenceTheorems, TLAPS

(***************************************************************************)
(* A purchase is recorded under the session it is about.                   *)
(***************************************************************************)
LogOK == \A k \in DOMAIN sent : sent[k].kind = "purchase" => sent[k].ref = sent[k].about

(***************************************************************************)
(* What a handler that stands at p with the rows w to write knows of its   *)
(* event e, when the reports are those of rows.                            *)
(***************************************************************************)
HandlerFits(p, w, e, rows) ==
    /\ p \in {"paying", "granting"} => e.kind = "purchase" /\ e.paid /\ w = {"payment"}
    /\ p = "checking" => e.kind = "invoice"
    /\ p = "committing" =>
          /\ "payment" \in w => e.kind \in {"purchase", "invoice"} /\ e.paid
          /\ "report" \in w => "payment" \in w /\ e.kind = "purchase" /\ e.about \in OwnSessions
          /\ "subscription" \in w => e.kind # "purchase"
          /\ e.kind \in {"started", "updated", "deleted"} => "subscription" \in w
          /\ e.kind = "purchase" /\ "payment" \in w /\ e.about \in OwnSessions =>
                "report" \in w \/ \E row \in rows : row.analysis = AnalysisOf[e.about]

HandlersOK ==
    \A h \in Handlers : pc[h] # "idle" =>
        /\ job[h] \in DOMAIN sent
        /\ HandlerFits(pc[h], writes[h], Event(h), reports)

IInv == TypeOK /\ LogOK /\ HandlersOK /\ MoneyCountedOnce /\ UnlockedAsPaid

-----------------------------------------------------------------------------
(***************************************************************************)
(* What an event has, by its kind.                                         *)
(***************************************************************************)
LEMMA EventFacts ==
    ASSUME NEW e \in Events
    PROVE  /\ e.kind \in {"purchase", "invoice", "updated", "started", "deleted"}
           /\ e.kind = "purchase" => e.about \in Sessions /\ e.ref \in Sessions /\ e.paid \in BOOLEAN
           /\ e.kind = "invoice" => e.about \in Subs /\ e.ref \in Subs \X Nat /\ e.paid \in BOOLEAN
           /\ e.kind # "purchase" => e.about \in Subs /\ NewStatus(e) \in Statuses
BY DEF Events, NewStatus, Statuses

LEMMA MadeEvents ==
    /\ \A x \in Sessions, paid \in BOOLEAN : Purchase(x, paid) \in Events
    /\ \A s \in Subs, n \in Nat, paid \in BOOLEAN : Invoice(s, n, paid) \in Events
    /\ \A s \in Subs, status \in Statuses : Updated(s, status) \in Events
    /\ \A s \in Subs : Started(s) \in Events /\ Deleted(s) \in Events
BY DEF Events, Purchase, Invoice, Updated, Started, Deleted

LEMMA InitIInv == Init => IInv
<1> SUFFICES ASSUME Init PROVE IInv
  OBVIOUS
<1> USE DEF Init
<1>1. TypeOK
  BY BillingAssumption DEF TypeOK, Steps
<1>2. LogOK /\ HandlersOK
  BY DEF LogOK, HandlersOK
<1>3. MoneyCountedOnce /\ UnlockedAsPaid
  BY DEF MoneyCountedOnce, UnlockedAsPaid, Recorded, Unlocked
<1> QED BY <1>1, <1>2, <1>3 DEF IInv

(***************************************************************************)
(* The provider appends to its log; nothing that was said changes.         *)
(***************************************************************************)
LEMMA LogGrows ==
    ASSUME TypeOK, NEW events \in Seq(Events), Emit(events)
    PROVE  /\ sent' \in Seq(Events) /\ Len(sent) \in Nat /\ Len(sent) <= Len(sent')
           /\ DOMAIN sent = 1..Len(sent) /\ DOMAIN sent' = 1..Len(sent')
           /\ \A k \in DOMAIN sent : k \in DOMAIN sent' /\ sent'[k] = sent[k]
           /\ \A k \in DOMAIN sent' : k \notin DOMAIN sent =>
                k - Len(sent) \in DOMAIN events /\ sent'[k] = events[k - Len(sent)]
           /\ \A i \in DOMAIN events :
                Len(sent) + i \in DOMAIN sent' /\ sent'[Len(sent) + i] = events[i]
<1>1. sent \in Seq(Events) /\ sent' = sent \o events
  BY DEF TypeOK, Emit
<1>2. /\ sent' \in Seq(Events) /\ Len(sent') = Len(sent) + Len(events)
      /\ Len(sent) \in Nat /\ Len(events) \in Nat
      /\ \A k \in 1..Len(sent) : sent'[k] = sent[k]
      /\ \A k \in 1..Len(events) : sent'[Len(sent) + k] = events[k]
  BY <1>1
<1>3. DOMAIN sent = 1..Len(sent) /\ DOMAIN sent' = 1..Len(sent') /\ DOMAIN events = 1..Len(events)
  BY <1>1, <1>2
<1>4. ASSUME NEW k \in DOMAIN sent', k \notin DOMAIN sent
      PROVE  k - Len(sent) \in DOMAIN events /\ sent'[k] = events[k - Len(sent)]
  <2>1. k - Len(sent) \in 1..Len(events) /\ Len(sent) + (k - Len(sent)) = k
    BY <1>2, <1>3, <1>4
  <2> QED BY <1>2, <1>3, <2>1
<1> QED BY <1>2, <1>3, <1>4

LEMMA EmitOK ==
    ASSUME IInv, NEW events \in Seq(Events), Emit(events),
           real' \in [Subs -> Statuses \cup {"absent"}],
           \A k \in DOMAIN events : events[k].kind = "purchase" => events[k].ref = events[k].about
    PROVE  IInv'
<1> USE DEF IInv
<1>1. /\ sent' \in Seq(Events) /\ Len(sent) \in Nat /\ Len(sent) <= Len(sent')
      /\ DOMAIN sent = 1..Len(sent) /\ DOMAIN sent' = 1..Len(sent')
      /\ \A k \in DOMAIN sent : k \in DOMAIN sent' /\ sent'[k] = sent[k]
      /\ \A k \in DOMAIN sent' : k \notin DOMAIN sent =>
           k - Len(sent) \in DOMAIN events /\ sent'[k] = events[k - Len(sent)]
  BY LogGrows
<1>2. UNCHANGED <<crashes, processed, payments, subs, reports, pc, job, seen, writes, viewing>>
  BY DEF Emit, tables, handlers
<1>3. TypeOK'
  <2>1. job' \in [Handlers -> 0 .. Len(sent')]
    BY <1>1, <1>2, LenProperties DEF TypeOK
  <2>2. processed' \subseteq DOMAIN sent' /\ payments' \subseteq [ref : Sessions \cup (Subs \X Nat), event : DOMAIN sent']
    BY <1>1, <1>2 DEF TypeOK
  <2> QED BY <1>1, <1>2, <2>1, <2>2 DEF TypeOK
<1>4. LogOK'
  BY <1>1 DEF LogOK
<1>5. HandlersOK'
  BY <1>1, <1>2 DEF HandlersOK, Event
<1>6. MoneyCountedOnce'
  BY <1>1, <1>2 DEF MoneyCountedOnce, TypeOK
<1>7. UnlockedAsPaid'
  BY <1>2 DEF UnlockedAsPaid, Recorded, Unlocked
<1> QED BY <1>3, <1>4, <1>5, <1>6, <1>7

(***************************************************************************)
(* The two events of one moment, in either order.                          *)
(***************************************************************************)
LEMMA TwoOrders ==
    ASSUME NEW a \in Events, NEW b \in Events, a # b, NEW q \in SetToSeqs({a, b})
    PROVE  /\ q \in Seq(Events) /\ Len(q) = 2 /\ DOMAIN q = 1..2
           /\ \/ q[1] = a /\ q[2] = b
              \/ q[1] = b /\ q[2] = a
<1>1. Cardinality({a, b}) = 2
  <2>1. IsFiniteSet({a}) /\ Cardinality({a}) = 1
    BY FS_Singleton
  <2>2. Cardinality({a} \cup {b}) = 2
    BY <2>1, FS_AddElement
  <2> QED BY <2>2
<1>2. q \in [1..2 -> {a, b}] /\ \A i, j \in 1..2 : i # j => q[i] # q[j]
  BY <1>1 DEF SetToSeqs
<1>3. q \in [1..2 -> Events] /\ DOMAIN q = 1..2
  BY <1>2
<1>4. q \in Seq(Events)
  BY <1>3, SeqDef
<1>5. Len(q) = 2
  BY <1>3, <1>4, LenProperties
<1>6. q[1] \in {a, b} /\ q[2] \in {a, b} /\ q[1] # q[2]
  BY <1>2
<1> QED BY <1>3, <1>4, <1>5, <1>6

-----------------------------------------------------------------------------
(***************************************************************************)
(* One step of a handler, when it changes no table.                        *)
(***************************************************************************)
LEMMA BecomeOK ==
    ASSUME IInv, NEW h \in Handlers, NEW state \in Steps,
           NEW rows \in SUBSET {"payment", "report", "subscription"},
           Become(h, state, rows), pc[h] # "idle",
           seen' \in [Handlers -> Statuses \cup {"absent"}],
           HandlerFits(state, rows, Event(h), reports)
    PROVE  IInv'
<1> USE DEF IInv
<1>1. /\ UNCHANGED <<real, sent, crashes, processed, payments, subs, reports, job, viewing>>
      /\ pc' = [pc EXCEPT ![h] = state] /\ writes' = [writes EXCEPT ![h] = rows]
  BY DEF Become, provider, tables
<1>2. TypeOK'
  BY <1>1 DEF TypeOK
<1>3. LogOK' /\ MoneyCountedOnce' /\ UnlockedAsPaid'
  BY <1>1 DEF LogOK, MoneyCountedOnce, UnlockedAsPaid, Recorded, Unlocked
<1>4. HandlersOK'
  <2> SUFFICES ASSUME NEW g \in Handlers, pc'[g] # "idle"
               PROVE  /\ job[g] \in DOMAIN sent
                      /\ HandlerFits(pc'[g], writes'[g], Event(g), reports)
    BY <1>1 DEF HandlersOK, Event
  <2>1. CASE g = h
    BY <1>1, <2>1 DEF HandlersOK, TypeOK
  <2>2. CASE g # h
    BY <1>1, <2>2 DEF HandlersOK, TypeOK
  <2> QED BY <2>1, <2>2
<1> QED BY <1>2, <1>3, <1>4

LEMMA ReceiveOK ==
    ASSUME IInv, NEW h \in Handlers, NEW k \in DOMAIN sent, Receive(h, k)
    PROVE  IInv'
<1> USE DEF IInv
<1>1. /\ UNCHANGED <<real, sent, crashes, processed, payments, subs, reports, viewing>>
      /\ pc' = [pc EXCEPT ![h] = "received"] /\ job' = [job EXCEPT ![h] = k]
      /\ seen' = [seen EXCEPT ![h] = "absent"] /\ writes' = [writes EXCEPT ![h] = {}]
  BY DEF Receive, provider, tables
<1>2. k \in 0..Len(sent)
  BY DEF TypeOK
<1>3. TypeOK'
  BY <1>1, <1>2 DEF TypeOK, Steps
<1>4. LogOK' /\ MoneyCountedOnce' /\ UnlockedAsPaid'
  BY <1>1 DEF LogOK, MoneyCountedOnce, UnlockedAsPaid, Recorded, Unlocked
<1>5. HandlersOK'
  <2> SUFFICES ASSUME NEW g \in Handlers, pc'[g] # "idle"
               PROVE  /\ job'[g] \in DOMAIN sent
                      /\ HandlerFits(pc'[g], writes'[g], sent[job'[g]], reports)
    BY <1>1 DEF HandlersOK, Event
  <2>1. CASE g = h
    BY <1>1, <2>1 DEF TypeOK, HandlerFits
  <2>2. CASE g # h
    BY <1>1, <2>2 DEF HandlersOK, TypeOK, Event
  <2> QED BY <2>1, <2>2
<1> QED BY <1>3, <1>4, <1>5

(***************************************************************************)
(* The steps of a handler before it commits.                               *)
(***************************************************************************)
LEMMA ReadPurchaseOK ==
    ASSUME IInv, NEW h \in Handlers, ReadPurchase(h)
    PROVE  IInv'
<1>1. seen' \in [Handlers -> Statuses \cup {"absent"}] /\ pc[h] # "idle"
  BY DEF IInv, TypeOK, ReadPurchase
<1>2. CASE Event(h).paid /\ ~Recorded(Event(h).ref)
  <2>1. Become(h, "paying", {"payment"}) /\ HandlerFits("paying", {"payment"}, Event(h), reports)
    BY <1>2 DEF ReadPurchase, HandlerFits
  <2> QED BY <1>1, <2>1, BecomeOK DEF Steps
<1>3. CASE ~(Event(h).paid /\ ~Recorded(Event(h).ref))
  <2>1. Become(h, "committing", {}) /\ HandlerFits("committing", {}, Event(h), reports)
    BY <1>3 DEF ReadPurchase, HandlerFits
  <2> QED BY <1>1, <2>1, BecomeOK DEF Steps
<1> QED BY <1>2, <1>3

LEMMA FlushPaymentOK ==
    ASSUME IInv, NEW h \in Handlers, FlushPayment(h)
    PROVE  IInv'
<1> DEFINE state == IF Recorded(Event(h).ref) THEN "idle" ELSE "granting"
<1>1. /\ seen' \in [Handlers -> Statuses \cup {"absent"}] /\ pc[h] = "paying" /\ state \in Steps
      /\ writes[h] \in SUBSET {"payment", "report", "subscription"}
  BY DEF IInv, TypeOK, FlushPayment, Steps
<1>2. Become(h, state, writes[h])
  BY DEF FlushPayment
<1>3. HandlerFits(state, writes[h], Event(h), reports)
  BY <1>1 DEF IInv, HandlersOK, HandlerFits
<1> HIDE DEF state
<1> QED BY <1>1, <1>2, <1>3, BecomeOK

LEMMA ReadReportOK ==
    ASSUME IInv, NEW h \in Handlers, ReadReport(h)
    PROVE  IInv'
<1> DEFINE x == Event(h).about
           rows == IF x \in OwnSessions /\ ~Unlocked(AnalysisOf[x])
                   THEN writes[h] \cup {"report"} ELSE writes[h]
<1>1. /\ seen' \in [Handlers -> Statuses \cup {"absent"}] /\ pc[h] = "granting"
      /\ rows \in SUBSET {"payment", "report", "subscription"}
  BY DEF IInv, TypeOK, ReadReport
<1>2. Become(h, "committing", rows)
  BY DEF ReadReport
<1>3. Event(h).kind = "purchase" /\ Event(h).paid /\ writes[h] = {"payment"}
  BY <1>1 DEF IInv, HandlersOK, HandlerFits
<1>4. HandlerFits("committing", rows, Event(h), reports)
  BY <1>3 DEF HandlerFits, Unlocked
<1> HIDE DEF rows
<1> QED BY <1>1, <1>2, <1>4, BecomeOK DEF Steps

LEMMA LoadSubscriptionOK ==
    ASSUME IInv, NEW h \in Handlers, LoadSubscription(h)
    PROVE  IInv'
<1> DEFINE row == subs[Event(h).about]
<1>1. pc[h] = "received" /\ Event(h).kind # "purchase" /\ seen' = [seen EXCEPT ![h] = row]
  BY DEF LoadSubscription
<1>2. Event(h) \in Events
  BY <1>1 DEF IInv, HandlersOK, TypeOK, Event
<1>3. Event(h).about \in Subs
  BY <1>1, <1>2, EventFacts
<1>4. seen' \in [Handlers -> Statuses \cup {"absent"}]
  BY <1>1, <1>3 DEF IInv, TypeOK
<1>5. CASE Event(h).kind # "invoice"
  <2>1. /\ Become(h, "committing", {"subscription"})
        /\ HandlerFits("committing", {"subscription"}, Event(h), reports)
    BY <1>1, <1>5 DEF LoadSubscription, HandlerFits
  <2> QED BY <1>1, <1>4, <2>1, BecomeOK DEF Steps
<1>6. CASE Event(h).kind = "invoice" /\ row = "absent"
  <2>1. Become(h, "committing", {}) /\ HandlerFits("committing", {}, Event(h), reports)
    BY <1>6 DEF LoadSubscription, HandlerFits
  <2> QED BY <1>1, <1>4, <2>1, BecomeOK DEF Steps
<1>7. CASE Event(h).kind = "invoice" /\ row # "absent"
  <2>1. Become(h, "checking", {}) /\ HandlerFits("checking", {}, Event(h), reports)
    BY <1>7 DEF LoadSubscription, HandlerFits
  <2> QED BY <1>1, <1>4, <2>1, BecomeOK DEF Steps
<1> QED BY <1>5, <1>6, <1>7

LEMMA CheckInvoiceOK ==
    ASSUME IInv, NEW h \in Handlers, CheckInvoice(h)
    PROVE  IInv'
<1> DEFINE rows == IF Event(h).paid /\ ~Recorded(Event(h).ref)
                   THEN {"payment", "subscription"} ELSE {}
<1>1. /\ seen' \in [Handlers -> Statuses \cup {"absent"}] /\ pc[h] = "checking"
      /\ rows \in SUBSET {"payment", "report", "subscription"}
  BY DEF IInv, TypeOK, CheckInvoice
<1>2. Become(h, "committing", rows)
  BY DEF CheckInvoice
<1>3. Event(h).kind = "invoice"
  BY <1>1 DEF IInv, HandlersOK, HandlerFits
<1>4. HandlerFits("committing", rows, Event(h), reports)
  BY <1>3 DEF HandlerFits
<1> HIDE DEF rows
<1> QED BY <1>1, <1>2, <1>4, BecomeOK DEF Steps

LEMMA RollBackOK ==
    ASSUME IInv, NEW h \in Handlers, RollBack(h)
    PROVE  IInv'
<1>1. /\ seen' \in [Handlers -> Statuses \cup {"absent"}] /\ pc[h] # "idle"
      /\ writes[h] \in SUBSET {"payment", "report", "subscription"}
      /\ Become(h, "idle", writes[h])
  BY DEF IInv, TypeOK, RollBack
<1>2. HandlerFits("idle", writes[h], Event(h), reports)
  BY DEF HandlerFits
<1> QED BY <1>1, <1>2, BecomeOK DEF Steps

(***************************************************************************)
(* A commit: the constraints of the tables do what the reads before it     *)
(* could not, and a purchase brings its report with its payment.           *)
(***************************************************************************)
LEMMA CommitOK ==
    ASSUME IInv, NEW h \in Handlers, Commit(h)
    PROVE  IInv'
<1> USE DEF IInv
<1> DEFINE e == Event(h)
<1>1. /\ UNCHANGED <<real, sent, crashes, job, seen, writes, viewing>>
      /\ pc[h] = "committing" /\ pc' = [pc EXCEPT ![h] = "idle"]
      /\ processed' = processed \cup {job[h]}
  BY DEF Commit, provider
<1>2. job[h] \in DOMAIN sent /\ HandlerFits("committing", writes[h], e, reports)
  BY <1>1 DEF HandlersOK
<1>3. e \in Events /\ sent[job[h]] = e
  BY <1>2 DEF TypeOK, Event
<1>4. /\ "payment" \in writes[h] => e.kind \in {"purchase", "invoice"} /\ e.paid /\ ~Recorded(e.ref)
      /\ "report" \in writes[h] => /\ "payment" \in writes[h] /\ e.kind = "purchase"
                                   /\ e.about \in OwnSessions /\ ~Unlocked(AnalysisOf[e.about])
      /\ "subscription" \in writes[h] => e.kind # "purchase"
  BY <1>1, <1>2 DEF HandlerFits, Commit, Conflict
<1>5. /\ "payment" \in writes[h] => payments' = payments \cup {[ref |-> e.ref, event |-> job[h]]}
      /\ "payment" \notin writes[h] => payments' = payments
      /\ "report" \in writes[h] =>
            reports' = reports \cup {[analysis |-> AnalysisOf[e.about], source |-> "purchase"]}
      /\ "report" \notin writes[h] => reports' = reports
  BY DEF Commit
<1>6. subs' \in [Subs -> Statuses \cup {"absent"}]
  <2>1. CASE "subscription" \in writes[h] /\ NewStatus(e) # seen[h]
    <3>1. e.about \in Subs /\ NewStatus(e) \in Statuses
      BY <1>3, <1>4, <2>1, EventFacts
    <3>2. subs' = [subs EXCEPT ![e.about] = NewStatus(e)]
      BY <2>1 DEF Commit
    <3> HIDE DEF e
    <3> QED BY <3>1, <3>2 DEF TypeOK
  <2>2. CASE ~("subscription" \in writes[h] /\ NewStatus(e) # seen[h])
    BY <2>2 DEF TypeOK, Commit
  <2> QED BY <2>1, <2>2
<1>7. \A row \in payments' : row \in payments \/
         /\ "payment" \in writes[h] /\ row = [ref |-> e.ref, event |-> job[h]]
  BY <1>5
<1>8. payments' \subseteq [ref : Sessions \cup (Subs \X Nat), event : DOMAIN sent]
  <2>1. "payment" \in writes[h] => e.ref \in Sessions \cup (Subs \X Nat)
    BY <1>3, <1>4, EventFacts
  <2> QED BY <1>2, <1>7, <2>1 DEF TypeOK
<1>9. \A row \in reports' : row \in reports \/
         /\ "report" \in writes[h]
         /\ row = [analysis |-> AnalysisOf[e.about], source |-> "purchase"]
  BY <1>5
<1>10. reports' \subseteq [analysis : Analyses, source : {"purchase", "plan"}]
  BY <1>4, <1>9, BillingAssumption DEF TypeOK
<1>11. TypeOK'
  BY <1>1, <1>2, <1>6, <1>8, <1>10 DEF TypeOK, Steps
<1>12. LogOK'
  BY <1>1 DEF LogOK
<1>13. payments \subseteq payments' /\ reports \subseteq reports'
  BY <1>5
<1>14. HandlersOK'
  <2> SUFFICES ASSUME NEW g \in Handlers, pc'[g] # "idle"
               PROVE  /\ job[g] \in DOMAIN sent
                      /\ HandlerFits(pc'[g], writes[g], Event(g), reports')
    BY <1>1 DEF HandlersOK, Event
  <2>1. g # h /\ pc'[g] = pc[g]
    BY <1>1 DEF TypeOK
  <2>2. job[g] \in DOMAIN sent /\ HandlerFits(pc[g], writes[g], Event(g), reports)
    BY <2>1 DEF HandlersOK
  <2> QED BY <1>13, <2>1, <2>2 DEF HandlerFits
<1>15. MoneyCountedOnce'
  <2>1. \A a, b \in payments' : a.ref = b.ref => a = b
    <3> SUFFICES ASSUME NEW a \in payments', NEW b \in payments', a.ref = b.ref PROVE a = b
      OBVIOUS
    <3> QED BY <1>4, <1>7 DEF MoneyCountedOnce, Recorded
  <2>2. \A row \in payments' : sent[row.event].paid /\ sent[row.event].ref = row.ref
                                /\ row.event \in processed'
    BY <1>1, <1>3, <1>4, <1>7 DEF MoneyCountedOnce
  <2> QED BY <1>1, <2>1, <2>2 DEF MoneyCountedOnce
<1>16. UnlockedAsPaid'
  <2>1. ASSUME NEW x \in OwnSessions, Recorded(x)' PROVE Unlocked(AnalysisOf[x])'
    <3>1. CASE Recorded(x)
      BY <1>13, <3>1 DEF UnlockedAsPaid, Unlocked
    <3>2. CASE ~Recorded(x)
      <4>1. "payment" \in writes[h] /\ e.ref = x
        BY <1>7, <2>1, <3>2 DEF Recorded
      <4>2. e.kind = "purchase"
        <5>1. e.kind = "invoice" => x \in Subs \X Nat
          BY <1>3, <4>1, EventFacts
        <5>2. x \in Sessions
          BY BillingAssumption
        <5> QED BY <1>4, <4>1, <5>1, <5>2, BillingAssumption
      <4>3. e.about = x
        BY <1>2, <4>1, <4>2 DEF LogOK, Event
      <4>4. "report" \in writes[h] \/ \E row \in reports : row.analysis = AnalysisOf[x]
        BY <1>2, <4>1, <4>2, <4>3 DEF HandlerFits
      <4>5. CASE "report" \in writes[h]
        <5>1. [analysis |-> AnalysisOf[x], source |-> "purchase"] \in reports'
          BY <1>5, <4>3, <4>5
        <5> QED BY <5>1 DEF Unlocked
      <4>6. CASE \E row \in reports : row.analysis = AnalysisOf[x]
        BY <1>13, <4>6 DEF Unlocked
      <4> QED BY <4>4, <4>5, <4>6
    <3> QED BY <3>1, <3>2
  <2>2. \A a, b \in reports' : a.analysis = b.analysis => a = b
    <3> SUFFICES ASSUME NEW a \in reports', NEW b \in reports', a.analysis = b.analysis PROVE a = b
      OBVIOUS
    <3> QED BY <1>4, <1>9 DEF UnlockedAsPaid, Unlocked
  <2>3. ASSUME NEW row \in reports', row.source = "purchase"
        PROVE  \E x \in OwnSessions : AnalysisOf[x] = row.analysis /\ Recorded(x)'
    <3>1. CASE row \in reports
      BY <1>13, <2>3, <3>1 DEF UnlockedAsPaid, Recorded
    <3>2. CASE row \notin reports
      <4>1. /\ "report" \in writes[h] /\ row.analysis = AnalysisOf[e.about]
            /\ "payment" \in writes[h] /\ e.kind = "purchase" /\ e.about \in OwnSessions
        BY <1>4, <1>9, <3>2
      <4>2. PICK x \in OwnSessions : x = e.about
        BY <4>1
      <4>3. e.ref = x
        BY <1>2, <4>1, <4>2 DEF LogOK, Event
      <4>4. [ref |-> x, event |-> job[h]] \in payments'
        BY <1>5, <4>1, <4>3
      <4>5. Recorded(x)'
        BY <4>4 DEF Recorded
      <4> QED BY <4>1, <4>2, <4>5
    <3> QED BY <3>1, <3>2
  <2> QED BY <2>1, <2>2, <2>3 DEF UnlockedAsPaid
<1> QED BY <1>11, <1>12, <1>14, <1>15, <1>16

(***************************************************************************)
(* A crash forgets a handler, and a Deep Dive adds at most one report.     *)
(***************************************************************************)
LEMMA CrashOK ==
    ASSUME IInv, NEW h \in Handlers, Crash(h)
    PROVE  IInv'
<1> USE DEF IInv
<1>1. /\ UNCHANGED <<real, sent, processed, payments, subs, reports, job, seen, writes, viewing>>
      /\ pc' = [pc EXCEPT ![h] = "idle"] /\ crashes' = crashes + 1 /\ crashes < MaxCrashes
  BY DEF Crash, provider, tables
<1>2. TypeOK'
  BY <1>1, BillingAssumption DEF TypeOK, Steps
<1>3. LogOK' /\ MoneyCountedOnce' /\ UnlockedAsPaid'
  BY <1>1 DEF LogOK, MoneyCountedOnce, UnlockedAsPaid, Recorded, Unlocked
<1>4. HandlersOK'
  BY <1>1 DEF HandlersOK, Event, TypeOK
<1> QED BY <1>2, <1>3, <1>4

LEMMA OpenDeepDiveOK ==
    ASSUME IInv, NEW v \in Readers, NEW a \in Analyses, OpenDeepDive(v, a)
    PROVE  IInv'
<1> USE DEF IInv
<1>1. /\ UNCHANGED <<real, sent, crashes, processed, payments, subs, reports, pc, job, seen, writes>>
      /\ viewing' = [viewing EXCEPT ![v] = a]
  BY DEF OpenDeepDive, provider, tables, handlers
<1>2. TypeOK'
  BY <1>1 DEF TypeOK
<1> QED BY <1>1, <1>2 DEF LogOK, HandlersOK, Event, MoneyCountedOnce, UnlockedAsPaid, Recorded, Unlocked

LEMMA RecordUnlockOK ==
    ASSUME IInv, NEW v \in Readers, RecordUnlock(v)
    PROVE  IInv'
<1> USE DEF IInv
<1>1. /\ UNCHANGED <<real, sent, crashes, processed, payments, subs, pc, job, seen, writes>>
      /\ viewing' = [viewing EXCEPT ![v] = None] /\ viewing[v] \in Analyses
      /\ reports' = IF Unlocked(viewing[v]) THEN reports
                    ELSE reports \cup {[analysis |-> viewing[v], source |-> "plan"]}
  BY DEF RecordUnlock, provider, handlers, TypeOK
<1>2. TypeOK'
  BY <1>1 DEF TypeOK
<1>3. LogOK' /\ MoneyCountedOnce'
  BY <1>1 DEF LogOK, MoneyCountedOnce
<1>4. reports \subseteq reports'
  BY <1>1
<1>5. HandlersOK'
  <2> SUFFICES ASSUME NEW g \in Handlers, pc[g] # "idle"
               PROVE  HandlerFits(pc[g], writes[g], Event(g), reports')
    BY <1>1 DEF HandlersOK, Event
  <2>1. HandlerFits(pc[g], writes[g], Event(g), reports)
    BY DEF HandlersOK
  <2> QED BY <1>4, <2>1 DEF HandlerFits
<1>6. UnlockedAsPaid'
  BY <1>1, <1>4 DEF UnlockedAsPaid, Recorded, Unlocked
<1> QED BY <1>2, <1>3, <1>5, <1>6

(***************************************************************************)
(* What each step of the provider appends.                                 *)
(***************************************************************************)
LEMMA EmitOneOK ==
    ASSUME IInv, NEW e \in Events, Emit(<<e>>),
           real' \in [Subs -> Statuses \cup {"absent"}],
           e.kind = "purchase" => e.ref = e.about
    PROVE  IInv'
<1>1. <<e>> \in Seq(Events) /\ DOMAIN <<e>> = 1..1 /\ <<e>>[1] = e
  OBVIOUS
<1>2. \A k \in DOMAIN <<e>> : <<e>>[k].kind = "purchase" => <<e>>[k].ref = <<e>>[k].about
  BY <1>1
<1> DEFINE q == <<e>>
<1>3. q \in Seq(Events) /\ Emit(q)
  BY <1>1
<1>4. \A k \in DOMAIN q : q[k].kind = "purchase" => q[k].ref = q[k].about
  BY <1>2
<1> HIDE DEF q
<1> QED BY <1>3, <1>4, EmitOK

LEMMA SubscriptionEvents ==
    ASSUME TypeOK, NEW s \in Subs, NEW paid \in BOOLEAN,
           NEW q \in SetToSeqs({Started(s), Invoice(s, 0, paid)})
    PROVE  /\ q \in Seq(Events) /\ Len(q) = 2 /\ DOMAIN q = 1..2
           /\ \/ q[1] = Started(s) /\ q[2] = Invoice(s, 0, paid)
              \/ q[1] = Invoice(s, 0, paid) /\ q[2] = Started(s)
           /\ \A k \in DOMAIN q : q[k].kind # "purchase" /\ q[k].about = s
<1>1. Started(s) \in Events /\ Invoice(s, 0, paid) \in Events
  BY MadeEvents
<1>2. Started(s) # Invoice(s, 0, paid)
  BY DEF Started, Invoice
<1>3. /\ q \in Seq(Events) /\ Len(q) = 2 /\ DOMAIN q = 1..2
      /\ \/ q[1] = Started(s) /\ q[2] = Invoice(s, 0, paid)
         \/ q[1] = Invoice(s, 0, paid) /\ q[2] = Started(s)
  BY <1>1, <1>2, TwoOrders
<1>4. \A e \in {Started(s), Invoice(s, 0, paid)} : e.kind # "purchase" /\ e.about = s
  BY DEF Started, Invoice
<1>5. \A k \in 1..2 : q[k] \in {Started(s), Invoice(s, 0, paid)}
  BY <1>3
<1> QED BY <1>3, <1>4, <1>5

LEMMA RenewalEvents ==
    ASSUME TypeOK, NEW s \in Subs, NEW n \in Nat, NEW paid \in BOOLEAN,
           NEW q \in SetToSeqs({Invoice(s, n, paid), Updated(s, "active")})
    PROVE  /\ q \in Seq(Events) /\ Len(q) = 2 /\ DOMAIN q = 1..2
           /\ \/ q[1] = Invoice(s, n, paid) /\ q[2] = Updated(s, "active")
              \/ q[1] = Updated(s, "active") /\ q[2] = Invoice(s, n, paid)
           /\ \A k \in DOMAIN q : q[k].kind # "purchase" /\ q[k].about = s
<1>1. Invoice(s, n, paid) \in Events /\ Updated(s, "active") \in Events
  BY MadeEvents DEF Statuses
<1>2. Invoice(s, n, paid) # Updated(s, "active")
  BY DEF Updated, Invoice
<1>3. /\ q \in Seq(Events) /\ Len(q) = 2 /\ DOMAIN q = 1..2
      /\ \/ q[1] = Invoice(s, n, paid) /\ q[2] = Updated(s, "active")
         \/ q[1] = Updated(s, "active") /\ q[2] = Invoice(s, n, paid)
  BY <1>1, <1>2, TwoOrders
<1>4. \A e \in {Invoice(s, n, paid), Updated(s, "active")} : e.kind # "purchase" /\ e.about = s
  BY DEF Updated, Invoice
<1>5. q[1].kind # "purchase" /\ q[1].about = s /\ q[2].kind # "purchase" /\ q[2].about = s
  BY <1>3, <1>4
<1> QED BY <1>3, <1>5

(***************************************************************************)
(* A subscription has had finitely many invoices.                          *)
(***************************************************************************)
LEMMA InvoicesCounted ==
    ASSUME TypeOK, NEW s
    PROVE  Cardinality(InvoicesOf(s)) \in Nat
<1> DEFINE K == {k \in DOMAIN sent : sent[k].kind = "invoice" /\ sent[k].about = s}
           ref == [k \in K |-> sent[k].ref]
<1>1. sent \in Seq(Events) /\ DOMAIN sent = 1..Len(sent) /\ Len(sent) \in Nat
  BY LenProperties DEF TypeOK
<1>2. IsFiniteSet(K)
  <2>1. IsFiniteSet(1..Len(sent)) /\ K \in SUBSET (1..Len(sent))
    BY <1>1, FS_Interval
  <2> HIDE DEF K
  <2> QED BY <2>1, FS_Subset
<1>3. InvoicesOf(s) = {ref[k] : k \in K}
  BY DEF InvoicesOf, Range
<1>4. ref \in Surjection(K, InvoicesOf(s))
  BY <1>3 DEF Surjection
<1>5. IsFiniteSet(InvoicesOf(s))
  BY <1>2, <1>4, FS_Surjection
<1> QED BY <1>5, FS_CardinalityType

LEMMA ProviderOK ==
    ASSUME IInv, Provider
    PROVE  IInv'
<1>1. real \in [Subs -> Statuses \cup {"absent"}] /\ sent \in Seq(Events) /\ TypeOK
  BY DEF IInv, TypeOK
<1>2. ASSUME NEW x \in Sessions, Buy(x) PROVE IInv'
  <2>1. PICK paid \in BOOLEAN : Emit(<<Purchase(x, paid)>>) /\ UNCHANGED real
    BY <1>2 DEF Buy
  <2>2. Purchase(x, paid) \in Events /\ Purchase(x, paid).ref = Purchase(x, paid).about
    BY MadeEvents DEF Purchase
  <2> QED BY <1>1, <2>1, <2>2, EmitOneOK
<1>3. ASSUME NEW s \in Subs, Subscribe(s) PROVE IInv'
  <2>1. PICK paid \in BOOLEAN : \E q \in SetToSeqs({Started(s), Invoice(s, 0, paid)}) : Emit(q)
    BY <1>3 DEF Subscribe
  <2>2. PICK q \in SetToSeqs({Started(s), Invoice(s, 0, paid)}) : Emit(q)
    BY <2>1
  <2>3. /\ q \in Seq(Events)
        /\ \A k \in DOMAIN q : q[k].kind = "purchase" => q[k].ref = q[k].about
    BY <1>1, SubscriptionEvents
  <2>4. real' \in [Subs -> Statuses \cup {"absent"}]
    BY <1>1, <1>3 DEF Subscribe, Statuses
  <2> QED BY <2>2, <2>3, <2>4, EmitOK
<1>4. ASSUME NEW s \in Subs, Renew(s) PROVE IInv'
  <2> DEFINE n == Cardinality(InvoicesOf(s))
             paid == TRUE
  <2>1. n \in Nat /\ paid \in BOOLEAN
    BY <1>1, InvoicesCounted
  <2>2. PICK q \in SetToSeqs({Invoice(s, n, paid), Updated(s, "active")}) : Emit(q)
    BY <1>4 DEF Renew
  <2> HIDE DEF n, paid
  <2>3. /\ q \in Seq(Events)
        /\ \A k \in DOMAIN q : q[k].kind = "purchase" => q[k].ref = q[k].about
    BY <1>1, <2>1, RenewalEvents
  <2>4. real' \in [Subs -> Statuses \cup {"absent"}]
    BY <1>1, <1>4 DEF Renew, Statuses
  <2> QED BY <2>2, <2>3, <2>4, EmitOK
<1>5. ASSUME NEW s \in Subs, Lapse(s) PROVE IInv'
  <2>1. Updated(s, "past_due") \in Events /\ Updated(s, "past_due").kind # "purchase"
    BY MadeEvents DEF Updated, Statuses
  <2>2. real' \in [Subs -> Statuses \cup {"absent"}] /\ Emit(<<Updated(s, "past_due")>>)
    BY <1>1, <1>5 DEF Lapse, Statuses
  <2> QED BY <2>1, <2>2, EmitOneOK
<1>6. ASSUME NEW s \in Subs, Cancel(s) PROVE IInv'
  <2>1. Deleted(s) \in Events /\ Deleted(s).kind # "purchase"
    BY MadeEvents DEF Deleted
  <2>2. real' \in [Subs -> Statuses \cup {"absent"}] /\ Emit(<<Deleted(s)>>)
    BY <1>1, <1>6 DEF Cancel, Statuses
  <2> QED BY <2>1, <2>2, EmitOneOK
<1>7. ASSUME Repeat PROVE IInv'
  <2>1. Len(sent) \in DOMAIN sent /\ Last(sent) = sent[Len(sent)]
    BY <1>1, <1>7, EmptySeq, LenProperties DEF Repeat, Last
  <2>2. Last(sent) \in Events /\ (Last(sent).kind = "purchase" => Last(sent).ref = Last(sent).about)
    BY <1>1, <2>1 DEF IInv, LogOK
  <2>3. Emit(<<Last(sent)>>) /\ UNCHANGED real
    BY <1>7 DEF Repeat
  <2> QED BY <1>1, <2>2, <2>3, EmitOneOK
<1> QED BY <1>2, <1>3, <1>4, <1>5, <1>6, <1>7 DEF Provider

-----------------------------------------------------------------------------
(***************************************************************************)
(* The inductive invariant.                                                *)
(***************************************************************************)
LEMMA NextIInv == IInv /\ [Next]_vars => IInv'
<1> SUFFICES ASSUME IInv, [Next]_vars PROVE IInv'
  OBVIOUS
<1>1. CASE Provider
  BY <1>1, ProviderOK
<1>2. ASSUME NEW h \in Handlers, Work(h) PROVE IInv'
  BY <1>2, ReadPurchaseOK, FlushPaymentOK, ReadReportOK, LoadSubscriptionOK, CheckInvoiceOK,
     CommitOK, RollBackOK DEF Work
<1>3. ASSUME NEW h \in Handlers, Crash(h) PROVE IInv'
  BY <1>3, CrashOK
<1>4. ASSUME NEW h \in Handlers, NEW k \in DOMAIN sent, Receive(h, k) PROVE IInv'
  BY <1>4, ReceiveOK
<1>5. ASSUME NEW v \in Readers, RecordUnlock(v) PROVE IInv'
  BY <1>5, RecordUnlockOK
<1>6. ASSUME NEW v \in Readers, NEW a \in Analyses, OpenDeepDive(v, a) PROVE IInv'
  BY <1>6, OpenDeepDiveOK
<1>7. CASE UNCHANGED vars
  BY <1>7 DEF vars, provider, tables, handlers, IInv, TypeOK, LogOK, HandlersOK, Event,
              MoneyCountedOnce, UnlockedAsPaid, Recorded, Unlocked
<1> QED BY <1>1, <1>2, <1>3, <1>4, <1>5, <1>6, <1>7 DEF Next

(***************************************************************************)
(* Every variable keeps its type.                                          *)
(***************************************************************************)
THEOREM BillingTypes == Spec => []TypeOK
BY InitIInv, NextIInv, PTL DEF Spec, IInv

(***************************************************************************)
(* However often the webhook delivers an event, and however many handlers  *)
(* work on one at a time or die, a provider reference is one payment, and  *)
(* only of what an event says was paid (services/billing_service.py).      *)
(***************************************************************************)
THEOREM MoneyOnce == Spec => []MoneyCountedOnce
BY InitIInv, NextIInv, PTL DEF Spec, IInv

(***************************************************************************)
(* The payment of one of the account's own Deep Dives and its report are   *)
(* committed together, once, though a subscriber's request may record the  *)
(* same report meanwhile (services/billing_service.py, api/v1/analyses.py).*)
(***************************************************************************)
THEOREM PaidIsUnlocked == Spec => []UnlockedAsPaid
BY InitIInv, NextIInv, PTL DEF Spec, IInv

-----------------------------------------------------------------------------
(***************************************************************************)
(* The mirror.  With deliveries in order the processed events are a prefix *)
(* of the log, so one handler at most has an event that can still commit,  *)
(* and what it loaded is what the row says.                                *)
(***************************************************************************)
IsStatus(e, s) == e.kind \in {"started", "updated", "deleted"} /\ e.about = s
IsInvoice(e, s) == e.kind = "invoice" /\ e.about = s

(***************************************************************************)
(* j is the last status event about s among K.                             *)
(***************************************************************************)
Latest(j, K, s) ==
    /\ j \in K /\ IsStatus(sent[j], s)
    /\ \A k \in K : k > j => ~IsStatus(sent[k], s)

PrefixOK ==
    /\ \A k \in processed : 1 .. k \subseteq processed
    /\ \A h \in Handlers : pc[h] # "idle" => 1 .. job[h] - 1 \subseteq processed

(***************************************************************************)
(* A handler whose event is not processed yet has not been overtaken.      *)
(***************************************************************************)
SeenOK ==
    \A h \in Handlers :
        (/\ job[h] \notin processed
         /\ \/ pc[h] = "checking"
            \/ pc[h] = "committing" /\ "subscription" \in writes[h])
        => /\ seen[h] = subs[Event(h).about]
           /\ Event(h).kind = "invoice" => seen[h] # "absent"

(***************************************************************************)
(* The row of s is what the last processed status event made it, or an     *)
(* invoice since then made it active.                                      *)
(***************************************************************************)
RowOK(s) ==
    \/ subs[s] = "absent" /\ \A k \in processed : ~IsStatus(sent[k], s)
    \/ \E j \in processed :
          /\ Latest(j, processed, s)
          /\ \/ subs[s] = NewStatus(sent[j])
             \/ subs[s] = "active" /\ \E k \in processed : k > j /\ IsInvoice(sent[k], s)

(***************************************************************************)
(* The provider sends no invoice after a status that is not active.        *)
(***************************************************************************)
ProviderFits(s) ==
    \/ real[s] = "absent" /\ \A k \in DOMAIN sent : ~IsStatus(sent[k], s) /\ ~IsInvoice(sent[k], s)
    \/ \E j \in DOMAIN sent :
          /\ Latest(j, DOMAIN sent, s)
          /\ real[s] = NewStatus(sent[j])
          /\ (\E k \in DOMAIN sent : k > j /\ IsInvoice(sent[k], s)) => real[s] = "active"

MInv == PrefixOK /\ SeenOK /\ \A s \in Subs : RowOK(s) /\ ProviderFits(s)

(***************************************************************************)
(* The provider's side: events about others do not matter to s, and a new  *)
(* status counts from its event on.                                        *)
(***************************************************************************)
LEMMA OtherEvents ==
    ASSUME TypeOK, NEW s \in Subs, ProviderFits(s), real'[s] = real[s],
           NEW events \in Seq(Events), Emit(events),
           \A i \in DOMAIN events : events[i].kind = "purchase" \/ events[i].about # s
    PROVE  ProviderFits(s)'
<1>1. /\ DOMAIN sent = 1..Len(sent) /\ DOMAIN sent' = 1..Len(sent') /\ Len(sent) \in Nat
      /\ \A k \in DOMAIN sent : k \in DOMAIN sent' /\ sent'[k] = sent[k]
      /\ \A k \in DOMAIN sent' : k \notin DOMAIN sent =>
           ~IsStatus(sent'[k], s) /\ ~IsInvoice(sent'[k], s)
  BY LogGrows DEF IsStatus, IsInvoice
<1>2. CASE real[s] = "absent" /\ \A k \in DOMAIN sent : ~IsStatus(sent[k], s) /\ ~IsInvoice(sent[k], s)
  BY <1>1, <1>2 DEF ProviderFits
<1>3. ASSUME NEW j \in DOMAIN sent, Latest(j, DOMAIN sent, s), real[s] = NewStatus(sent[j]),
             (\E k \in DOMAIN sent : k > j /\ IsInvoice(sent[k], s)) => real[s] = "active"
      PROVE  ProviderFits(s)'
  <2>1. j \in DOMAIN sent' /\ Latest(j, DOMAIN sent, s)'
    BY <1>1, <1>3 DEF Latest
  <2>2. real'[s] = NewStatus(sent'[j])
    BY <1>1, <1>3
  <2>3. (\E k \in DOMAIN sent' : k > j /\ IsInvoice(sent'[k], s)) => real'[s] = "active"
    BY <1>1, <1>3
  <2> QED BY <2>1, <2>2, <2>3 DEF ProviderFits, NewStatus
<1> QED BY <1>2, <1>3 DEF ProviderFits

LEMMA StatusEvent ==
    ASSUME TypeOK, NEW s \in Subs, NEW events \in Seq(Events), Emit(events),
           NEW i \in DOMAIN events, IsStatus(events[i], s), real'[s] = NewStatus(events[i]),
           \A k \in DOMAIN events : k > i => ~IsStatus(events[k], s),
           \A k \in DOMAIN events : IsInvoice(events[k], s) => real'[s] = "active"
    PROVE  ProviderFits(s)'
<1>1. PICK j \in DOMAIN sent' : j = Len(sent) + i /\ sent'[j] = events[i]
  BY LogGrows
<1>2. /\ DOMAIN sent = 1..Len(sent) /\ DOMAIN sent' = 1..Len(sent') /\ Len(sent) \in Nat
      /\ DOMAIN events = 1..Len(events)
      /\ \A k \in DOMAIN sent' : k \notin DOMAIN sent =>
           k - Len(sent) \in DOMAIN events /\ sent'[k] = events[k - Len(sent)]
  BY LogGrows, LenProperties
<1>3. \A k \in DOMAIN sent' : k > j =>
         /\ k - Len(sent) \in DOMAIN events /\ k - Len(sent) > i
         /\ sent'[k] = events[k - Len(sent)]
  BY <1>1, <1>2
<1>4. Latest(j, DOMAIN sent, s)'
  BY <1>1, <1>3 DEF Latest
<1>5. real'[s] = NewStatus(sent'[j])
  BY <1>1
<1>6. (\E k \in DOMAIN sent' : k > j /\ IsInvoice(sent'[k], s)) => real'[s] = "active"
  BY <1>3
<1> QED BY <1>1, <1>4, <1>5, <1>6 DEF ProviderFits, NewStatus

LEMMA OneStatusEvent ==
    ASSUME TypeOK, NEW s \in Subs, NEW e \in Events, Emit(<<e>>), IsStatus(e, s),
           NEW status \in Statuses, real' = [real EXCEPT ![s] = status], NewStatus(e) = status
    PROVE  \A t \in Subs : ProviderFits(t) => ProviderFits(t)'
<1> DEFINE q == <<e>>
<1>1. q \in Seq(Events) /\ DOMAIN q = 1..1 /\ q[1] = e /\ Emit(q)
  OBVIOUS
<1>2. e.about = s /\ ~IsInvoice(e, s)
  BY DEF IsStatus, IsInvoice
<1>3. real'[s] = NewStatus(q[1])
  BY <1>1 DEF TypeOK
<1> HIDE DEF q
<1>4. ProviderFits(s)'
  <2>1. /\ 1 \in DOMAIN q /\ IsStatus(q[1], s)
        /\ \A k \in DOMAIN q : k > 1 => ~IsStatus(q[k], s)
        /\ \A k \in DOMAIN q : IsInvoice(q[k], s) => real'[s] = "active"
    BY <1>1, <1>2
  <2> QED BY <1>1, <1>3, <2>1, StatusEvent
<1>5. ASSUME NEW t \in Subs, t # s, ProviderFits(t) PROVE ProviderFits(t)'
  <2>1. real'[t] = real[t]
    BY <1>5 DEF TypeOK
  <2>2. \A i \in DOMAIN q : q[i].kind = "purchase" \/ q[i].about # t
    BY <1>1, <1>2, <1>5
  <2> QED BY <1>1, <1>5, <2>1, <2>2, OtherEvents
<1> QED BY <1>4, <1>5

(***************************************************************************)
(* A checkout or a renewal: a status event and an invoice in either order. *)
(***************************************************************************)
LEMMA TwoStatusEvents ==
    ASSUME TypeOK, NEW s \in Subs, NEW q \in Seq(Events), Emit(q), DOMAIN q = 1..2,
           NEW i \in 1..2, IsStatus(q[i], s), NewStatus(q[i]) = "active",
           \A k \in 1..2 : q[k].about = s /\ (k # i => ~IsStatus(q[k], s)),
           real' = [real EXCEPT ![s] = "active"]
    PROVE  \A t \in Subs : ProviderFits(t) => ProviderFits(t)'
<1>1. real'[s] = "active"
  BY DEF TypeOK
<1>2. ProviderFits(s)'
  <2>1. /\ i \in DOMAIN q /\ real'[s] = NewStatus(q[i])
        /\ \A k \in DOMAIN q : k > i => ~IsStatus(q[k], s)
        /\ \A k \in DOMAIN q : IsInvoice(q[k], s) => real'[s] = "active"
    BY <1>1
  <2> QED BY <2>1, StatusEvent
<1>3. ASSUME NEW t \in Subs, t # s, ProviderFits(t) PROVE ProviderFits(t)'
  <2>1. real'[t] = real[t]
    BY <1>3 DEF TypeOK
  <2>2. \A k \in DOMAIN q : q[k].kind = "purchase" \/ q[k].about # t
    BY <1>3
  <2> QED BY <1>3, <2>1, <2>2, OtherEvents
<1> QED BY <1>2, <1>3

LEMMA ProviderFitsOK ==
    ASSUME IInv, Provider, NEW t \in Subs, \A s \in Subs : ProviderFits(s)
    PROVE  ProviderFits(t)'
<1>1. TypeOK /\ sent \in Seq(Events)
  BY DEF IInv, TypeOK
<1>2. ASSUME NEW x \in Sessions, Buy(x) PROVE ProviderFits(t)'
  <2>1. PICK paid \in BOOLEAN : Emit(<<Purchase(x, paid)>>) /\ UNCHANGED real
    BY <1>2 DEF Buy
  <2> DEFINE q == <<Purchase(x, paid)>>
  <2>2. q \in Seq(Events) /\ \A i \in DOMAIN q : q[i].kind = "purchase"
    BY MadeEvents DEF Purchase
  <2>3. Emit(q) /\ real'[t] = real[t]
    BY <2>1
  <2> HIDE DEF q
  <2> QED BY <1>1, <2>2, <2>3, OtherEvents
<1>3. ASSUME NEW s \in Subs, Subscribe(s) PROVE ProviderFits(t)'
  <2>1. PICK paid \in BOOLEAN : \E q \in SetToSeqs({Started(s), Invoice(s, 0, paid)}) : Emit(q)
    BY <1>3 DEF Subscribe
  <2>2. PICK q \in SetToSeqs({Started(s), Invoice(s, 0, paid)}) : Emit(q)
    BY <2>1
  <2>3. /\ q \in Seq(Events) /\ DOMAIN q = 1..2
        /\ \/ q[1] = Started(s) /\ q[2] = Invoice(s, 0, paid)
           \/ q[1] = Invoice(s, 0, paid) /\ q[2] = Started(s)
        /\ \A k \in DOMAIN q : q[k].about = s
    BY <1>1, SubscriptionEvents
  <2>4. /\ IsStatus(Started(s), s) /\ NewStatus(Started(s)) = "active"
        /\ ~IsStatus(Invoice(s, 0, paid), s)
    BY DEF Started, Invoice, IsStatus, NewStatus
  <2>5. PICK i \in 1..2 : /\ IsStatus(q[i], s) /\ NewStatus(q[i]) = "active"
                          /\ \A k \in 1..2 : k # i => ~IsStatus(q[k], s)
    <3>1. CASE q[1] = Started(s) /\ q[2] = Invoice(s, 0, paid)
      BY <2>4, <3>1
    <3>2. CASE q[1] = Invoice(s, 0, paid) /\ q[2] = Started(s)
      BY <2>4, <3>2
    <3> QED BY <2>3, <3>1, <3>2
  <2>6. real' = [real EXCEPT ![s] = "active"]
    BY <1>3 DEF Subscribe
  <2> QED BY <1>1, <2>2, <2>3, <2>5, <2>6, TwoStatusEvents
<1>4. ASSUME NEW s \in Subs, Renew(s) PROVE ProviderFits(t)'
  <2> DEFINE n == Cardinality(InvoicesOf(s))
             paid == TRUE
  <2>1. n \in Nat /\ paid \in BOOLEAN
    BY <1>1, InvoicesCounted
  <2>2. PICK q \in SetToSeqs({Invoice(s, n, paid), Updated(s, "active")}) : Emit(q)
    BY <1>4 DEF Renew
  <2> HIDE DEF n, paid
  <2>3. /\ q \in Seq(Events) /\ DOMAIN q = 1..2
        /\ \/ q[1] = Invoice(s, n, paid) /\ q[2] = Updated(s, "active")
           \/ q[1] = Updated(s, "active") /\ q[2] = Invoice(s, n, paid)
        /\ \A k \in DOMAIN q : q[k].about = s
    BY <1>1, <2>1, RenewalEvents
  <2>4. /\ IsStatus(Updated(s, "active"), s) /\ NewStatus(Updated(s, "active")) = "active"
        /\ ~IsStatus(Invoice(s, n, paid), s)
    BY DEF Updated, Invoice, IsStatus, NewStatus
  <2>5. PICK i \in 1..2 : /\ IsStatus(q[i], s) /\ NewStatus(q[i]) = "active"
                          /\ \A k \in 1..2 : k # i => ~IsStatus(q[k], s)
    <3>1. CASE q[1] = Updated(s, "active") /\ q[2] = Invoice(s, n, paid)
      BY <2>4, <3>1
    <3>2. CASE q[1] = Invoice(s, n, paid) /\ q[2] = Updated(s, "active")
      BY <2>4, <3>2
    <3> QED BY <2>3, <3>1, <3>2
  <2>6. real' = [real EXCEPT ![s] = "active"]
    BY <1>4 DEF Renew
  <2> QED BY <1>1, <2>2, <2>3, <2>5, <2>6, TwoStatusEvents
<1>5. ASSUME NEW s \in Subs, Lapse(s) PROVE ProviderFits(t)'
  <2>1. Updated(s, "past_due") \in Events /\ "past_due" \in Statuses
    BY MadeEvents DEF Statuses
  <2>2. IsStatus(Updated(s, "past_due"), s) /\ NewStatus(Updated(s, "past_due")) = "past_due"
    BY DEF Updated, IsStatus, NewStatus
  <2>3. real' = [real EXCEPT ![s] = "past_due"] /\ Emit(<<Updated(s, "past_due")>>)
    BY <1>5 DEF Lapse
  <2> QED BY <1>1, <2>1, <2>2, <2>3, OneStatusEvent
<1>6. ASSUME NEW s \in Subs, Cancel(s) PROVE ProviderFits(t)'
  <2>1. Deleted(s) \in Events /\ "canceled" \in Statuses
    BY MadeEvents DEF Statuses
  <2>2. IsStatus(Deleted(s), s) /\ NewStatus(Deleted(s)) = "canceled"
    BY DEF Deleted, IsStatus, NewStatus
  <2>3. real' = [real EXCEPT ![s] = "canceled"] /\ Emit(<<Deleted(s)>>)
    BY <1>6 DEF Cancel
  <2> QED BY <1>1, <2>1, <2>2, <2>3, OneStatusEvent
<1>7. ASSUME Repeat PROVE ProviderFits(t)'
  <2> DEFINE e == Last(sent)
             q == <<e>>
  <2>1. Len(sent) \in DOMAIN sent /\ e = sent[Len(sent)] /\ DOMAIN sent = 1..Len(sent)
    BY <1>1, <1>7, EmptySeq, LenProperties DEF Repeat, Last
  <2>2. e \in Events /\ e.kind \in {"purchase", "invoice"} /\ Emit(q) /\ UNCHANGED real
    BY <1>1, <1>7, <2>1 DEF Repeat
  <2>3. q \in Seq(Events) /\ DOMAIN q = 1..1 /\ q[1] = e
    BY <2>2
  <2> HIDE DEF q
  <2>4. CASE e.kind = "purchase" \/ e.about # t
    <3>1. \A i \in DOMAIN q : q[i].kind = "purchase" \/ q[i].about # t
      BY <2>3, <2>4
    <3> QED BY <1>1, <2>2, <2>3, <3>1, OtherEvents
  <2>5. CASE e.kind = "invoice" /\ e.about = t
    <3>1. PICK j \in DOMAIN sent :
             /\ Latest(j, DOMAIN sent, t)
             /\ real[t] = NewStatus(sent[j])
             /\ (\E k \in DOMAIN sent : k > j /\ IsInvoice(sent[k], t)) => real[t] = "active"
      BY <2>1, <2>5 DEF ProviderFits, IsInvoice
    <3>2. IsInvoice(sent[Len(sent)], t) /\ Len(sent) # j
      BY <2>1, <2>5, <3>1 DEF IsInvoice, Latest, IsStatus
    <3>3. real[t] = "active"
      BY <2>1, <3>1, <3>2
    <3>4. /\ DOMAIN sent' = 1..Len(sent') /\ Len(sent) \in Nat
          /\ \A k \in DOMAIN sent : k \in DOMAIN sent' /\ sent'[k] = sent[k]
          /\ \A k \in DOMAIN sent' : k \notin DOMAIN sent => sent'[k] = e
      BY <1>1, <2>2, <2>3, LogGrows
    <3>5. ~IsStatus(e, t)
      BY <2>5 DEF IsStatus
    <3>6. Latest(j, DOMAIN sent, t)'
      BY <3>1, <3>4, <3>5 DEF Latest
    <3>7. real'[t] = NewStatus(sent'[j]) /\ real'[t] = "active"
      BY <2>2, <3>1, <3>3, <3>4
    <3> QED BY <3>4, <3>6, <3>7 DEF ProviderFits, NewStatus
  <2> QED BY <2>2, <2>4, <2>5
<1> QED BY <1>2, <1>3, <1>4, <1>5, <1>6, <1>7 DEF Provider

LEMMA ProviderAppends ==
    ASSUME TypeOK, Provider
    PROVE  /\ UNCHANGED <<processed, subs, pc, job, seen, writes>>
           /\ \A k \in DOMAIN sent : k \in DOMAIN sent' /\ sent'[k] = sent[k]
<1> DEFINE Goal == /\ UNCHANGED <<processed, subs, pc, job, seen, writes>>
                   /\ \A k \in DOMAIN sent : k \in DOMAIN sent' /\ sent'[k] = sent[k]
<1>1. ASSUME NEW q \in Seq(Events), Emit(q) PROVE Goal
  <2>1. UNCHANGED <<processed, subs, pc, job, seen, writes>>
    BY <1>1 DEF Emit, tables, handlers
  <2> QED BY <1>1, <2>1, LogGrows
<1>2. ASSUME NEW e \in Events, Emit(<<e>>) PROVE Goal
  <2> DEFINE q == <<e>>
  <2>1. q \in Seq(Events) /\ Emit(q)
    BY <1>2
  <2> HIDE DEF q, Goal
  <2> QED BY <1>1, <2>1
<1>3. sent \in Seq(Events)
  BY DEF TypeOK
<1> HIDE DEF Goal
<1>4. ASSUME NEW x \in Sessions, Buy(x) PROVE Goal
  BY <1>2, <1>4, MadeEvents DEF Buy
<1>5. ASSUME NEW s \in Subs, Subscribe(s) PROVE Goal
  BY <1>1, <1>5, SubscriptionEvents DEF Subscribe
<1>6. ASSUME NEW s \in Subs, Renew(s) PROVE Goal
  <2> DEFINE n == Cardinality(InvoicesOf(s))
             paid == TRUE
  <2>1. n \in Nat /\ paid \in BOOLEAN
    BY InvoicesCounted
  <2>2. PICK q \in SetToSeqs({Invoice(s, n, paid), Updated(s, "active")}) : Emit(q)
    BY <1>6 DEF Renew
  <2> HIDE DEF n, paid
  <2> QED BY <1>1, <2>1, <2>2, RenewalEvents
<1>7. ASSUME NEW s \in Subs, Lapse(s) PROVE Goal
  BY <1>2, <1>7, MadeEvents DEF Lapse, Statuses
<1>8. ASSUME NEW s \in Subs, Cancel(s) PROVE Goal
  BY <1>2, <1>8, MadeEvents DEF Cancel
<1>9. ASSUME Repeat PROVE Goal
  <2>1. Last(sent) \in Events
    BY <1>3, <1>9, EmptySeq, LenProperties DEF Repeat, Last
  <2> QED BY <1>2, <1>9, <2>1 DEF Repeat
<1>10. Goal
  BY <1>4, <1>5, <1>6, <1>7, <1>8, <1>9 DEF Provider
<1> QED BY <1>10 DEF Goal

(***************************************************************************)
(* The handlers' side.  What a step of the provider cannot disturb.        *)
(***************************************************************************)
LEMMA ProviderMirror ==
    ASSUME IInv, MInv, IInv', Provider
    PROVE  MInv'
<1>1. /\ UNCHANGED <<processed, subs, pc, job, seen, writes>>
      /\ \A k \in DOMAIN sent : k \in DOMAIN sent' /\ sent'[k] = sent[k]
  BY ProviderAppends DEF IInv
<1>2. PrefixOK'
  BY <1>1 DEF MInv, PrefixOK
<1>3. SeenOK'
  BY <1>1 DEF MInv, SeenOK, IInv, HandlersOK, Event
<1>4. ASSUME NEW s \in Subs PROVE RowOK(s)'
  <2>1. RowOK(s) /\ \A k \in processed : k \in DOMAIN sent /\ sent'[k] = sent[k]
    BY <1>1 DEF MInv, IInv, TypeOK
  <2>2. CASE subs[s] = "absent" /\ \A k \in processed : ~IsStatus(sent[k], s)
    BY <1>1, <2>1, <2>2 DEF RowOK
  <2>3. ASSUME NEW j \in processed, Latest(j, processed, s),
               \/ subs[s] = NewStatus(sent[j])
               \/ subs[s] = "active" /\ \E k \in processed : k > j /\ IsInvoice(sent[k], s)
        PROVE  RowOK(s)'
    <3>1. Latest(j, processed, s)'
      BY <1>1, <2>1, <2>3 DEF Latest
    <3>2. \/ subs'[s] = NewStatus(sent'[j])
          \/ subs'[s] = "active" /\ \E k \in processed' : k > j /\ IsInvoice(sent'[k], s)
      BY <1>1, <2>1, <2>3
    <3> QED BY <1>1, <3>1, <3>2 DEF RowOK, NewStatus
  <2> QED BY <2>1, <2>2, <2>3 DEF RowOK
<1>5. \A s \in Subs : ProviderFits(s)'
  BY ProviderFitsOK DEF MInv
<1> QED BY <1>2, <1>3, <1>4, <1>5 DEF MInv

(***************************************************************************)
(* A step that changes no subscription and processes no event.             *)
(***************************************************************************)
LEMMA RowsKept ==
    ASSUME MInv, UNCHANGED <<real, sent, processed, subs>>, PrefixOK', SeenOK'
    PROVE  MInv'
<1>1. \A s \in Subs : RowOK(s)' /\ ProviderFits(s)'
  BY DEF MInv, RowOK, ProviderFits, Latest, NewStatus
<1> QED BY <1>1 DEF MInv

(***************************************************************************)
(* A step of a handler that does not start at an event.                    *)
(***************************************************************************)
LEMMA BecomeMirror ==
    ASSUME IInv, MInv, NEW h \in Handlers, NEW state, NEW rows, Become(h, state, rows),
           pc[h] # "idle", seen' \in [Handlers -> Statuses \cup {"absent"}],
           \A g \in Handlers : g # h => seen'[g] = seen[g],
           (/\ job[h] \notin processed
            /\ state = "checking" \/ (state = "committing" /\ "subscription" \in rows))
           => /\ seen'[h] = subs[Event(h).about]
              /\ Event(h).kind = "invoice" => seen'[h] # "absent"
    PROVE  MInv'
<1>1. /\ UNCHANGED <<real, sent, processed, subs, job>>
      /\ pc' = [pc EXCEPT ![h] = state] /\ writes' = [writes EXCEPT ![h] = rows]
  BY DEF Become, provider, tables
<1>2. \A g \in Handlers : g # h => pc'[g] = pc[g] /\ writes'[g] = writes[g]
  BY <1>1 DEF IInv, TypeOK
<1>3. PrefixOK'
  BY <1>1, <1>2 DEF MInv, PrefixOK
<1>4. pc'[h] = state /\ writes'[h] = rows
  BY <1>1 DEF IInv, TypeOK
<1>5. SeenOK'
  BY <1>1, <1>2, <1>4 DEF MInv, SeenOK, Event
<1> QED BY <1>1, <1>3, <1>5, RowsKept

LEMMA WorkMirror ==
    ASSUME IInv, MInv, NEW h \in Handlers,
           \/ ReadPurchase(h) \/ FlushPayment(h) \/ ReadReport(h)
           \/ LoadSubscription(h) \/ CheckInvoice(h) \/ RollBack(h)
    PROVE  MInv'
<1>1. seen \in [Handlers -> Statuses \cup {"absent"}]
  BY DEF IInv, TypeOK
<1>2. CASE ReadPurchase(h)
  BY <1>1, <1>2, BecomeMirror DEF ReadPurchase
<1>3. CASE FlushPayment(h)
  BY <1>1, <1>3, BecomeMirror DEF FlushPayment
<1>4. CASE ReadReport(h)
  <2>1. "subscription" \notin writes[h]
    BY <1>4 DEF ReadReport, IInv, HandlersOK, HandlerFits
  <2> QED BY <1>1, <1>4, <2>1, BecomeMirror DEF ReadReport
<1>5. CASE LoadSubscription(h)
  <2> DEFINE row == subs[Event(h).about]
  <2>1. pc[h] = "received" /\ Event(h).kind # "purchase" /\ seen' = [seen EXCEPT ![h] = row]
    BY <1>5 DEF LoadSubscription
  <2>2. Event(h).about \in Subs
    BY <2>1, EventFacts DEF IInv, HandlersOK, TypeOK, Event
  <2>3. /\ seen' \in [Handlers -> Statuses \cup {"absent"}] /\ seen'[h] = row
        /\ \A g \in Handlers : g # h => seen'[g] = seen[g]
    BY <2>1, <2>2 DEF IInv, TypeOK
  <2>4. \/ Event(h).kind # "invoice" /\ Become(h, "committing", {"subscription"})
        \/ Become(h, "committing", {})
        \/ row # "absent" /\ Become(h, "checking", {})
    BY <1>5 DEF LoadSubscription
  <2> QED BY <2>1, <2>3, <2>4, BecomeMirror
<1>6. CASE CheckInvoice(h)
  <2> DEFINE rows == IF Event(h).paid /\ ~Recorded(Event(h).ref)
                     THEN {"payment", "subscription"} ELSE {}
  <2>1. pc[h] = "checking" /\ UNCHANGED seen /\ Become(h, "committing", rows)
    BY <1>6 DEF CheckInvoice
  <2> HIDE DEF rows
  <2>2. CASE job[h] \notin processed
    <3>1. /\ seen[h] = subs[Event(h).about]
          /\ Event(h).kind = "invoice" => seen[h] # "absent"
      BY <2>1, <2>2 DEF MInv, SeenOK
    <3> QED BY <1>1, <2>1, <3>1, BecomeMirror
  <2>3. CASE job[h] \in processed
    BY <1>1, <2>1, <2>3, BecomeMirror
  <2> QED BY <2>2, <2>3
<1>7. CASE RollBack(h)
  BY <1>1, <1>7, BecomeMirror DEF RollBack
<1> QED BY <1>2, <1>3, <1>4, <1>5, <1>6, <1>7

LEMMA ReceiveMirror ==
    ASSUME InOrder, IInv, MInv, NEW h \in Handlers, NEW k \in DOMAIN sent, Receive(h, k)
    PROVE  MInv'
<1>1. /\ UNCHANGED <<real, sent, processed, subs>>
      /\ pc' = [pc EXCEPT ![h] = "received"] /\ job' = [job EXCEPT ![h] = k]
      /\ seen' = [seen EXCEPT ![h] = "absent"] /\ writes' = [writes EXCEPT ![h] = {}]
      /\ 1 .. k - 1 \subseteq processed
  BY DEF Receive, provider, tables
<1>2. /\ pc'[h] = "received" /\ job'[h] = k
      /\ \A g \in Handlers : g # h =>
           pc'[g] = pc[g] /\ job'[g] = job[g] /\ seen'[g] = seen[g] /\ writes'[g] = writes[g]
  BY <1>1 DEF IInv, TypeOK
<1>3. PrefixOK'
  BY <1>1, <1>2 DEF MInv, PrefixOK
<1>4. SeenOK'
  BY <1>1, <1>2 DEF MInv, SeenOK, Event
<1> QED BY <1>1, <1>3, <1>4, RowsKept

LEMMA CrashMirror ==
    ASSUME IInv, MInv, NEW h \in Handlers, Crash(h)
    PROVE  MInv'
<1>1. /\ UNCHANGED <<real, sent, processed, subs, job, seen, writes>>
      /\ pc' = [pc EXCEPT ![h] = "idle"]
  BY DEF Crash, provider, tables
<1>2. \A g \in Handlers : pc'[g] = IF g = h THEN "idle" ELSE pc[g]
  BY <1>1 DEF IInv, TypeOK
<1>3. PrefixOK'
  BY <1>1, <1>2 DEF MInv, PrefixOK
<1>4. SeenOK'
  BY <1>1, <1>2 DEF MInv, SeenOK, Event
<1> QED BY <1>1, <1>3, <1>4, RowsKept

(***************************************************************************)
(* A commit extends the processed prefix by its event, which makes every   *)
(* other handler stale, and gives the row that event's status.             *)
(***************************************************************************)
LEMMA CommitMirror ==
    ASSUME IInv, MInv, NEW h \in Handlers, Commit(h)
    PROVE  MInv'
<1>1. PICK n \in DOMAIN sent, e \in Events : n = job[h] /\ e = Event(h) /\ sent[n] = e
  BY DEF Commit, IInv, TypeOK, HandlersOK, Event
<1>2. /\ UNCHANGED <<real, sent, job, seen, writes>>
      /\ pc[h] = "committing" /\ pc' = [pc EXCEPT ![h] = "idle"]
      /\ processed' = processed \cup {n} /\ n \notin processed
  BY <1>1 DEF Commit, Conflict, provider
<1>3. DOMAIN sent = 1..Len(sent) /\ Len(sent) \in Nat
  BY LenProperties DEF IInv, TypeOK
<1>4. /\ 1 .. n - 1 \subseteq processed
      /\ processed \subseteq 1..Len(sent)
      /\ \A g \in Handlers : pc[g] # "idle" => job[g] \in 1..Len(sent)
  BY <1>1, <1>2, <1>3 DEF IInv, TypeOK, HandlersOK, MInv, PrefixOK
<1>5. \A k \in processed : k < n
  BY <1>2, <1>3, <1>4 DEF MInv, PrefixOK
<1>6. \A g \in Handlers : pc'[g] = IF g = h THEN "idle" ELSE pc[g]
  BY <1>2 DEF IInv, TypeOK
<1>7. PrefixOK'
  <2>1. \A k \in processed' : 1 .. k \subseteq processed'
    BY <1>2, <1>3, <1>4 DEF MInv, PrefixOK
  <2> QED BY <1>2, <1>6, <2>1 DEF MInv, PrefixOK
<1>8. \A g \in Handlers : pc'[g] # "idle" => job[g] \in processed'
  <2> SUFFICES ASSUME NEW g \in Handlers, pc[g] # "idle", job[g] \notin processed
               PROVE  job[g] = n
    BY <1>2, <1>6
  <2>1. job[g] \in 1..Len(sent) /\ 1 .. job[g] - 1 \subseteq processed
    BY <1>4 DEF MInv, PrefixOK
  <2> QED BY <1>2, <1>3, <1>4, <2>1
<1>9. SeenOK'
  BY <1>2, <1>8 DEF SeenOK
<1>10. /\ e.kind # "purchase" => e.about \in Subs
       /\ "subscription" \in writes[h] => e.kind # "purchase"
       /\ e.kind \in {"started", "updated", "deleted"} => "subscription" \in writes[h]
       /\ "subscription" \in writes[h] =>
            /\ seen[h] = subs[e.about]
            /\ e.kind = "invoice" => seen[h] # "absent"
  BY <1>1, <1>2, EventFacts DEF IInv, HandlersOK, HandlerFits, MInv, SeenOK
<1>11. /\ "subscription" \notin writes[h] => subs' = subs
       /\ "subscription" \in writes[h] =>
            /\ subs'[e.about] = NewStatus(e)
            /\ \A t \in Subs : t # e.about => subs'[t] = subs[t]
  BY <1>1, <1>10 DEF Commit, IInv, TypeOK
<1>12. ASSUME NEW s \in Subs PROVE RowOK(s)'
  <2>1. CASE IsStatus(e, s)
    <3>1. Latest(n, processed, s)'
      BY <1>1, <1>2, <1>3, <1>4, <1>5, <2>1 DEF Latest
    <3>2. subs'[s] = NewStatus(sent'[n])
      BY <1>1, <1>2, <1>10, <1>11, <2>1 DEF IsStatus
    <3> QED BY <1>2, <3>1, <3>2 DEF RowOK, NewStatus
  <2>2. ASSUME ~IsStatus(e, s), NEW j \in processed, Latest(j, processed, s),
               \/ subs'[s] = NewStatus(sent[j])
               \/ subs'[s] = "active" /\ \E k \in processed' : k > j /\ IsInvoice(sent[k], s)
        PROVE  RowOK(s)'
    <3>1. j \in processed' /\ Latest(j, processed, s)'
      BY <1>1, <1>2, <2>2 DEF Latest
    <3> QED BY <1>2, <2>2, <3>1 DEF RowOK, NewStatus
  <2>3. CASE IsInvoice(e, s) /\ "subscription" \in writes[h]
    <3>1. subs'[s] = "active" /\ subs[s] # "absent"
      BY <1>10, <1>11, <2>3 DEF IsInvoice, NewStatus
    <3>2. PICK j \in processed : Latest(j, processed, s)
      BY <3>1 DEF MInv, RowOK
    <3>3. n > j /\ n \in processed' /\ IsInvoice(sent[n], s) /\ ~IsStatus(e, s)
      BY <1>1, <1>2, <1>3, <1>4, <1>5, <2>3 DEF IsInvoice, IsStatus
    <3> QED BY <2>2, <3>1, <3>2, <3>3
  <2>4. CASE ~IsStatus(e, s) /\ ~(IsInvoice(e, s) /\ "subscription" \in writes[h])
    <3>1. subs'[s] = subs[s]
      BY <1>2, <1>10, <1>11, <2>4, EventFacts DEF IsStatus, IsInvoice
    <3>2. CASE subs[s] = "absent" /\ \A k \in processed : ~IsStatus(sent[k], s)
      BY <1>1, <1>2, <2>4, <3>1, <3>2 DEF RowOK
    <3>3. CASE \E j \in processed :
                  /\ Latest(j, processed, s)
                  /\ \/ subs[s] = NewStatus(sent[j])
                     \/ subs[s] = "active" /\ \E k \in processed : k > j /\ IsInvoice(sent[k], s)
      BY <1>2, <2>2, <2>4, <3>1, <3>3
    <3> QED BY <3>2, <3>3 DEF MInv, RowOK
  <2> QED BY <2>1, <2>3, <2>4
<1>13. \A s \in Subs : ProviderFits(s)'
  BY <1>2 DEF MInv, ProviderFits, Latest, NewStatus
<1> QED BY <1>7, <1>9, <1>12, <1>13 DEF MInv

LEMMA InitMInv == Init => MInv
BY DEF Init, MInv, PrefixOK, SeenOK, RowOK, ProviderFits

LEMMA NextMInv ==
    ASSUME InOrder, IInv, MInv, [Next]_vars
    PROVE  MInv'
<1>1. IInv'
  BY NextIInv
<1>2. CASE Provider
  BY <1>1, <1>2, ProviderMirror
<1>3. ASSUME NEW h \in Handlers, Work(h) PROVE MInv'
  BY <1>3, WorkMirror, CommitMirror DEF Work
<1>4. ASSUME NEW h \in Handlers, Crash(h) PROVE MInv'
  BY <1>4, CrashMirror
<1>5. ASSUME NEW h \in Handlers, NEW k \in DOMAIN sent, Receive(h, k) PROVE MInv'
  BY <1>5, ReceiveMirror
<1>6. CASE UNCHANGED <<provider, crashes, processed, payments, subs, handlers>>
  <2>1. PrefixOK' /\ SeenOK'
    BY <1>6 DEF MInv, PrefixOK, SeenOK, Event, provider, handlers
  <2> QED BY <1>6, <2>1, RowsKept DEF provider
<1>7. ASSUME NEW v \in Readers PROVE
          /\ RecordUnlock(v) => MInv'
          /\ \A a \in Analyses : OpenDeepDive(v, a) => MInv'
  BY <1>6 DEF RecordUnlock, OpenDeepDive, tables
<1>8. CASE UNCHANGED vars
  BY <1>6, <1>8 DEF vars, tables
<1> QED BY <1>2, <1>3, <1>4, <1>5, <1>7, <1>8 DEF Next

LEMMA MirrorFollows ==
    ASSUME IInv, MInv
    PROVE  MirrorsProvider
<1> SUFFICES ASSUME processed = DOMAIN sent, NEW s \in Subs PROVE subs[s] = real[s]
  BY DEF MirrorsProvider, IInv, TypeOK
<1>1. DOMAIN sent = 1..Len(sent) /\ Len(sent) \in Nat
  BY LenProperties DEF IInv, TypeOK
<1>2. RowOK(s) /\ ProviderFits(s)
  BY DEF MInv
<1>3. CASE real[s] = "absent" /\ \A k \in DOMAIN sent : ~IsStatus(sent[k], s)
  BY <1>2, <1>3 DEF RowOK, Latest
<1>4. ASSUME NEW j \in DOMAIN sent, Latest(j, DOMAIN sent, s), real[s] = NewStatus(sent[j]),
             (\E k \in DOMAIN sent : k > j /\ IsInvoice(sent[k], s)) => real[s] = "active"
      PROVE  subs[s] = real[s]
  <2>1. PICK i \in processed :
           /\ Latest(i, processed, s)
           /\ \/ subs[s] = NewStatus(sent[i])
              \/ subs[s] = "active" /\ \E k \in processed : k > i /\ IsInvoice(sent[k], s)
    BY <1>2, <1>4 DEF RowOK, Latest
  <2>2. i = j
    BY <1>1, <1>4, <2>1 DEF Latest
  <2> QED BY <1>4, <2>1, <2>2
<1> QED BY <1>2, <1>3, <1>4 DEF ProviderFits

(***************************************************************************)
(* If the provider delivers an event only when all before it are done, the *)
(* account's subscriptions are the provider's when nothing is outstanding  *)
(* (models/account.py: "Mirrors the provider"), whatever handlers that     *)
(* were given up on still do.  Without that hypothesis it is false.        *)
(***************************************************************************)
THEOREM InOrderMirrors ==
    ASSUME InOrder
    PROVE  Spec => []MirrorsProvider
<1>1. Init => IInv /\ MInv
  BY InitIInv, InitMInv
<1>2. IInv /\ MInv /\ [Next]_vars => (IInv /\ MInv)'
  BY NextIInv, NextMInv
<1>3. IInv /\ MInv => MirrorsProvider
  BY MirrorFollows
<1> QED BY <1>1, <1>2, <1>3, PTL DEF Spec
=============================================================================
