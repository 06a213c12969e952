------------------------------- MODULE Billing -------------------------------
(***************************************************************************)
(* Provider events becoming payments, subscriptions and Deep Dive unlocks: *)
(* services/billing_service.py behind POST /billing/webhook, and the       *)
(* unlock that GET /analyses/{id}/deep-dive records for subscribers.       *)
(*                                                                         *)
(* One account.  The provider's log is a sequence, and an event's position *)
(* is its id.  The provider delivers an event until it is answered with a  *)
(* 2xx, gives up waiting while a handler still runs, and so may have two   *)
(* handlers working on one event.  A handler is a coroutine with its own   *)
(* transaction: an action is what happens between two of its awaits, and   *)
(* uniqueness is decided when rows are flushed.                            *)
(***************************************************************************)
EXTENDS Integers, Sequences, FiniteSets, SequencesExt

CONSTANTS
    Handlers,     \* concurrent webhook requests
    Readers,      \* concurrent Deep Dive requests
    Subs,         \* provider subscription ids
    Sessions,     \* one-off checkout sessions for a Deep Dive
    AnalysisOf,   \* Sessions -> Analyses, the session's metadata
    Analyses,
    OwnSessions,  \* sessions for an analysis that belongs to the buyer
    Professional, \* the account's role alone includes Deep Dives
    None,         \* nothing, where an analysis or an id would be
    InOrder,      \* deliver an event only when all before it are processed
    MaxEvents,    \* bound on the provider's log
    MaxCrashes    \* bound on handlers killed

ASSUME BillingAssumption ==
    /\ AnalysisOf \in [Sessions -> Analyses]
    /\ OwnSessions \subseteq Sessions
    /\ Professional \in BOOLEAN
    /\ None \notin Analyses
    /\ Sessions \cap (Subs \X Nat) = {} \* a session's id is not an invoice's
    /\ InOrder \in BOOLEAN
    /\ MaxEvents \in Nat
    /\ MaxCrashes \in Nat

VARIABLES
    real,       \* the provider's own status of each subscription
    sent,       \* the provider's log of events
    crashes,    \* handlers killed so far
    processed,  \* webhook_events: ids
    payments,   \* payments: [ref, event]
    subs,       \* subscriptions.status, "absent" while there is no row
    reports,    \* reports: [analysis, source]
    pc,         \* where each handler stands
    job,        \* the event it handles
    seen,       \* subscriptions.status as it loaded it
    writes,     \* what it will write besides the webhook_events row
    viewing     \* the analysis each Deep Dive request is about to unlock

provider == <<real, sent>>
tables == <<processed, payments, subs, reports>>
handlers == <<pc, job, seen, writes>>
vars == <<provider, crashes, tables, handlers, viewing>>

Statuses == {"active", "past_due", "canceled"}

-----------------------------------------------------------------------------
(***************************************************************************)
(* Events, as far as the handlers look at them.  paid is payment_status =  *)
(* "paid" of a checkout and a positive amount_paid of an invoice.          *)
(***************************************************************************)
Purchase(x, paid) == [kind |-> "purchase", about |-> x, ref |-> x, paid |-> paid]
Started(s) == [kind |-> "started", about |-> s]
Invoice(s, n, paid) == [kind |-> "invoice", about |-> s, ref |-> <<s, n>>, paid |-> paid]
Updated(s, status) == [kind |-> "updated", about |-> s, status |-> status]
Deleted(s) == [kind |-> "deleted", about |-> s]

Events ==
    [kind : {"purchase"}, about : Sessions, ref : Sessions, paid : BOOLEAN]
    \cup [kind : {"invoice"}, about : Subs, ref : Subs \X Nat, paid : BOOLEAN]
    \cup [kind : {"updated"}, about : Subs, status : Statuses]
    \cup [kind : {"started", "deleted"}, about : Subs]

Event(h) == sent[job[h]]
Recorded(ref) == \E row \in payments : row.ref = ref
Unlocked(a) == \E row \in reports : row.analysis = a

\* Mutant: the event's name instead of the provider's status.
NewStatusDeleted(e) ==
    IF e.kind \in {"started", "invoice"} THEN "active"
    ELSE IF e.kind = "updated" THEN e.status ELSE "deleted"

(***************************************************************************)
(* subscriptions.status after an event.                                    *)
(***************************************************************************)
NewStatus(e) ==
    IF e.kind \in {"started", "invoice"} THEN "active"
    ELSE IF e.kind = "updated" THEN e.status ELSE "canceled"

-----------------------------------------------------------------------------
Init ==
    /\ real = [s \in Subs |-> "absent"]
    /\ sent = <<>>
    /\ crashes = 0
    /\ processed = {}
    /\ payments = {}
    /\ subs = [s \in Subs |-> "absent"]
    /\ reports = {}
    /\ pc = [h \in Handlers |-> "idle"]
    /\ job = [h \in Handlers |-> 0]
    /\ seen = [h \in Handlers |-> "absent"]
    /\ writes = [h \in Handlers |-> {}]
    /\ viewing = [v \in Readers |-> None]

-----------------------------------------------------------------------------
(***************************************************************************)
(* The provider (external).  A checkout's events come in any order.        *)
(***************************************************************************)
Emit(events) ==
    /\ Len(sent) + Len(events) <= MaxEvents
    /\ sent' = sent \o events
    /\ UNCHANGED <<crashes, tables, handlers, viewing>>

Buy(x) ==
    /\ \A e \in Range(sent) : e.about # x
    /\ \E paid \in BOOLEAN : Emit(<<Purchase(x, paid)>>)
    /\ UNCHANGED real

Subscribe(s) ==
    /\ real[s] = "absent"
    /\ real' = [real EXCEPT ![s] = "active"]
    /\ \E paid \in BOOLEAN :
         \E events \in SetToSeqs({Started(s), Invoice(s, 0, paid)}) : Emit(events)

InvoicesOf(s) == {e.ref : e \in {d \in Range(sent) : d.kind = "invoice" /\ d.about = s}}

Renew(s) ==
    /\ real[s] \in {"active", "past_due"}
    /\ real' = [real EXCEPT ![s] = "active"]
    /\ \E events \in SetToSeqs({Invoice(s, Cardinality(InvoicesOf(s)), TRUE),
                                Updated(s, "active")}) :
            Emit(events)

Lapse(s) ==
    /\ real[s] = "active"
    /\ real' = [real EXCEPT ![s] = "past_due"]
    /\ Emit(<<Updated(s, "past_due")>>)

Cancel(s) ==
    /\ real[s] \in {"active", "past_due"}
    /\ real' = [real EXCEPT ![s] = "canceled"]
    /\ Emit(<<Deleted(s)>>)

(***************************************************************************)
(* Now and then there are two event objects for one payment.               *)
(***************************************************************************)
Repeat ==
    /\ sent # <<>>
    /\ Last(sent).kind \in {"purchase", "invoice"}
    /\ Emit(<<Last(sent)>>)
    /\ UNCHANGED real

-----------------------------------------------------------------------------
(***************************************************************************)
(* process_event.  An event already in webhook_events is answered with     *)
(* "duplicate", which changes nothing.                                     *)
(***************************************************************************)
Receive(h, k) ==
    /\ pc[h] = "idle"
    /\ k \notin processed
    /\ InOrder => 1 .. k - 1 \subseteq processed
    /\ pc' = [pc EXCEPT ![h] = "received"]
    /\ job' = [job EXCEPT ![h] = k]
    /\ seen' = [seen EXCEPT ![h] = "absent"]
    /\ writes' = [writes EXCEPT ![h] = {}]
    /\ UNCHANGED <<provider, crashes, tables, viewing>>

Become(h, state, rows) ==
    /\ pc' = [pc EXCEPT ![h] = state]
    /\ writes' = [writes EXCEPT ![h] = rows]
    /\ UNCHANGED <<provider, crashes, tables, job, viewing>>

\* Mutant: no look for a payment already recorded.
ReadPurchaseBlind(h) ==
    /\ pc[h] = "received"
    /\ Event(h).kind = "purchase"
    /\ IF Event(h).paid THEN Become(h, "paying", {"payment"}) ELSE Become(h, "committing", {})
    /\ UNCHANGED seen

(***************************************************************************)
(* _checkout_completed of a one-off purchase: look for the payment, ask    *)
(* the provider for the fee, flush the payment, look for the report.       *)
(***************************************************************************)
ReadPurchase(h) ==
    /\ pc[h] = "received"
    /\ Event(h).kind = "purchase"
    /\ IF Event(h).paid /\ ~Recorded(Event(h).ref)
       THEN Become(h, "paying", {"payment"})
       ELSE Become(h, "committing", {})
    /\ UNCHANGED seen

Flushed(h, ref) ==
    /\ pc[h] \in {"granting", "committing"}
    /\ Event(h).kind = "purchase"
    /\ "payment" \in writes[h]
    /\ Event(h).ref = ref

(***************************************************************************)
(* The insert waits for an uncommitted one of the same reference and fails *)
(* on a committed one; an exception is a 500 and a rollback.               *)
(***************************************************************************)
FlushPayment(h) ==
    /\ pc[h] = "paying"
    /\ \A g \in Handlers \ {h} : ~Flushed(g, Event(h).ref)
    /\ Become(h, IF Recorded(Event(h).ref) THEN "idle" ELSE "granting", writes[h])
    /\ UNCHANGED seen

\* Mutant: no look for a report already unlocked.
ReadReportBlind(h) ==
    /\ pc[h] = "granting"
    /\ Become(h, "committing",
              IF Event(h).about \in OwnSessions THEN writes[h] \cup {"report"} ELSE writes[h])
    /\ UNCHANGED seen

ReadReport(h) ==
    /\ pc[h] = "granting"
    /\ LET x == Event(h).about IN
       Become(h, "committing",
              IF x \in OwnSessions /\ ~Unlocked(AnalysisOf[x])
              THEN writes[h] \cup {"report"} ELSE writes[h])
    /\ UNCHANGED seen

(***************************************************************************)
(* The handlers of a subscription first load its row.  Only an invoice     *)
(* needs one to exist; the checkout's metadata let the others create it.   *)
(***************************************************************************)
LoadSubscription(h) ==
    /\ pc[h] = "received"
    /\ Event(h).kind # "purchase"
    /\ LET row == subs[Event(h).about] IN
       /\ seen' = [seen EXCEPT ![h] = row]
       /\ IF Event(h).kind # "invoice" THEN Become(h, "committing", {"subscription"})
          ELSE IF row = "absent" THEN Become(h, "committing", {})
          ELSE Become(h, "checking", {})

CheckInvoice(h) ==
    /\ pc[h] = "checking"
    /\ Become(h, "committing",
              IF Event(h).paid /\ ~Recorded(Event(h).ref)
              THEN {"payment", "subscription"} ELSE {})
    /\ UNCHANGED seen

\* Mutants: a key is missing.
ConflictNoEventKey(h) ==
    LET e == Event(h) IN
    \/ "payment" \in writes[h] /\ Recorded(e.ref)
    \/ "report" \in writes[h] /\ Unlocked(AnalysisOf[e.about])

ConflictNoPaymentKey(h) ==
    LET e == Event(h) IN
    \/ job[h] \in processed
    \/ "report" \in writes[h] /\ Unlocked(AnalysisOf[e.about])

ConflictNoReportKey(h) ==
    LET e == Event(h) IN
    \/ job[h] \in processed
    \/ "payment" \in writes[h] /\ Recorded(e.ref)

(***************************************************************************)
(* What the commit would violate: the key of webhook_events,               *)
(* uq_payment_ref, uq_report_unlock or uq_subscription_ref.                *)
(***************************************************************************)
Conflict(h) ==
    LET e == Event(h) IN
    \/ job[h] \in processed
    \/ "payment" \in writes[h] /\ Recorded(e.ref)
    \/ "report" \in writes[h] /\ Unlocked(AnalysisOf[e.about])
    \/ /\ "subscription" \in writes[h]
       /\ seen[h] = "absent"
       /\ subs[e.about] # "absent"

(***************************************************************************)
(* A status equal to the one loaded is no change and is not written.       *)
(***************************************************************************)
Commit(h) ==
    LET e == Event(h) IN
    /\ pc[h] = "committing"
    /\ ~Conflict(h)
    /\ pc' = [pc EXCEPT ![h] = "idle"]
    /\ processed' = processed \cup {job[h]}
    /\ payments' = IF "payment" \in writes[h]
                   THEN payments \cup {[ref |-> e.ref, event |-> job[h]]} ELSE payments
    /\ reports' = IF "report" \in writes[h]
                  THEN reports \cup {[analysis |-> AnalysisOf[e.about], source |-> "purchase"]}
                  ELSE reports
    /\ subs' = IF "subscription" \in writes[h] /\ NewStatus(e) # seen[h]
               THEN [subs EXCEPT ![e.about] = NewStatus(e)] ELSE subs
    /\ UNCHANGED <<provider, crashes, job, seen, writes, viewing>>

RollBack(h) ==
    /\ pc[h] = "committing"
    /\ Conflict(h)
    /\ Become(h, "idle", writes[h])
    /\ UNCHANGED seen

Crash(h) ==
    /\ pc[h] # "idle"
    /\ crashes < MaxCrashes
    /\ crashes' = crashes + 1
    /\ pc' = [pc EXCEPT ![h] = "idle"]
    /\ UNCHANGED <<provider, tables, job, seen, writes, viewing>>

-----------------------------------------------------------------------------
(***************************************************************************)
(* The Deep Dive of an analysis that is not unlocked yet, for an account   *)
(* whose role or plan includes it.  For any other the answer is 402.       *)
(***************************************************************************)
OpenDeepDive(v, a) ==
    /\ viewing[v] = None
    /\ Professional \/ \E s \in Subs : subs[s] = "active"
    /\ ~Unlocked(a)
    /\ viewing' = [viewing EXCEPT ![v] = a]
    /\ UNCHANGED <<provider, crashes, tables, handlers>>

RecordUnlock(v) ==
    /\ viewing[v] # None
    /\ viewing' = [viewing EXCEPT ![v] = None]
    /\ reports' = IF Unlocked(viewing[v]) THEN reports
                  ELSE reports \cup {[analysis |-> viewing[v], source |-> "plan"]}
    /\ UNCHANGED <<provider, crashes, processed, payments, subs, handlers>>

-----------------------------------------------------------------------------
Provider ==
    \/ \E x \in Sessions : Buy(x)
    \/ \E s \in Subs : Subscribe(s) \/ Renew(s) \/ Lapse(s) \/ Cancel(s)
    \/ Repeat

Work(h) ==
    \/ ReadPurchase(h) \/ FlushPayment(h) \/ ReadReport(h)
    \/ LoadSubscription(h) \/ CheckInvoice(h)
    \/ Commit(h) \/ RollBack(h)

Next ==
    \/ Provider
    \/ \E h \in Handlers : Work(h) \/ Crash(h) \/ \E k \in DOMAIN sent : Receive(h, k)
    \/ \E v \in Readers : RecordUnlock(v) \/ \E a \in Analyses : OpenDeepDive(v, a)

Spec == Init /\ [][Next]_vars

(***************************************************************************)
(* The provider repeats an event until it is processed, and the server     *)
(* runs what it accepted.  Only MaxCrashes handlers are killed.            *)
(***************************************************************************)
Retry(k) == k \in DOMAIN sent /\ \E h \in Handlers : Receive(h, k)

FairSpec ==
    /\ Spec
    /\ \A h \in Handlers : WF_vars(Work(h))
    /\ \A k \in 1 .. MaxEvents : WF_vars(Retry(k))

-----------------------------------------------------------------------------
Steps == {"idle", "received", "paying", "granting", "checking", "committing"}

(***************************************************************************)
(* The type of every variable.                                             *)
(***************************************************************************)
TypeOK ==
    /\ real \in [Subs -> Statuses \cup {"absent"}]
    /\ sent \in Seq(Events)
    /\ crashes \in 0 .. MaxCrashes
    /\ processed \subseteq DOMAIN sent
    /\ payments \subseteq [ref : Sessions \cup (Subs \X Nat), event : DOMAIN sent]
    /\ subs \in [Subs -> Statuses \cup {"absent"}]
    /\ reports \subseteq [analysis : Analyses, source : {"purchase", "plan"}]
    /\ pc \in [Handlers -> Steps]
    /\ job \in [Handlers -> 0 .. Len(sent)]
    /\ seen \in [Handlers -> Statuses \cup {"absent"}]
    /\ writes \in [Handlers -> SUBSET {"payment", "report", "subscription"}]
    /\ viewing \in [Readers -> Analyses \cup {None}]

(***************************************************************************)
(* Money is counted once, and only if it was received: whatever is         *)
(* redelivered, repeated or retried, a provider reference has at most one  *)
(* payment, and its event says it was paid.                                *)
(***************************************************************************)
MoneyCountedOnce ==
    /\ \A a, b \in payments : a.ref = b.ref => a = b
    /\ \A row \in payments :
          sent[row.event].paid /\ sent[row.event].ref = row.ref /\ row.event \in processed

(***************************************************************************)
(* A Deep Dive is unlocked as soon as its payment is recorded, once, and   *)
(* never as a purchase without one, though subscribers unlock it meanwhile.*)
(***************************************************************************)
UnlockedAsPaid ==
    /\ \A x \in OwnSessions : Recorded(x) => Unlocked(AnalysisOf[x])
    /\ \A a, b \in reports : a.analysis = b.analysis => a = b
    /\ \A row \in reports : row.source = "purchase" =>
          \E x \in OwnSessions : AnalysisOf[x] = row.analysis /\ Recorded(x)

(***************************************************************************)
(* When every event is processed, each subscription has the provider's     *)
(* status (models/account.py: "Mirrors the provider"), however late a      *)
(* handler that was given up on comes to commit.                           *)
(***************************************************************************)
MirrorsProvider == processed = DOMAIN sent => subs = real

(***************************************************************************)
(* When every event is processed, all money received is recorded           *)
(* (models/account.py: "Money actually received").                         *)
(***************************************************************************)
AllMoneyRecorded ==
    processed = DOMAIN sent =>
        \A e \in Range(sent) : e.kind \in {"purchase", "invoice"} /\ e.paid => Recorded(e.ref)

(***************************************************************************)
(* A paid purchase is eventually recorded and unlocked, through crashes,   *)
(* concurrent deliveries and subscribers opening the same report.          *)
(***************************************************************************)
PurchasesHonoured ==
    \A x \in OwnSessions :
        (\E e \in Range(sent) : e.about = x /\ e.paid) ~> Recorded(x) /\ Unlocked(AnalysisOf[x])

(***************************************************************************)
(* Every event the provider sends is eventually processed: a conflict      *)
(* never comes back on every retry.                                        *)
(***************************************************************************)
EveryEventProcessed ==
    \A k \in 1 .. MaxEvents : k \in DOMAIN sent ~> k \in processed
=============================================================================
