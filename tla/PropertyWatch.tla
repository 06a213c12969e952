---------------------------- MODULE PropertyWatch ----------------------------
(***************************************************************************)
(* Watched properties (api/v1/watch.py): creating a watch within the       *)
(* plan's limit, recording what its owner reports, deleting it.            *)
(*                                                                         *)
(* One account, less than an hour.  Each request is a coroutine with its   *)
(* own READ COMMITTED transaction, which keeps the row it loaded; an       *)
(* action is what happens between two of its awaits.  A price is what the  *)
(* recalculation is done at: everything else in an analysis follows it.    *)
(***************************************************************************)
EXTENDS Integers, FiniteSets

CONSTANTS
    Requests,       \* requests that may be made, each of them once
    Saved,          \* analyses saved when the account starts watching
    Prices,
    Refused,        \* prices at which the analysis cannot run
    Listings,       \* listing_status values a user may report
    Limits,         \* watch_limit of the plans the account may have
    NoLimit,        \* an administrator's
    None            \* nothing reported, nothing loaded

ASSUME WatchAssumption ==
    /\ IsFiniteSet(Requests) /\ IsFiniteSet(Saved)
    /\ Requests \cap Saved = {}
    /\ Refused \subseteq Prices
    /\ "for_sale" \in Listings
    /\ NoLimit \notin Nat
    /\ Limits \subseteq Nat \cup {NoLimit}
    /\ None \notin Requests \cup Saved \cup Prices \cup Listings

\* A watch is named after the request that made it, and so is an analysis.
AnalysisIds == Saved \cup Requests

VARIABLES
    limit,     \* watch_limit of the account's current plan
    analyses,  \* property_analyses: id -> [price, from], from = derived_from_id
    watches,   \* property_watches: id -> [original, current, price, listing]
    changes,   \* property_watch_events: [by, watch, field, old, new, at]
    recalculations, \* usage_events of kind "watch_recalculation": request ids
    pc,        \* where each request stands, or how it ended
    about,     \* the analysis it wants watched, or the watch it is about
    reported,  \* [price, listing] it reports
    allowed,   \* watch_limit as it read it
    row,       \* the watch as it loaded it
    alone      \* history: no other creation has run at the same time

tables == <<analyses, watches, changes, recalculations>>
request == <<about, reported, allowed, row>>
vars == <<limit, tables, pc, request, alone>>

Watches == DOMAIN watches
Creating == {"entitled", "counted", "unmatched"}

-----------------------------------------------------------------------------
Init ==
    /\ limit \in Limits
    /\ analyses \in [Saved -> [price : Prices \ Refused, from : {None}]]
    /\ watches = <<>>
    /\ changes = {}
    /\ recalculations = {}
    /\ pc = [r \in Requests |-> "idle"]
    /\ about = [r \in Requests |-> None]
    /\ reported = [r \in Requests |-> [price |-> None, listing |-> None]]
    /\ allowed = [r \in Requests |-> 0]
    /\ row = [r \in Requests |-> None]
    /\ alone = [r \in Requests |-> TRUE]

GoTo(r, here, there) == pc[r] = here /\ pc' = [pc EXCEPT ![r] = there]

Put(f, k, value) == [x \in DOMAIN f \cup {k} |-> IF x = k THEN value ELSE f[x]]

-----------------------------------------------------------------------------
(***************************************************************************)
(* POST /watches: the plan's limit, then the count, then the duplicate,    *)
(* then the row.                                                           *)
(***************************************************************************)
ReadLimit(r, a) ==
    /\ GoTo(r, "idle", "entitled")
    /\ about' = [about EXCEPT ![r] = a]
    /\ allowed' = [allowed EXCEPT ![r] = limit]
    /\ LET others == {q \in Requests \ {r} : pc[q] \in Creating} IN
       alone' = [q \in Requests |->
                    IF q = r THEN others = {} ELSE alone[q] /\ q \notin others]
    /\ UNCHANGED <<limit, tables, reported, row>>

\* Mutant: one watch too many.
CountWatchesOffByOne(r) ==
    /\ pc[r] = "entitled"
    /\ pc' = [pc EXCEPT ![r] =
           IF allowed[r] # NoLimit /\ Cardinality(Watches) > allowed[r]
           THEN "locked" ELSE "counted"]
    /\ UNCHANGED <<limit, tables, request, alone>>

CountWatches(r) ==
    /\ pc[r] = "entitled"
    /\ pc' = [pc EXCEPT ![r] =
           IF allowed[r] # NoLimit /\ Cardinality(Watches) >= allowed[r]
           THEN "locked" ELSE "counted"]
    /\ UNCHANGED <<limit, tables, request, alone>>

FindDuplicate(r) ==
    /\ pc[r] = "counted"
    /\ pc' = [pc EXCEPT ![r] =
           IF \E w \in Watches : watches[w].current = about[r] THEN "existing" ELSE "unmatched"]
    /\ UNCHANGED <<limit, tables, request, alone>>

InsertWatch(r) ==
    /\ GoTo(r, "unmatched", "created")
    /\ watches' = Put(watches, r,
           [original |-> about[r], current |-> about[r],
            price |-> analyses[about[r]].price, listing |-> "for_sale"])
    /\ UNCHANGED <<limit, analyses, changes, recalculations, request, alone>>

-----------------------------------------------------------------------------
(***************************************************************************)
(* POST /watches/{id}/updates.  A price equal to the loaded one, or a      *)
(* status equal to it, is no change.  A new price is recalculated from the *)
(* loaded watch's current analysis while the location is looked up.        *)
(***************************************************************************)
LoadForUpdate(r, w, price, listing) ==
    /\ GoTo(r, "idle", "loaded")
    /\ price # None \/ listing # None
    /\ about' = [about EXCEPT ![r] = w]
    /\ row' = [row EXCEPT ![r] = watches[w]]
    /\ reported' = [reported EXCEPT ![r] = [price |-> price, listing |-> listing]]
    /\ UNCHANGED <<limit, tables, allowed, alone>>

NewPrice(r) == reported[r].price \notin {None, row[r].price}
NewListing(r) == reported[r].listing \notin {None, row[r].listing}

RefusePrice(r) ==
    /\ GoTo(r, "loaded", "refused")
    /\ NewPrice(r) /\ reported[r].price \in Refused
    /\ UNCHANGED <<limit, tables, request, alone>>

(***************************************************************************)
(* The rows of one request.  Its place among the watch's rows is how many  *)
(* were there before.                                                      *)
(***************************************************************************)
ChangesOf(r) ==
    LET change(field) == [by |-> r, watch |-> about[r], field |-> field,
                          old |-> row[r][field], new |-> reported[r][field],
                          at |-> Cardinality({c \in changes : c.watch = about[r]})]
    IN (IF NewPrice(r) THEN {change("price")} ELSE {})
       \cup (IF NewListing(r) THEN {change("listing")} ELSE {})

\* Mutant: the whole loaded row is written back.
CommitUpdateWholeRow(r) ==
    LET w == about[r] IN
    /\ GoTo(r, "loaded", "updated")
    /\ w \in Watches
    /\ NewPrice(r) => reported[r].price \notin Refused
    /\ analyses' = IF NewPrice(r)
                   THEN Put(analyses, r, [price |-> reported[r].price, from |-> row[r].current])
                   ELSE analyses
    /\ recalculations' = IF NewPrice(r) THEN recalculations \cup {r} ELSE recalculations
    /\ changes' = changes \cup ChangesOf(r)
    /\ watches' = [watches EXCEPT ![w] =
           [row[r] EXCEPT !.price = IF NewPrice(r) THEN reported[r].price ELSE @,
                          !.current = IF NewPrice(r) THEN r ELSE @,
                          !.listing = IF NewListing(r) THEN reported[r].listing ELSE @]]
    /\ UNCHANGED <<limit, request, alone>>

\* Mutant: the watch keeps pointing at the analysis before the price change.
CommitUpdateOldAnalysis(r) ==
    LET w == about[r] IN
    /\ GoTo(r, "loaded", "updated")
    /\ w \in Watches
    /\ NewPrice(r) => reported[r].price \notin Refused
    /\ analyses' = IF NewPrice(r)
                   THEN Put(analyses, r, [price |-> reported[r].price, from |-> row[r].current])
                   ELSE analyses
    /\ recalculations' = IF NewPrice(r) THEN recalculations \cup {r} ELSE recalculations
    /\ changes' = changes \cup ChangesOf(r)
    /\ watches' = [watches EXCEPT
           ![w].price = IF NewPrice(r) THEN reported[r].price ELSE @,
           ![w].listing = IF NewListing(r) THEN reported[r].listing ELSE @]
    /\ UNCHANGED <<limit, request, alone>>

\* Mutant: what the engines refuse is recorded all the same.
CommitUpdateRefused(r) ==
    LET w == about[r] IN
    /\ GoTo(r, "loaded", "updated")
    /\ w \in Watches
    /\ watches' = [watches EXCEPT ![w].price = reported[r].price]
    /\ UNCHANGED <<limit, analyses, changes, recalculations, request, alone>>

(***************************************************************************)
(* One transaction; only the changed columns are written.                  *)
(***************************************************************************)
CommitUpdate(r) ==
    LET w == about[r] IN
    /\ GoTo(r, "loaded", "updated")
    /\ w \in Watches
    /\ NewPrice(r) => reported[r].price \notin Refused
    /\ analyses' = IF NewPrice(r)
                   THEN Put(analyses, r, [price |-> reported[r].price, from |-> row[r].current])
                   ELSE analyses
    /\ recalculations' = IF NewPrice(r) THEN recalculations \cup {r} ELSE recalculations
    /\ changes' = changes \cup ChangesOf(r)
    /\ watches' = [watches EXCEPT
           ![w].price = IF NewPrice(r) THEN reported[r].price ELSE @,
           ![w].current = IF NewPrice(r) THEN r ELSE @,
           ![w].listing = IF NewListing(r) THEN reported[r].listing ELSE @]
    /\ UNCHANGED <<limit, request, alone>>

(***************************************************************************)
(* The row is gone: the UPDATE matches nothing, which is a 500.            *)
(***************************************************************************)
UpdateLost(r) ==
    /\ GoTo(r, "loaded", "failed")
    /\ about[r] \notin Watches
    /\ NewPrice(r) => reported[r].price \notin Refused
    /\ UNCHANGED <<limit, tables, request, alone>>

(***************************************************************************)
(* DELETE /watches/{id}; the events of a watch go with it.                 *)
(***************************************************************************)
LoadForDelete(r, w) ==
    /\ GoTo(r, "idle", "deleting")
    /\ about' = [about EXCEPT ![r] = w]
    /\ UNCHANGED <<limit, tables, reported, allowed, row, alone>>

Delete(r) ==
    /\ GoTo(r, "deleting", "deleted")
    /\ watches' = [w \in Watches \ {about[r]} |-> watches[w]]
    /\ changes' = {c \in changes : c.watch # about[r]}
    /\ UNCHANGED <<limit, analyses, recalculations, request, alone>>

(***************************************************************************)
(* The account moves to another plan.                                      *)
(***************************************************************************)
ChangePlan(l) ==
    /\ limit' = l
    /\ UNCHANGED <<tables, pc, request, alone>>

-----------------------------------------------------------------------------
Next ==
    \/ \E r \in Requests :
        \/ \E a \in DOMAIN analyses : ReadLimit(r, a)
        \/ CountWatches(r) \/ FindDuplicate(r) \/ InsertWatch(r)
        \/ \E w \in Watches, p \in Prices \cup {None}, l \in Listings \cup {None} :
              LoadForUpdate(r, w, p, l)
        \/ RefusePrice(r) \/ CommitUpdate(r) \/ UpdateLost(r)
        \/ \E w \in Watches : LoadForDelete(r, w)
        \/ Delete(r)
    \/ \E l \in Limits : ChangePlan(l)

Spec == Init /\ [][Next]_vars

-----------------------------------------------------------------------------
Places == {"idle", "entitled", "counted", "unmatched", "loaded", "deleting", "locked",
           "existing", "created", "refused", "updated", "failed", "deleted"}

WatchRow == [original : AnalysisIds, current : AnalysisIds, price : Prices, listing : Listings]

(***************************************************************************)
(* The type of every variable; what refers to an analysis finds it, and a  *)
(* price that was refused is nowhere.                                      *)
(***************************************************************************)
TypeOK ==
    /\ limit \in Limits
    /\ Saved \subseteq DOMAIN analyses /\ DOMAIN analyses \subseteq AnalysisIds
    /\ \A a \in DOMAIN analyses : /\ analyses[a].price \in Prices \ Refused
                                 /\ analyses[a].from \in DOMAIN analyses \cup {None}
    /\ Watches \subseteq Requests
    /\ \A w \in Watches : /\ watches[w] \in WatchRow
                          /\ watches[w].price \notin Refused
                          /\ {watches[w].original, watches[w].current} \subseteq DOMAIN analyses
    /\ changes \subseteq [by : Requests, watch : Watches, field : {"price", "listing"},
                          old : Prices \cup Listings, new : Prices \cup Listings, at : Nat]
    /\ recalculations \subseteq Requests
    /\ pc \in [Requests -> Places]
    /\ about \in [Requests -> AnalysisIds \cup {None}]
    /\ reported \in [Requests -> [price : Prices \cup {None}, listing : Listings \cup {None}]]
    /\ allowed \in [Requests -> Limits \cup {0}]
    /\ row \in [Requests -> WatchRow \cup {None}]
    /\ alone \in [Requests -> BOOLEAN]

(***************************************************************************)
(* A watch shows one property at one price: its current analysis is at its *)
(* last price and descends from the original (MONETIZATION.md: "a new      *)
(* analysis linked to the old one"), whatever tabs update it at once.      *)
(***************************************************************************)
CurrentIsLinked ==
    \A w \in Watches :
        /\ analyses[watches[w].current].price = watches[w].price
        /\ \A S \in SUBSET DOMAIN analyses :
              /\ watches[w].current \in S
              /\ \A a \in S : analyses[a].from # None => analyses[a].from \in S
              => watches[w].original \in S

(***************************************************************************)
(* What a watch shows is what was last reported of it, field by field: a   *)
(* tab that reports a price does not undo the status another one reported. *)
(***************************************************************************)
HistoryExplainsWatch ==
    \A w \in Watches, field \in {"price", "listing"} :
        LET reports == {c \in changes : c.watch = w /\ c.field = field}
            first == [price |-> analyses[watches[w].original].price, listing |-> "for_sale"]
        IN /\ reports = {} => watches[w][field] = first[field]
           /\ \A c \in reports :
                 (\A d \in reports : d.at <= c.at) => watches[w][field] = c.new

(***************************************************************************)
(* A client that creates one watch at a time never gets more of them than  *)
(* the plan it had when it asked includes.                                 *)
(***************************************************************************)
LimitHeldWhenAlone ==
    [][\A r \in Requests :
          pc[r] = "unmatched" /\ pc'[r] = "created" /\ alone[r] /\ allowed[r] # NoLimit =>
              Cardinality(Watches') <= allowed[r]]_vars
=============================================================================
