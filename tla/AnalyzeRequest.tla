--------------------------- MODULE AnalyzeRequest ---------------------------
(***************************************************************************)
(* The requests the service accepts (schemas/analysis.py): a request that  *)
(* fails one of these tests is answered with 422 before any engine runs.   *)
(*                                                                         *)
(* Of a choice, the values no engine tells apart are one: "house" stands   *)
(* for the freehold kinds, "condo" for both kinds of it, and "other" for   *)
(* the remaining goals, horizons and postures and for none at all.  A day  *)
(* is the number yyyymmdd, and the age of a home follows from its year.    *)
(* The income is the larger of the household's and the buyer's own.        *)
(***************************************************************************)
EXTENDS Money, Sequences

RequestFields ==
    {"price", "down", "day", "jurisdiction", "kind", "tax", "fee", "newBuild", "rate", "years",
     "firstTime", "residency", "income", "debts", "savings", "emergency", "budget", "area",
     "bedrooms", "comparables", "bathrooms", "minBathrooms", "minBedrooms", "needsParking",
     "parking", "maxCommute", "statedCommute", "commute", "commuteEstimated", "amenities", "age",
     "goal", "schoolsMatter", "horizon", "posture", "address", "household", "netIncome",
     "otherExpenses"}

\* A record of these fields and no others.
IsRequest(r) == r = [field \in RequestFields |-> r[field]]

Absent(n) == n = None

AcceptedBuyer(r) ==
    /\ {r.income, r.household, r.down} \subseteq Nat \ {0}
    /\ r.household <= r.income
    /\ {r.debts, r.savings, r.emergency} \subseteq Nat
    /\ \A n \in {r.budget, r.netIncome} : Absent(n) \/ n \in Nat \ {0}
    /\ Absent(r.otherExpenses) \/ r.otherExpenses \in Nat
    /\ r.firstTime \in BOOLEAN
    /\ r.residency \in {"citizen", "foreign_national", "unknown"}

AcceptedProperty(r) ==
    /\ r.price \in Nat \ {0}
    /\ r.kind \in {"house", "condo", "other"}
    /\ \A n \in {r.tax, r.fee, r.bedrooms, r.bathrooms} : Absent(n) \/ n \in Nat
    /\ Absent(r.area) \/ r.area \in Nat \ {0}
    /\ Absent(r.age) \/ (r.age \in Int /\ (r.day \div 10000) - r.age \in 1700..2100)
    /\ Absent(r.parking) \/ r.parking \in BOOLEAN
    /\ {r.newBuild, r.address} \subseteq BOOLEAN

AcceptedPreferences(r) ==
    /\ \A n \in {r.minBedrooms, r.minBathrooms, r.statedCommute} : Absent(n) \/ n \in Nat
    /\ Absent(r.maxCommute) \/ r.maxCommute \in Nat \ {0}
    /\ Absent(r.needsParking) \/ r.needsParking \in BOOLEAN
    /\ r.goal \in {"primary_residence", "investment", "other"}
    /\ r.horizon \in {"under_3", "over_10", "other"}
    /\ r.posture \in {"conservative", "aggressive", "balanced", "other"}
    /\ r.schoolsMatter \in BOOLEAN

AcceptedSale(sale) ==
    /\ sale.months \in Int
    /\ sale.price \in Nat \ {0}
    /\ Absent(sale.area) \/ sale.area \in Nat \ {0}
    /\ \A n \in {sale.bedrooms, sale.distance} : Absent(n) \/ n \in Nat

AcceptedTerms(r) == r.rate \in 1..(Scale - 1) /\ r.years \in 5..30

Accepted(r) ==
    /\ AcceptedBuyer(r) /\ AcceptedProperty(r) /\ AcceptedTerms(r) /\ AcceptedPreferences(r)
    /\ r.comparables \in Seq({r.comparables[i] : i \in DOMAIN r.comparables})
    /\ \A i \in DOMAIN r.comparables : AcceptedSale(r.comparables[i])

\* What the location services may have found out.
LocationFacts(r) ==
    /\ \A n \in {r.commute, r.amenities} : Absent(n) \/ n \in Nat
    /\ r.commuteEstimated \in BOOLEAN
=============================================================================
