SPECIFICATION Spec
CONSTANTS
    Requests = {r1, r2, r3, r4}
    Saved = {a1, a2}
    Prices = {p1, p2, p3}
    Refused = {p3}
    Listings <- SomeListings
    Limits <- OneOrNoLimit
    NoLimit = NoLimit
    None = None
SYMMETRY SameRequests
INVARIANTS
    TypeOK
    CurrentIsLinked
    HistoryExplainsWatch
PROPERTIES
    LimitHeldWhenAlone
CHECK_DEADLOCK FALSE
