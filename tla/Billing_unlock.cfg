SPECIFICATION Spec
CONSTANTS
    Handlers = {h1, h2}
    Readers = {v1}
    Subs = {s1}
    Sessions = {x1, x2}
    AnalysisOf <- OneAnalysis
    Analyses = {a1}
    OwnSessions = {x1, x2}
    Professional = FALSE
    None = None
    InOrder = FALSE
    MaxEvents = 4
    MaxCrashes = 0
SYMMETRY SameHandlers
INVARIANTS
    TypeOK
    MoneyCountedOnce
    UnlockedAsPaid
CHECK_DEADLOCK FALSE
