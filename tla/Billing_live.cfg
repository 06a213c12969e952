SPECIFICATION FairSpec
CONSTANTS
    Handlers = {h1, h2}
    Readers = {v1}
    Subs = {s1}
    Sessions = {x1}
    AnalysisOf <- OneAnalysis
    Analyses = {a1}
    OwnSessions = {x1}
    Professional = TRUE
    None = None
    InOrder = TRUE
    MaxEvents = 4
    MaxCrashes = 1
INVARIANTS
    MirrorsProvider
PROPERTIES
    PurchasesHonoured
    EveryEventProcessed
CHECK_DEADLOCK FALSE
