SPECIFICATION Spec
CONSTANTS
    Handlers = {h1, h2}
    Readers = {}
    Subs = {s1}
    Sessions = {}
    AnalysisOf <- OneAnalysis
    Analyses = {a1}
    OwnSessions = {}
    Professional = FALSE
    None = None
    InOrder = FALSE
    MaxEvents = 4
    MaxCrashes = 1
SYMMETRY SameHandlers
INVARIANTS
    MirrorsProvider
CHECK_DEADLOCK FALSE
