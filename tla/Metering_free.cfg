SPECIFICATION Spec
CONSTANTS
    Plans <- BothPlans
    Products <- BothPlans
    Features <- MCFeatures
    FreeFeatures <- MCFreeFeatures
    FreeAnalyses = 1
    NoPlan = NoPlan
    NoCap = NoCap
    NoLimit = NoLimit
    AdAudience = {"free"}
    Users = {u1}
    Requests = {r1, r2, r3}
    Inputs = {i1, i2}
    Refused = {}
    LocationConfigured = TRUE
    ModelConfigured = FALSE
    RateLimit = 1
    RateWindow = 1
    DuplicateWindow = 2
    MonthStart <- MCMonthStart
    MaxTime = 2
    PromoCodes = {c1}
    PromoValue <- MCPromoValue
    SomeRoles = {"user"}
    SomePlans = {}
SYMMETRY SameRequestsAndInputs
INVARIANTS
    TypeOK
    FreeAllowanceHeld
    PatientClientNotChargedTwice
    PatientClientRateLimited
