SPECIFICATION Spec
CONSTANTS
    Plans <- AllPlans
    Products <- AllPlans
    Features <- MCFeatures
    FreeFeatures <- MCFreeFeatures
    FreeAnalyses = 1
    NoPlan = NoPlan
    NoCap = NoCap
    NoLimit = NoLimit
    AdAudience = {"free"}
    Users = {u1}
    Requests = {r1, r2}
    Inputs = {i1, i2}
    Refused = {}
    LocationConfigured = TRUE
    ModelConfigured = FALSE
    RateLimit = 2
    RateWindow = 1
    DuplicateWindow = 0
    MonthStart <- MCMonthStart
    MaxTime = 2
    PromoCodes = {c1}
    PromoValue <- MCPromoValue
    SomeRoles = {"user", "admin"}
    SomePlans <- AddedPlans
SYMMETRY SameRequestsAndInputs
INVARIANTS
    LimitOnlyWhenSpent
    PlanCapHeld
PROPERTIES
    ImplementsCreditLedger
