SPECIFICATION FairSpec
CONSTANTS
    Plans <- BothPlans
    Products <- BothPlans
    Features <- MCFeatures
    FreeFeatures <- MCFreeFeatures
    FreeAnalyses = 1
    NoPlan = NoPlan
    NoCap = NoCap
    NoLimit = NoLimit
    AdAudience = {"free"}
    Users = {u1}
    Requests = {r1, r2, r3}
    Inputs = {i1, i2}
    Refused = {i2}
    LocationConfigured = FALSE
    ModelConfigured = TRUE
    RateLimit = 2
    RateWindow = 1
    DuplicateWindow = 1
    MonthStart <- MCMonthStart
    MaxTime = 0
    PromoCodes = {}
    PromoValue <- MCPromoValue
    SomeRoles = {"user"}
    SomePlans = {}
PROPERTIES
    EveryRequestAnswered
