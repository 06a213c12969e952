SPECIFICATION ReportsSpec
CONSTANTS
    Scale = 10000
    None = None
    RuleBook <- SeedRules
    NoEnd = NoEnd
    PaymentFactor <- MCPaymentFactor
    LtvScale = 1000
    FirstPrice = 10
    SearchCeiling = 500000
    Halvings = 19
    Dollar = 10
    PeriodicRate <- MCPeriodicRate
    PeriodicScale = 100000
    AppreciationRates <- MCAppreciation
    SellingRate = 500
    ReturnRate = 500
    CostGrowth <- MCCostGrowth
    ShareFallsShort <- MCShareFallsShort
    Today = 20260402
    OfferPrices <- MCOfferPrices
    Panels <- MCPanels
    Requests <- MCRequests
    Prices <- MCPrices
INVARIANTS
    DeepDiveRendered
CHECK_DEADLOCK FALSE
