SPECIFICATION ApiSpec
CONSTANTS
    s1 = s1
    s2 = s2
    ann = ann
    bob = bob
    office = office
    Slots = {s1, s2}
    Emails = {ann, bob}
    Addresses = {office}
    Bootstrap = {ann}
    Nobody = Nobody
    AttemptLimit = 1
    AttemptWindow = 1
    SessionLife = 1
    Switches <- AllSwitches
    SomeSettings <- OnOrOff
    SomeRoles = {"user", "admin"}
    FirstRoles <- OneAdministrator
    MaxTime = 2
    MaxRequests = 3
    Kinds = {"offer_scenarios", "listing_parse"}
    Ceiling <- OneOfEach
    Window <- OneOfEach
    Budget = 2
    DayLength = 2
    Costs = {1, 2}
    DearestCost = 2
SYMMETRY SameSlots
INVARIANTS
    TypeOK
    AttemptsBounded
    AuditExplainsRoles
    CeilingsHold
PROPERTIES
    LastAdministratorStays
CHECK_DEADLOCK FALSE
