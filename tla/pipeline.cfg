\* Three calls of one stand, two in flight together; the console edits, statements fail.
CONSTANTS
    r1 = r1  r2 = r2  r3 = r3  create = create  check = check  b1 = b1  b2 = b2
    EveryStand = EveryStand
    Unlimited = Unlimited
    NoRule = NoRule
    Unreadable = Unreadable
    NoId = NoId
    NoCall = NoCall
    NoEntry = NoEntry
    Service = "paymemock"
    Stands = {"s1"}
    Methods = {create, check}
    Bodies = {b1, b2}
    Requests = {r1, r2, r3}
    Arrivals <- Calls
    Forms <- Timeouts
    Typed <- Networks
    Lists <- OpenOrUpper
    Seeded <- Twice
    Listed = {create}
    TrustForwarded = TRUE
    BrowserMethods = {create, check}
    Width = 2
    Window = 1
    MaxClock = 1
    MaxRules = 2
    MaxDisturbances = 1
    MaxInFlight = 2
SPECIFICATION Spec
INVARIANTS TypeOK ReplayIsTheFirstAnswer OncePerIntention UsesBounded LogTellsTheTruth
PROPERTY AdmittedWasListed
SYMMETRY Symmetric
VIEW Seen
CHECK_DEADLOCK FALSE
