SPECIFICATION VcSpec
CONSTANTS
    None = None
    Yes = Yes
    Spelling <- MCSpelling
    Scenarios <- MCScenarios
    StatusLifetime = 2
    DefaultSkew = 1
    MaxVctDepth = 2
CHECK_DEADLOCK FALSE
INVARIANTS
    AcceptedIsPresented
    HonestAccepted
    RevocationTakesEffect
    FetchesAuthorised
