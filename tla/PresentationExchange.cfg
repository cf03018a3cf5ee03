SPECIFICATION Spec
CONSTANTS
    None = None
    Sessions = {s1, s2}
    Scenarios <- MCScenarios
    MaxOffers = 1
SYMMETRY SessionSymmetry
CHECK_DEADLOCK FALSE
INVARIANTS
    DisclosedToNamedClient
    AcceptedForItsSession
    HonestResponseAccepted
    OutputExact
