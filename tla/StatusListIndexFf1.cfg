SPECIFICATION FairWalkSpec
CONSTANTS
    Length = 5
    Domain = 8
    Calls = {c1, c2, c3}
    Encryptions = {c1, c2, c3}
    Ciphers <- MCCiphers
    RadixU = 2
    RadixV = 4
    Rounds = 2
    MacValues <- MCMacValues
    RoundMacs <- MCRoundMacs
INVARIANTS
    NoIndexHandedOutTwice
    Permutes
PROPERTIES
    AtomicPermutation
    WalkEnds
CHECK_DEADLOCK FALSE
