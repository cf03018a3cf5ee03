SPECIFICATION CwtSpec
CONSTANTS
    Length = 3
    Range32 = 8
    MaxCounter = 3
    Hashes <- MCHashes
    Bits = 4
    Statuses = {0, 12}
    MaxUpdates = 2
    MaxSigned = 2
INVARIANTS
    NoIndexIssuedTwice
    PublishedStatuses
CHECK_DEADLOCK FALSE
