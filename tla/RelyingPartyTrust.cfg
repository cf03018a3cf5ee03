SPECIFICATION WalletSpec
CONSTANTS
    Absent = Absent
    Null = "null"
    Leaves <- MCLeaves
    CaCertificates <- MCCaCertificates
    Requests <- MCRequests
    Payloads <- MCPayloads
    OtherDocuments <- MCOtherDocuments
    Queries <- MCQueries
    Credentials <- MCCredentials
    Indexes <- MCIndexes
    Dids = {"did:l"}
    MaxTime = 2
    Lag = 1
    Skew = 0
    Year = 3
    CrlLifetime = 1
INVARIANTS
    AuthenticRelyingParty
    DisclosedWithinRegistration
CHECK_DEADLOCK FALSE
