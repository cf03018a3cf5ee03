SPECIFICATION MdocSpec
CONSTANTS
    AgeOf <- MCAgeOf
    Anchors <- MCAnchors
    KeyIds <- MCKeyIds
    StatusSigners <- MCStatusSigners
    CertValidity <- MCCertValidity
    SkewTime = 0
    NotGiven = NotGiven
    ListReferences <- MCListReferences
    ListLifetime = 1
    DeviceRequests <- MCDeviceRequests
    Credentials <- MCCredentials
    Relayed <- MCRelayed
    VerifyOptions <- MCVerifyOptions
    MaxSessions = 2
    MaxTime = 1
    MaxDocuments = 2
    MaxDeclined = 1
INVARIANTS
    DeclinedStaysHidden
    AuthenticatedReaderOnly
    AcceptedAsMade
    StatusFetchesAuthorised
    VerdictAsAnswered
CHECK_DEADLOCK FALSE
