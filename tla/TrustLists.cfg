SPECIFICATION Spec
CONSTANTS
    None = None
    Omitted = Omitted
    Rejected = Rejected
    Undefined = Undefined
    Invalid = Invalid
    Missing = Missing
    Failed = Failed
    KindOf <- MCKindOf
    SkiOf <- MCSkiOf
    DocumentOf <- MCDocumentOf
    NodeOf <- MCNodeOf
    MaxGeneration = 2
    MaxNational = 2
    ListLocation <- MCListLocation
    EntryVersions <- MCEntryVersions
    Selections <- MCSelections
    AuthenticDoc <- MCAuthenticDoc
    OtherDocs <- MCOtherDocs
    MaxExtendsDepth = 2
    MeantClaims <- MCMeantClaims
    Protected <- MCProtected
    Unresolvable <- MCUnresolvable
    Dates <- MCDates
    Zones <- MCZones
    MaxEntities = 2
    MaxUpdates = 1
CHECK_DEADLOCK FALSE
INVARIANTS
    AnchorsAuthentic
    HonestListsAccepted
    LoteAcceptance
    CatalogueRespected
PROPERTIES
    NoPinRevival
