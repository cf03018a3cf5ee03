SPECIFICATION FairSpec
CONSTANTS
    l = l
    i = i
    j = j
    t = t
    a = a
    b = b
    Members = {a, b}
    Null = Null
    Absent = Absent
    PolicyError = PolicyError
    NoLimit = NoLimit
    Entities = {l, i, j, t}
    Leaf = l
    Anchors = {t}
    PinnedKeys <- MCPinned
    Federations <- MCFederations
    ConfigOf <- MCConfigOf
    StmtOf <- MCStmtOf
    MaxDepth = 3
    Budgets = {8, 14}
    MaxAuthorityHints = 2
INVARIANTS
    ReturnedChainsValid
    CompleteResolution
    RequestsBounded
    PoliciesObeyed
PROPERTIES
    ResolutionEnds
