SPECIFICATION Spec
CONSTANTS
    Peers = {p1, p2}
    Tokens = {t1}
    EphemeralTokens = {}
    Handlers = {h1, h2}
    Identities = {}
    Null = Null
    NoIdentity = NoIdentity
    AutoApproveEnrollment = FALSE
    Usages = 2
    Expiry = 2
    MaxUsages <- MCMaxUsages
    TokenExpiry <- MCTokenExpiry
    NodeRetention = 2
    EphemeralNodeRetention = 1
    MaxTime = 2
    MaxBiscuits = 3
    MaxRequests = 2
SYMMETRY EnrollmentSymmetry
INVARIANTS
    TypeOK
    TokenBudget
    ApprovedHasNode
PROPERTIES
    ResolutionIsFinal
