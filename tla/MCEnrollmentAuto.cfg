SPECIFICATION Spec
CONSTANTS
    Peers = {p1}
    Tokens = {t1, t2}
    EphemeralTokens = {t2}
    Handlers = {h1, h2}
    Identities = {}
    Null = Null
    NoIdentity = NoIdentity
    AutoApproveEnrollment = TRUE
    Usages = 1
    Expiry = 3
    MaxUsages <- MCMaxUsages
    TokenExpiry <- MCTokenExpiry
    NodeRetention = 2
    EphemeralNodeRetention = 1
    MaxTime = 4
    MaxBiscuits = 3
    MaxRequests = 2
SYMMETRY EnrollmentSymmetry
INVARIANTS
    ApprovedHasNode
    TokenBudget
