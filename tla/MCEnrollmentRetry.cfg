SPECIFICATION Spec
CONSTANTS
    Peers = {p1}
    Tokens = {t1}
    EphemeralTokens = {}
    Handlers = {h1}
    Identities = {}
    Null = Null
    NoIdentity = NoIdentity
    AutoApproveEnrollment = FALSE
    Usages = 1
    Expiry = 2
    MaxUsages <- MCMaxUsages
    TokenExpiry <- MCTokenExpiry
    NodeRetention = 2
    EphemeralNodeRetention = 1
    MaxTime = 1
    MaxBiscuits = 2
    MaxRequests = 2
SYMMETRY EnrollmentSymmetry
INVARIANT FailedApprovalCanBeRetried
