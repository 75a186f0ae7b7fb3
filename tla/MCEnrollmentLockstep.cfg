SPECIFICATION Spec
CONSTANTS
    Peers = {p1}
    Tokens = {t1}
    EphemeralTokens = {}
    Handlers = {h1, h2}
    Identities = {}
    Null = Null
    NoIdentity = NoIdentity
    AutoApproveEnrollment = TRUE
    Usages = 3
    Expiry = 2
    MaxUsages <- MCMaxUsages
    TokenExpiry <- MCTokenExpiry
    NodeRetention = 2
    EphemeralNodeRetention = 1
    MaxTime = 1
    MaxBiscuits = 3
    MaxRequests = 2
SYMMETRY EnrollmentSymmetry
INVARIANT BiscuitsInLockstep
