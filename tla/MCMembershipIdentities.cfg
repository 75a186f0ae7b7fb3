SPECIFICATION Spec
CONSTANTS
    Peers = {p1, p2}
    BootstrapPeers = {}
    Handlers = {h1}
    alice = alice
    Identities = {alice}
    Null = Null
    NoIdentity = NoIdentity
    IdentityOf <- MCIdentityOf
    NodeRetention = 2
    EphemeralNodeRetention = 1
    SessionTTL = 1
    MaxTime = 1
    MaxBiscuits = 3
    MaxKeys = 2
SYMMETRY MembershipSymmetry
INVARIANTS
    BannedIdentityNotRenewed
