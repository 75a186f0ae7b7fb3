SPECIFICATION Spec
CONSTANTS
    Peers = {p1}
    BootstrapPeers = {p1}
    Handlers = {h1}
    alice = alice
    Identities = {alice}
    Null = Null
    NoIdentity = NoIdentity
    IdentityOf <- MCIdentityOf
    NodeRetention = 2
    EphemeralNodeRetention = 1
    SessionTTL = 1
    MaxTime = 1
    MaxBiscuits = 3
    MaxKeys = 1
SYMMETRY MembershipSymmetry
PROPERTY RefreshKeepsRecovery
