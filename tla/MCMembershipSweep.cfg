SPECIFICATION Spec
CONSTANTS
    Peers = {p1}
    BootstrapPeers = {p1}
    Handlers = {h1}
    alice = alice
    Identities = {alice}
    Null = Null
    NoIdentity = NoIdentity
    IdentityOf <- MCIdentityOf
    NodeRetention = 2
    EphemeralNodeRetention = 1
    SessionTTL = 1
    MaxTime = 5
    MaxBiscuits = 2
    MaxKeys = 1
SYMMETRY MembershipSymmetry
PROPERTIES
    BanSticks
    OnlyForgottenAreDeleted
