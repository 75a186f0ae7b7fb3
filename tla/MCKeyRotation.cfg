\* Two replicas, three rotations of which two may overlap, one fault: safety.
SPECIFICATION Spec
CONSTANTS
    NULL = NULL
    Absent = Absent
    Replicas = {r1, r2}
    MaxKeys = 4
    MaxTime = 4
    Grace = 2
    Interval = 1
    TxTime = 1
    NoExpiry = 99
    MaxFaults = 1
SYMMETRY ReplicaSymmetry
INVARIANTS
    TypeOK
    SingleSigningKey
    ReadKeyOutlivesRotation
    OneReplicaPerWindow
