\* Liveness: no symmetry, two faults (a rotation and its release may both fail), one full rotation after the first key.
SPECIFICATION FairSpec
CONSTANTS
    NULL = NULL
    Absent = Absent
    Replicas = {r1, r2}
    MaxKeys = 3
    MaxTime = 3
    Grace = 1
    Interval = 2
    TxTime = 1
    NoExpiry = 99
    MaxFaults = 2
PROPERTIES
    DueRotationHappens
    FailedRotationRetried
