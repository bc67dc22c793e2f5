CONSTANTS
    i1 = i1
    i2 = i2
    digest = digest
    Orphan = Orphan
    Instances <- MCInstances
    Jobs <- MCJobs
    Slots <- MCSlots
    Skew <- NoSkew
    TTL = 1
    Period = 2
    AwareTaken = TRUE
    Users = {u1}
    Lead = 2
    Ahead = 2
    Linger = 1
SPECIFICATION DigestFairSpec
INVARIANTS
    TypeOK
    DigestTypeOK
    LeaseExclusion
    LeaseOwnsRow
    NeverUnannounced
PROPERTIES
    OrphansReclaimed
    NoLiveRowLost
    LeaseImplemented
