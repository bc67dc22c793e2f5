CONSTANTS
    Requests = {r1, r2}
    TTL = 2
    Retention = 3
    Horizon = 5
    MaxBatches = 4
    Replies <- MCReplies
SPECIFICATION Spec
SYMMETRY Sym
INVARIANTS TypeOK HerdBounded
PROPERTY HitServesYoung
