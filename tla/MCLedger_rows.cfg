CONSTANTS
    t1 = t1
    t2 = t2
    t3 = t3
    g1 = g1
    Null = Null
    Requests = {r1, r2}
    Transactions <- MCTransactions
    Goals <- MCGoals
    Bodies <- MCBodies
    Patches <- MCPatches
    PageSize = 1
SPECIFICATION Spec
SYMMETRY Sym
INVARIANTS TypeOK ChecksAgree ScanMissesNothing
PROPERTY ChangedAsAsked
CHECK_DEADLOCK FALSE
