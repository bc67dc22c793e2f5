CONSTANTS
    i1 = i1
    i2 = i2
    cleanup = cleanup
    Orphan = Orphan
    Instances <- MCInstances
    Jobs <- MCJobs
    Slots <- MCSlots
    Skew <- MCSkew
    TTL = 1
    Period = 3
    AwareTaken = FALSE
SPECIFICATION LuckySpec
PROPERTY JobKeepsRunning
