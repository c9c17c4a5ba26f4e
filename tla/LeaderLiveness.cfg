SPECIFICATION FairSpec
CONSTANTS
    Participant = {p1, p2}
    Nobody = Nobody
    Leases <- MCLeases
    Operations = {}
    Slow = {p2}
    Horizon = 1
    MaxRevision = 2
    MaxLimbo = 0
PROPERTIES
    OrphanedLeaseTakenOver
