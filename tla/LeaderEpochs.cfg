SPECIFICATION Spec
CONSTANTS
    Participant = {p1, p2}
    Nobody = Nobody
    Leases <- MCLeases
    Operations = {"resign", "work"}
    Slow = {p2}
    Horizon = 2
    MaxRevision = 2
    MaxLimbo = 1
INVARIANTS
    UniqueGrants
PROPERTIES
    FencedWork
    NoForeignRelease
    ImplementsFencedEpochs
    NoEarlyTakeover
    LeaseExclusion
