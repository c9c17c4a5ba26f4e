CONSTANTS
    MaxLimit = 3
    None = None
SPECIFICATION FairSpec
INVARIANTS AtMostOnce LimitsHold
PROPERTY CallEnds
CHECK_DEADLOCK FALSE
