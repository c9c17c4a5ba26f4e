CONSTANTS
    Ids = {1, 2}
    MaxRows = 5
    MaxCommits = 3
    Undecodable = {2}
    None = None
SPECIFICATION FairSpec
INVARIANTS EachOnce
PROPERTIES StoppedPagesAdvance WholeReported
CHECK_DEADLOCK FALSE
CONSTANT Total <- MCTotal
