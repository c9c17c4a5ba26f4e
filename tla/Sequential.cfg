CONSTANTS
    Base = 64
    MAX_SZ = 2
    FloatSize = 1
    StampSize = 1
    MaxPath = 2
    PathTuples <- MCPathTuples
    KeyTuples <- MCKeyTuples
    Version <- MCVersion
    Versions = {70, 71, 74}
    MaxEvents = 2
    MaxHits = 2
    MaxKey = 5
    IntMax = 2
    MaxRead = 1
    MaxWrites = 1
    NoValue = NoValue
    Requests <- MCRequests
    None = None
    Names = {n1, n2}
    Prefix = n1
    MaxStack = 3
    MaxIds = 2
    MaxList = 4
    MaxAttempts = 2
SPECIFICATION SeqSpec
INVARIANTS
    KeysFaithful
    StampLands
    DecodesLogged
    BucketsSplitTheHits
    RangeReadOnce
    ConflictRangesHold
    TransactionsOwned
    ListInStep
PROPERTY OthersKept
CHECK_DEADLOCK FALSE
