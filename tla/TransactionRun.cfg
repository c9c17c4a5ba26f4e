CONSTANTS
    RetryLimit = 3
    UserVersions = 2
    Kinds = {"read", "grv"}
    MaxBudgets = 1
    MaxPending = 1
    LateRetries = 1
    None = None
SPECIFICATION MCSpec
INVARIANTS AtMostOneEffect AttemptsApart ReportTellsTheRun
PROPERTY RunEnds
CHECK_DEADLOCK FALSE
