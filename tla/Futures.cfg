CONSTANTS
    Future = {f1, f2}
    Task = {a, b}
    Moving = {f2}
    SimTask = {t1, t2, t3}
    SimFuture = {g1, g2}
    Steps = 3
    Yields = FALSE
    None = None
SPECIFICATION MCSpec
INVARIANT NoLostWakeup
PROPERTY AllResolve
CHECK_DEADLOCK FALSE
