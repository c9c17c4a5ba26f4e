SPECIFICATION Spec
CONSTANTS
    Future = {f1}
    Task = {a, b}
    Moving = {f1}
    None = None
INVARIANT HolderWoken
CHECK_DEADLOCK FALSE
