SPECIFICATION Spec
CONSTANTS
    Client = {c1, c2}
    Call = {k1, k2}
    Solo = {c2}
    SmallWindow = 3
    MediumWindow = 3
    LargeWindow = 5
    SmallBelow = 2
    MediumBelow = 5
    MaxStart = 3
    MaxCount = 3
SYMMETRY Symmetric
INVARIANTS UniqueAllocations GrantsRemembered
CHECK_DEADLOCK FALSE
