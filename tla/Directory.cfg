SPECIFICATION Spec
CONSTANTS
    Client = {c1, c2}
    Name = {a, b}
    MaxDepth = 2
    Candidate = {1, 2}
    Manual <- MCNoManual
    MaxContent = 1
    Versions = {"new", "minor", "major"}
    FE = 9
    None = None
SYMMETRY Symmetric
INVARIANTS NothingOrphaned LookupsAgree
PROPERTIES ImplementsTree NewerVersionUntouched
CHECK_DEADLOCK FALSE
