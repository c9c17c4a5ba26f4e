CONSTANTS
    Client = {0, 1, 2}
    Nobody = Nobody
    MCLease = 2
    LeaseOf <- MCLeaseOf
    Longer = 1
    ForeignLonger = 1
    Scripts <- MCScripts
    Horizon = 16
    TimerEps = 1
SPECIFICATION Spec
INVARIANTS OracleAccepts WitnessesSeen
