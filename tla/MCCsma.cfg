\* simulations of twelve slots
SPECIFICATION Spec
CONSTANTS
    n1 = n1
    n2 = n2
    n3 = n3
    None = None
    Nodes <- MCNodes
    R <- MCR
    L = 2
    M = 3
    T = 12
SYMMETRY Sym
INVARIANTS
    TypeOK
    SlotsAccounted
    UtilizedByTransmissions
    OneSender
    BackoffInRange
    RangeFollowsCollisions
    CollisionsShared
    AttemptsAccounted
    ReportAddsUp
PROPERTIES
    IsMedium
CHECK_DEADLOCK FALSE
