\* two clients and their children; a last piece that is shorter
SPECIFICATION Spec
CONSTANTS
    c1 = c1
    c2 = c2
    Parent = Parent
    CR = "CR"
    LF = "LF"
    Clients <- MCClients
    Killable <- MCKillable
    File <- MCFile
    RequestLen = 2
    PieceLen = 2
    MAXDATASIZE = 2
INVARIANTS
    TypeOK
    OutputIsFile
    OwnConnectionOnly
    EndedIsAnnounced
PROPERTIES
    ClientsEnd
    ChildrenReaped
CHECK_DEADLOCK FALSE
