SPECIFICATION Spec
CONSTANTS
    Proc = {p1, p2}
    Transfer = {t1, t2}
    Asset = {a1}
    User = {u1}
    Location = {l1}
    Department = {}
    DeptLocation <- MCNoDeptLocation
    NoUser = NoUser
    NoLocation = NoLocation
    NoDepartment = NoDepartment
    NoTransfer = NoTransfer
    NoOrder = NoOrder
    Allowed <- MCAllowed
    StartStatus = {"ASSIGNED"}
    MayCrash = TRUE
    p1 = p1
    p2 = p2
    t1 = t1
    t2 = t2
    d1 = d1
    d2 = d2
    l1 = l1
    l2 = l2
INVARIANTS
    TypeOK
    CustodyConsistent
    HandoverOnce
    DecisionsStand
    AcknowledgedIsRecorded
    EventsAreTrue
PROPERTIES
    ImplementsLedger
SYMMETRY Symmetry
CHECK_DEADLOCK TRUE
