SPECIFICATION FairSpec
CONSTANTS
    Proc = {p1, p2}
    Transfer = {t1, t2}
    Asset = {a1}
    User = {u1}
    Location = {l1}
    Department = {}
    DeptLocation <- MCNoDeptLocation
    NoUser = NoUser
    NoLocation = NoLocation
    NoDepartment = NoDepartment
    NoTransfer = NoTransfer
    NoOrder = NoOrder
    Allowed <- MCAllowed
    StartStatus = {"IN_STOCK"}
    MayCrash = FALSE
    p1 = p1
    p2 = p2
    t1 = t1
    t2 = t2
    d1 = d1
    d2 = d2
    l1 = l1
    l2 = l2
PROPERTIES
    EveryRequestEnds
    HandoversGetRecorded
CHECK_DEADLOCK TRUE
