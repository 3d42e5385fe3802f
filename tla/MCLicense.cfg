SPECIFICATION Spec
CONSTANTS
    Tenant = {t1}
    Plan = {q1, q2}
    Key = {k1}
    Value = {v1}
    Features <- MCFeatures
    EndDay = {0, 1}
    Assigned = {"active"}
    Set = {"canceled"}
    LastDay = 1
    MaxOps = 2
    Same = Same
    NoEnt = NoEnt
    WarningDays = {}
    Recipients <- MCRecipients
    Retention = 0
    MaxFaults = 1
    t1 = t1
    q1 = q1
    q2 = q2
    k1 = k1
    v1 = v1
    r1 = r1
INVARIANTS
    TypeOK
    StatusRecorded
    FeaturesGranted
    MarkedIsMailed
PROPERTIES
    ToldOnce
    ExpiryAnnounced
CHECK_DEADLOCK TRUE
