SPECIFICATION Spec
CONSTANTS
    Proc = {p1, p2}
    User = {u1, u2}
    Email = {e1, e2}
    Person = {x1, x2}
    Session = {s1, s2}
    State = {f1, f2}
    Code = {c1, c2, c3}
    FlowOf <- MCFlowOf
    PersonOf <- MCPersonOf
    Patient = TRUE
    NoUser = NoUser
    NoEmail = NoEmail
    NoPerson = NoPerson
    NoSession = NoSession
    NoCode = NoCode
    x1 = x1
    x2 = x2
    e1 = e1
    e2 = e2
    p1 = p1
    p2 = p2
    s1 = s1
    s2 = s2
    s3 = s3
    c1 = c1
    c2 = c2
    c3 = c3
    f1 = f1
    f2 = f2
    u1 = u1
    u2 = u2
INVARIANTS
    TypeOK
    OneLivePerLogin
    SignInsAccountedFor
    SignedInAsThemselves
PROPERTY StateNotReplayed
SYMMETRY Symmetry
CHECK_DEADLOCK TRUE
