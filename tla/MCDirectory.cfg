SPECIFICATION Spec
CONSTANTS
    Node = {c1, c2, p1, l1, d1, a1}
    Level <- MCLevel
    Parent <- MCParent
    FirstLabel <- MCFirstLabel
    Label = {z}
    Code = {x, y, z}
    User = {u1, u2}
    Email = {e1, e2}
    Session = {s1}
    Scope <- MCScope
    MaxOps = 2
    Nobody = Nobody
    c1 = c1
    c2 = c2
    p1 = p1
    l1 = l1
    d1 = d1
    a1 = a1
    x = x
    y = y
INVARIANTS
    TypeOK
    OrphansAreLate
    OneRowPerAddress
    DeactivatedIsOut
PROPERTIES
    ScopeRespected
CHECK_DEADLOCK FALSE
SYMMETRY MCSymmetry
