SPECIFICATION Spec
CONSTANTS
    d1 = d1
    c1 = c1
    c2 = c2
    f1 = f1
    f2 = f2
    r1 = r1
    r2 = r2
    None = None
    Devices = {d1}
    Calls = {c1, c2}
    Families = {f1, f2}
    RowIds = {r1, r2}
    Life = 2
    MaxTime = 2
INVARIANTS
    SessionsInOrder
    EndedStaysDead
PROPERTY
    DeniedForCause
SYMMETRY Symmetry
CHECK_DEADLOCK FALSE
