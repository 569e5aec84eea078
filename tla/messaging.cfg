SPECIFICATION ChatSpec
CONSTANTS
    v1 = v1
    v2 = v2
    m1 = m1
    m2 = m2
    m3 = m3
    l1 = l1
    l2 = l2
    Nil = Nil
    Convs = {v1, v2}
    Messages = {m1, m2}
    Loads = {l1, l2}
    PageSize = 1
    MaxOpens = 2
    MaxCuts = 1
INVARIANTS
    NothingMissed
    ShownFaithfully
    ReadWasShown
SYMMETRY Symmetry
CHECK_DEADLOCK FALSE
