SPECIFICATION Spec
CONSTANTS
    c1 = c1
    c2 = c2
    b1 = b1
    b2 = b2
    None = None
    Calls = {c1, c2}
    Bookings = {b1, b2}
    TotalSeats = 2
    MaxSeats = 1
    AutoAccept = FALSE
    MaxActs = 7
    Serialized = FALSE
INVARIANTS
    
    ShownIsCurrent
SYMMETRY Symmetry
CHECK_DEADLOCK FALSE
