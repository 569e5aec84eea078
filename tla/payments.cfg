SPECIFICATION Spec
CONSTANTS
    b1 = b1
    b2 = b2
    o1 = o1
    o2 = o2
    h1 = h1
    h2 = h2
    None = None
    Unknown = Unknown
    Bookings = {b1, b2}
    Orders = {o1, o2}
    Handlers = {h1, h2}
    Gateways = {"RAZORPAY", "STRIPE"}
    Price = 2
    MaxCalls = 5
    Crashes = TRUE
INVARIANTS
    TypeOK
    CapturedIsPaid
    
    RefundStatusBacked
PROPERTY
    RevivalWasPaid
SYMMETRY Symmetry
CHECK_DEADLOCK FALSE
