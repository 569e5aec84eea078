SPECIFICATION Spec
CONSTANTS
    j1 = j1
    b1 = b1
    b2 = b2
    asha = asha
    ravi = ravi
    h1 = h1
    h2 = h2
    w1 = w1
    None = None
    Journeys = {j1}
    Passengers = {asha, ravi}
    Serialized = TRUE
    Handlers = {h1, h2}
    Workers = {}
    TotalSeats <- OneSeat
    AutoAccept = {}
    Asked = {"IN_PROGRESS", "COMPLETED", "CANCELLED"}
    Bookings <- Two
    JourneyOf <- ToJourney2
    PassengerOf <- Rivals
    SeatsOf <- OneEach
INVARIANTS
    TypeOK
    SeatLedger
    OverbookingNeedsDoubleReturn
PROPERTY
    ImplementsAtomicSeats
SYMMETRY Symmetry
CHECK_DEADLOCK FALSE
