SPECIFICATION FairSpec
CONSTANTS
    j1 = j1
    b1 = b1
    b2 = b2
    asha = asha
    ravi = ravi
    h1 = h1
    h2 = h2
    w1 = w1
    None = None
    Journeys = {j1}
    Passengers = {asha, ravi}
    Serialized = FALSE
    Handlers = {h1}
    Workers = {w1}
    TotalSeats <- OneSeat
    AutoAccept = {}
    Asked = {"COMPLETED", "CANCELLED"}
    Bookings <- Two
    JourneyOf <- ToJourney2
    PassengerOf <- Rivals
    SeatsOf <- OneEach
INVARIANT
    SeatsNeverNegative
PROPERTIES
    StaleRequestsExpire
    DepartedJourneysSettle
