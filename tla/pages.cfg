SPECIFICATION PagesSpec
CONSTANTS
    v1 = v1
    v2 = v2
    j1 = j1
    j2 = j2
    c1 = c1
    c2 = c2
    a1 = a1
    a2 = a2
    r1 = r1
    r2 = r2
    b1 = b1
    b2 = b2
    o1 = o1
    o2 = o2
    o3 = o3
    q1 = q1
    q2 = q2
    t1 = t1
    t2 = t2
    p1 = p1
    p2 = p2
    s1 = s1
    asha = asha
    u1 = u1
    m1 = m1
    m2 = m2
    k1 = k1
    k2 = k2
    None = None
    Nobody = Nobody
    Vehicles = {v1, v2}
    Journeys = {j1, j2}
    Calls = {c1, c2}
    Capacities = {1, 2}
    MaxFails = 1
    ForeignKeys = FALSE
    Rides = {r1, r2}
    Bookings = {b1, b2}
    RideOf <- OneEach
    Actions = {a1, a2}
    Offers = {o1, o2, o3}
    Price <- PriceOf
    Departs <- DepartsAt
    Seats <- SomeSeats
    Prices = {3, 5}
    NoLimit = 5
    Limit = 1
    Queries = {q1, q2}
    MaxEvents = 1
    Presets <- TwoRoutes
    Distances = {20, 800}
    FuelPrices = {0, 7}
    Tolls <- TypedTolls
    Mileages = {0, 7}
    Totals <- Bills
    MaxPeople = 5
    MaxClicks = 2
    MaxMoves = 2
    MaxEdits = 1
    NoTicket = NoTicket
    Nothing = Nothing
    Tickets = {t1, t2}
    PageCalls = {p1, p2}
    Staff = {s1}
    MaxTexts = 2
    MaxDuties = 2
    MaxFaults = 1
    Users = {asha}
    Trips = {u1}
    Reports = {m1, m2}
    Tasks = {k1, k2}
    MaxChanges = 2
INVARIANTS
    VehiclesAgree
    PublishedOnceAndWhole
    PageIsCurrent
    BestAreShown
    PartsAreFair
    StatusAgrees
    WordsAreStored
    OwnReplyShown
    AuditTellsAll
    NotesBelong
SYMMETRY Symmetry
CHECK_DEADLOCK FALSE
