SPECIFICATION Spec
CONSTANTS
    j1 = j1
    dev = dev
    asha = asha
    ravi = ravi
    mina = mina
    c1 = c1
    c2 = c2
    None = None
    Users = {dev, asha, ravi, mina}
    Journeys = {j1}
    DriverOf <- DevDrives
    Calls = {c1, c2}
    Requests <- AllWrite
    Booked <- Bookings
    Changers = {mina}
    MaxAgain = 1
    MaxHalfDone = 1
INVARIANTS
    CountsAgree
    RatingNearMean
    
SYMMETRY Symmetry
CHECK_DEADLOCK FALSE
