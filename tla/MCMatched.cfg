\* A parent with two devices, a request and a crash; a nanny with two, an
\* administrator and bookings of two parents; reviews.
CONSTANTS
    Workers = {w1, w2}
    Jobs = {j1}
    Positions = {"gate", "door", "gran", "work"}
    Cell <- Houses
    MaxCalls = 4
    MaxCrashes = 1
    Devices = {e1, e2}
    Days = {1, 2}
    Hours <- MorningAndNight
    DayLen = 12
    Shift = 2
    Hold = 5
    Clients = {c1, c2}
    Given <- OneEvening
    MaxEdits = 2
    Nannies = {1, 2, 3}
    Planner = 1
    Away <- Distances
    Stars = {0, 3, 4}
    Reviewed <- OneReviewEach
    Radius = 300
    MaxReviews = 3
SPECIFICATION MatchingSpec
INVARIANTS  ServedWhereAsked   
CHECK_DEADLOCK FALSE
