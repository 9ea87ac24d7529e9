\* Jobs of one parent for two nannies, one call at a time.
CONSTANTS
    p1 = p1  p2 = p2  n1 = n1  n2 = n2  w1 = w1  w2 = w2
    Requests = {1, 2}
    Parents = {p1}
    Nannies = {n1, n2}
    Windows = {1, 2}
    Offered <- Everywhere
    MaxPositions = 1
    MaxBookings = 2
    MaxEntered = 1
    MaxCharges = 1
    Workers = {w1}
    Crashing = {w1}
    LostReplies = TRUE
    Calls = {"create", "schedule", "approve", "reject", "assign", "cancel", "accept", "retry", "paid", "booking"}
    NoRequest = 0
    Nobody = Nobody
SPECIFICATION Spec
SYMMETRY SwapNannies
INVARIANTS  OpenForOneTime
PROPERTIES  AssignedApart
CHECK_DEADLOCK FALSE
