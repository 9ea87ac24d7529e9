\* One duty and one request at a time, through every call; refunds may fail.
CONSTANTS
    b1 = b1  b2 = b2  h1 = h1  h2 = h2  k1 = k1  k2 = k2
    Bookings = {b1}
    Requested = {b1}
    Handlers = {h1}
    Runners = {}
    Scheduled = 2
    LateShare = 1
    InitialDebt = 0
    Calls = {"duty", "confirm", "deny", "overtime", "dispute", "cancel", "admin", "status", "queries"}
    MaxCalls = 2
    Crashing = {}
    LostReplies = FALSE
SPECIFICATION Spec
INVARIANTS TypeOK PayableForService RefundedOnce
CHECK_DEADLOCK FALSE
