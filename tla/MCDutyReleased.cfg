\* A duty with a request and one without, and the payout run under fairness.
CONSTANTS
    b1 = b1  b2 = b2  h1 = h1  h2 = h2  k1 = k1  k2 = k2
    Bookings = {b1, b2}
    Requested = {b1}
    Handlers = {h1}
    Runners = {k1}
    Scheduled = 2
    LateShare = 1
    InitialDebt = 1
    Calls = {"duty", "admin", "overtime"}
    MaxCalls = 2
    Crashing = {}
    LostReplies = FALSE
SPECIFICATION FairSpec
INVARIANTS PaidOnce  DebtAccounted
PROPERTIES DuePayoutReleased
