\* Two queries and a cancellation of one paid request, one call at a time, with lost replies, crashes and repeated events.
CONSTANTS
    j1 = j1  q1 = q1  q2 = q2  w1 = w1  w2 = w2
    Requests = {1}
    JobOf <- OneJob
    Wage <- WagePaid
    Fee <- FeePaid
    Overtime <- OvertimeCharged
    Queries = {q1, q2}
    Workers = {w1}
    MaxRefunds = 2
    MaxReviews = 3
    Crashing = {w1}
    LostReplies = TRUE
    NoRequest = 0
    NoQuery = NoQuery
SPECIFICATION Spec
SYMMETRY SwapQueries
INVARIANTS  RefundedByOwnRefund QueryRefundsWithinPaid
PROPERTIES RefundFallsWithNotice
