\* A nanny with a passport edits its expiry date.
CONSTANTS
    Workers = {w1}
    Questions = {1, 2}
    Bases = {30, 45}
    ReviewWeight = 12
    Calls <- AllCalls
    MaxDay = 2
    MaxCalls = 2
    MaxPenalties = 2
    MaxFiles = 3
    MaxCrashes = 1
SPECIFICATION Spec
INVARIANTS DeadlineKept
CHECK_DEADLOCK FALSE
