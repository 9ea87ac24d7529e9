\* A nanny, her administrators and the sweep, one handler at a time.
CONSTANTS
    Workers = {w1}
    Questions = {1, 2}
    Bases = {30, 45}
    ReviewWeight = 12
    Calls <- AllCalls
    MaxDay = 2
    MaxCalls = 3
    MaxPenalties = 2
    MaxFiles = 3
    MaxCrashes = 1
SPECIFICATION FairSpec
INVARIANTS  OneAdmission SuspensionsApart PenaltiesAddUp
 
CHECK_DEADLOCK FALSE
