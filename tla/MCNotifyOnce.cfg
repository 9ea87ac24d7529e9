\* One note raised by two handlers and swept by two instances.
CONSTANTS
    a = a  b = b  h1 = h1  h2 = h2  i1 = i1  i2 = i2
    Jobs = {"retry"}
    Instances = {i1, i2}
    Lease = 3
    MaxRun = 1
    MaxSkew = 1
    Skew <- OneAhead
    Notes = {a}
    Channels <- ChatThenEmail
    PopUp = {a}
    Handlers = {h1, h2}
    MaxCrashes = 1
    MaxAttempts = 3
    MaxLog = 4
    MaxSwitches = 1
    MaxReports = 2
    LostReplies = TRUE
SPECIFICATION Spec
SYMMETRY SwapHandlers
INVARIANTS DeliveredOnce TestsStayTests 
PROPERTIES ReadOnce ImplementsExclusiveJob
CHECK_DEADLOCK FALSE
