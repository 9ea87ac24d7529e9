\* Overlapping jobs of two parents for one nanny, one request at a time.
CONSTANTS
    r1 = r1  r2 = r2  r3 = r3  j1 = j1  j2 = j2  p1 = p1  p2 = p2
    n1 = n1  n2 = n2  n3 = n3  h1 = h1  h2 = h2
    Cron = Cron  Nobody = Nobody
    Requests = {r1, r2}
    Groups = {j1, j2}
    Parents = {p1, p2}
    Nannies = {n1}
    Handlers = {h1}
    GroupOf <- TwoJobs
    NannyOf <- OneNanny
    ParentOf <- TwoParents
    Positions <- OnePlace
    Overlaps <- AllPairs
    Touches <- AllPairs
    PreHold <- NoPairs
    Answers = {"deciding", "decline"}
    MaxCharges = 1
    LastPhase = 3
    LostReplies = FALSE
    Crashing = {}
SPECIFICATION FairSpec
INVARIANTS NoDoubleBooking
PROPERTIES ExpiredEventuallyClosed
