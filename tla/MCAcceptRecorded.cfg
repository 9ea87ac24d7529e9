\* Two overlapping jobs of one parent, two workers, under fairness.
CONSTANTS
    r1 = r1  r2 = r2  r3 = r3  j1 = j1  j2 = j2  p1 = p1  p2 = p2
    n1 = n1  n2 = n2  n3 = n3  h1 = h1  h2 = h2
    Cron = Cron  Nobody = Nobody
    Requests = {r1, r2}
    Groups = {j1, j2}
    Parents = {p1}
    Nannies = {n1, n2}
    Handlers = {h1, h2}
    GroupOf <- TwoJobs
    NannyOf <- OneNannyEach
    ParentOf <- OneParent
    Positions <- OnePlace
    Overlaps <- AllPairs
    Touches <- AllPairs
    PreHold <- NoPairs
    Answers = {}
    MaxCharges = 1
    LastPhase = 0
    LostReplies = TRUE
    Crashing = {h1}
SPECIFICATION FairSpec
PROPERTIES ChargeEventuallyRecorded
