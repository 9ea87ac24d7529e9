\* Two founders, a parent and a newcomer, and two workers.
CONSTANTS
    Workers = {w1, w2}
    People = {"ann", "bo", "pat", "new"}
    Founders = {"ann", "bo"}
    Parents = {"pat"}
    Levels = {"operations", "superadmin"}
    Rates <- SavedRates
    Hours = {18, 21, 24}
    MaxDay = 2
    MaxCalls = 4
SPECIFICATION Spec
INVARIANTS TeamStaysManaged OneInviteOpen 
PROPERTIES InvitesSettleOnce
CHECK_DEADLOCK FALSE
