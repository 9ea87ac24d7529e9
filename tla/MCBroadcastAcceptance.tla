----------------------- MODULE MCBroadcastAcceptance -----------------------
(* Instances of BroadcastAcceptance for TLC: one job, and two jobs of the     *)
(* same or of different parents.                                              *)
EXTENDS BroadcastAcceptance, TLC

CONSTANTS r1, r2, r3, j1, j2, p1, p2, n1, n2, n3, h1, h2

(* One job that invites every request's nanny.                               *)
OneJob == [r \in Requests |-> j1]
OneParent == [g \in Groups |-> p1]
OneNannyEach == [r \in Requests |-> CASE r = r1 -> n1 [] r = r2 -> n2 [] OTHER -> n3]
OnePlace == [g \in Groups |-> 1]
TwoPlaces == [g \in Groups |-> 2]

(* Two jobs with one or two invitations, whose windows overlap.              *)
TwoJobs == [r \in Requests |-> IF r = r1 THEN j1 ELSE j2]
TwoParents == [g \in Groups |-> IF g = j1 THEN p1 ELSE p2]
OneNanny == [r \in Requests |-> n1]
AllPairs == Groups \X Groups
NoPairs == {}

SwapHandlers == Permutations(Handlers)
SwapInvitations == Permutations(Requests) \cup SwapHandlers
============================================================================
