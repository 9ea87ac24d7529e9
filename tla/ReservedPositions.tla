------------------------- MODULE ReservedPositions -------------------------
(* What accepting an invitation promises the parent (src/app/routers/         *)
(* public.py, 5887-5980): an acceptance takes a position of the job before    *)
(* the card is charged, nobody else takes one or leaves until it has the      *)
(* position or gives it up, and only paid acceptances have positions.         *)
EXTENDS Integers, FiniteSets

CONSTANTS
    Requests,
    GroupOf,     \* [Requests -> jobs]
    Positions    \* [jobs -> how many nannies each asks for]

VARIABLES
    served,      \* the requests that have a position
    reserved,    \* those that are about to
    paid         \* successful charges per request

Rest(r) == {s \in served \ {r} : GroupOf[s] = GroupOf[r]}

Untouched(rs) == \A r \in rs, s \in reserved : GroupOf[r] # GroupOf[s]

Init == served = {} /\ reserved = {} /\ paid = [r \in Requests |-> 0]

Reserve(r) ==
    /\ Untouched({r})
    /\ Cardinality(Rest(r)) < Positions[GroupOf[r]]
    /\ reserved' = reserved \cup {r}
    /\ UNCHANGED <<served, paid>>

Pay(r) ==
    /\ r \in reserved
    /\ paid' = [paid EXCEPT ![r] = @ + 1]
    /\ UNCHANGED <<served, reserved>>

Serve(r) ==
    /\ r \in reserved /\ paid[r] > 0
    /\ served' = served \cup {r}
    /\ reserved' = reserved \ {r}
    /\ UNCHANGED paid

GiveUp(r) ==
    /\ r \in reserved
    /\ reserved' = reserved \ {r}
    /\ UNCHANGED <<served, paid>>

(* Acceptances are cancelled.                                                *)
Leave(rs) ==
    /\ Untouched(rs)
    /\ served' = served \ rs
    /\ UNCHANGED <<reserved, paid>>

Next ==
    \/ \E rs \in SUBSET Requests : Leave(rs)
    \/ \E r \in Requests : Reserve(r) \/ Pay(r) \/ Serve(r) \/ GiveUp(r)

Spec == Init /\ [][Next]_<<served, reserved, paid>>
=============================================================================
