--------------------------- MODULE RefundsProofs ---------------------------
(* Proofs about Refunds, for any number of jobs, requests, queries, workers,  *)
(* amounts and refunds, while no two handlers are at work on the same job:    *)
(* holds follow the queries, a query is closed by its own refund, grants stay *)
(* within what was paid, and a cancellation splits it.                        *)
EXTENDS Refunds, FiniteSetTheorems, TLAPS

----------------------------------------------------------------------------
(* Sums over finite sets: they exist, do not depend on the order of the terms *)
(* and change by what one term changes.  The induction over the subsets of a  *)
(* set is by smallest counterexample, which needs no operator as a parameter. *)

First(s) == CHOOSE x \in s : TRUE

(* f sums g over each subset of S, the way MapThenSumSet does.                *)
Sums(g, S, f) ==
    f = [s \in SUBSET S |-> IF s = {} THEN 0 ELSE g[First(s)] + f[s \ {First(s)}]]

SumOver(g, S) == (CHOOSE f : Sums(g, S, f))[S]

(* A nonempty set of subsets of a finite set has a smallest one.              *)
LEMMA Smallest ==
    ASSUME NEW S, IsFiniteSet(S), NEW D \in SUBSET SUBSET S, D # {}
    PROVE  \E s \in D : \A t \in D : t \subseteq s => t = s
  <1>1. IsWellFoundedOn(StrictSubsetOrdering(S), SUBSET S)
    BY FS_FiniteSubsetsOfFinite, FS_StrictSubsetOrderingWellFounded
  <1>2. PICK s \in D : \A t \in D : <<t, s>> \notin StrictSubsetOrdering(S)
    BY <1>1, WFMin, Zenon
  <1>3. \A t \in D : t \subseteq s => t = s
    BY <1>2 DEF StrictSubsetOrdering
  <1> QED
    BY <1>3

LEMMA FirstIn == \A s : s # {} => First(s) \in s
  BY DEF First

LEMMA SumsUnique ==
    ASSUME NEW S, IsFiniteSet(S), NEW g, NEW f, NEW h, Sums(g, S, f), Sums(g, S, h)
    PROVE  f = h
  <1> PICK D : D = {s \in SUBSET S : f[s] # h[s]}
    OBVIOUS
  <1>0. /\ f = [s \in SUBSET S |-> IF s = {} THEN 0 ELSE g[First(s)] + f[s \ {First(s)}]]
        /\ h = [s \in SUBSET S |-> IF s = {} THEN 0 ELSE g[First(s)] + h[s \ {First(s)}]]
    BY DEF Sums
  <1>a. /\ DOMAIN f = SUBSET S /\ DOMAIN h = SUBSET S
        /\ \A s \in SUBSET S : f[s] = IF s = {} THEN 0 ELSE g[First(s)] + f[s \ {First(s)}]
        /\ \A s \in SUBSET S : h[s] = IF s = {} THEN 0 ELSE g[First(s)] + h[s \ {First(s)}]
    BY <1>0
  <1>1. ASSUME D # {} PROVE FALSE
    <2>1. PICK s \in D : \A t \in D : t \subseteq s => t = s
      BY <1>1, Smallest
    <2>2. s # {} /\ s \in SUBSET S
      BY <1>a, <2>1
    <2>3. s \ {First(s)} \in SUBSET S /\ s \ {First(s)} # s
      BY <2>2, FirstIn
    <2>4. f[s \ {First(s)}] = h[s \ {First(s)}]
      BY <2>1, <2>3
    <2>5. f[s] = h[s]
      BY <1>a, <2>2, <2>4
    <2> QED
      BY <2>1, <2>5
  <1>2. \A s \in SUBSET S : f[s] = h[s]
    BY <1>1
  <1> QED
    BY <1>0, <1>2, <1>a

LEMMA SumsWithin ==
    ASSUME NEW S, NEW g, NEW f, Sums(g, S, f), NEW T \in SUBSET S,
           NEW h, h = [s \in SUBSET T |-> f[s]]
    PROVE  Sums(g, T, h)
  <1>0. f = [s \in SUBSET S |-> IF s = {} THEN 0 ELSE g[First(s)] + f[s \ {First(s)}]]
    BY DEF Sums
  <1>1. \A s \in SUBSET T :
           h[s] = IF s = {} THEN 0 ELSE g[First(s)] + h[s \ {First(s)}]
    <2> TAKE s \in SUBSET T
    <2>1. s \in SUBSET S /\ s \ {First(s)} \in SUBSET T
      OBVIOUS
    <2>2. f[s] = IF s = {} THEN 0 ELSE g[First(s)] + f[s \ {First(s)}]
      BY <1>0, <2>1
    <2> QED
      BY <2>1, <2>2
  <1>2. h = [s \in SUBSET T |-> IF s = {} THEN 0 ELSE g[First(s)] + h[s \ {First(s)}]]
    BY <1>1
  <1> QED
    BY <1>2 DEF Sums

LEMMA SumsStep ==
    ASSUME NEW g, NEW T, IsFiniteSet(T),
           \A t \in SUBSET T : t # T => \E f : Sums(g, t, f)
    PROVE  \E f : Sums(g, T, f)
  <1>2. \A t \in SUBSET T : t # T => \E f : Sums(g, t, f)
    OBVIOUS
  <1> PICK h : h = [t \in SUBSET T |-> SumOver(g, t)]
    OBVIOUS
  <1>3. ASSUME NEW t \in SUBSET T, t # T
        PROVE  h[t] = IF t = {} THEN 0 ELSE g[First(t)] + h[t \ {First(t)}]
    <2> PICK f : f = (CHOOSE q : Sums(g, t, q))
      OBVIOUS
    <2>1. Sums(g, t, f)
      BY <1>2, <1>3
    <2>2. h[t] = f[t]
      BY DEF SumOver
    <2>3. f[t] = IF t = {} THEN 0 ELSE g[First(t)] + f[t \ {First(t)}]
      BY <2>1 DEF Sums
    <2>4. CASE t # {}
      <3> PICK u : u = t \ {First(t)}
        OBVIOUS
      <3>1. u \in SUBSET t /\ u # T /\ u \in SUBSET T
        BY <1>3, <2>4, FirstIn
      <3> PICK q : q = (CHOOSE p : Sums(g, u, p))
        OBVIOUS
      <3>2. Sums(g, u, q)
        BY <1>2, <3>1
      <3> PICK p : p = [s \in SUBSET u |-> f[s]]
        OBVIOUS
      <3>3. Sums(g, u, p)
        BY <2>1, <3>1, SumsWithin
      <3>4. IsFiniteSet(u)
        BY <3>1, FS_Subset
      <3>5. q = p
        BY <3>2, <3>3, <3>4, SumsUnique
      <3>6. q[u] = f[u]
        BY <3>5
      <3>7. h[u] = q[u]
        BY <3>1 DEF SumOver
      <3> QED
        BY <2>2, <2>3, <2>4, <3>6, <3>7
    <2> QED
      BY <2>2, <2>3, <2>4
  <1> PICK f : f = [t \in SUBSET T |-> IF t = {} THEN 0 ELSE g[First(t)] + h[t \ {First(t)}]]
    OBVIOUS
  <1>4. \A t \in SUBSET T : t # T => f[t] = h[t]
    BY <1>3
  <1>5. \A t \in SUBSET T :
           f[t] = IF t = {} THEN 0 ELSE g[First(t)] + f[t \ {First(t)}]
    <2> TAKE t \in SUBSET T
    <2>1. f[t] = IF t = {} THEN 0 ELSE g[First(t)] + h[t \ {First(t)}]
      OBVIOUS
    <2>2. t # {} => t \ {First(t)} \in SUBSET T /\ t \ {First(t)} # T
      BY FirstIn
    <2> QED
      BY <1>4, <2>1, <2>2
  <1>6. f = [t \in SUBSET T |-> IF t = {} THEN 0 ELSE g[First(t)] + f[t \ {First(t)}]]
    BY <1>5
  <1> QED
    BY <1>6 DEF Sums

Unsummed(g, S) == {s \in SUBSET S : ~\E f : Sums(g, s, f)}

LEMMA SumsExist ==
    ASSUME NEW S, IsFiniteSet(S), NEW g
    PROVE  \E f : Sums(g, S, f)
  <1>1. ASSUME Unsummed(g, S) # {} PROVE FALSE
    <2>0. Unsummed(g, S) \in SUBSET SUBSET S
      BY DEF Unsummed
    <2>1. PICK T \in Unsummed(g, S) : \A t \in Unsummed(g, S) : t \subseteq T => t = T
      BY <1>1, <2>0, Smallest
    <2>2. \A t \in SUBSET T : t # T => \E f : Sums(g, t, f)
      BY <2>0, <2>1 DEF Unsummed
    <2>3. IsFiniteSet(T)
      BY <2>0, <2>1, FS_Subset
    <2>4. \E f : Sums(g, T, f)
      BY <2>2, <2>3, SumsStep
    <2> QED
      BY <2>1, <2>4 DEF Unsummed
  <1> QED
    BY <1>1 DEF Unsummed

LEMMA SumOverSplits ==
    ASSUME NEW S, IsFiniteSet(S), NEW g
    PROVE  SumOver(g, S) = IF S = {} THEN 0 ELSE g[First(S)] + SumOver(g, S \ {First(S)})
  <1> PICK f : f = (CHOOSE q : Sums(g, S, q))
    OBVIOUS
  <1>1. Sums(g, S, f)
    BY SumsExist
  <1>2. f[S] = IF S = {} THEN 0 ELSE g[First(S)] + f[S \ {First(S)}]
    BY <1>1 DEF Sums
  <1> PICK T : T = S \ {First(S)}
    OBVIOUS
  <1>3. T \in SUBSET S /\ IsFiniteSet(T)
    BY FS_Subset
  <1> PICK h : h = (CHOOSE q : Sums(g, T, q))
    OBVIOUS
  <1>4. Sums(g, T, h)
    BY <1>3, SumsExist
  <1> PICK p : p = [s \in SUBSET T |-> f[s]]
    OBVIOUS
  <1>5. Sums(g, T, p)
    BY <1>1, <1>3, SumsWithin
  <1>6. h = p
    BY <1>3, <1>4, <1>5, SumsUnique
  <1>7. h[T] = f[T]
    BY <1>6
  <1> QED
    BY <1>2, <1>7 DEF SumOver

Missing(S, G) == (SUBSET S) \ G

(* Of the subsets that are not in G there is a smallest one.                  *)
LEMMA FirstMissing ==
    ASSUME NEW S, IsFiniteSet(S), NEW G, ~(SUBSET S \subseteq G)
    PROVE  \E s \in SUBSET S : s \notin G /\ \A t \in SUBSET s : t # s => t \in G
  <1>1. Missing(S, G) \in SUBSET SUBSET S /\ Missing(S, G) # {}
    BY DEF Missing
  <1>a. \A s \in Missing(S, G) : s \in SUBSET S /\ s \notin G
    BY DEF Missing
  <1>2. PICK s \in Missing(S, G) : \A t \in Missing(S, G) : t \subseteq s => t = s
    BY <1>1, Smallest
  <1>3. s \in SUBSET S /\ s \notin G
    BY <1>a
  <1>4. \A t \in SUBSET s : t # s => t \in G
    <2> TAKE t \in SUBSET s
    <2>1. t \in SUBSET S
      BY <1>3
    <2> QED
      BY <1>2, <2>1 DEF Missing
  <1> QED
    BY <1>3, <1>4

(* A set of subsets is all of them when it has each whose smaller ones it has. *)
LEMMA AllSubsets ==
    ASSUME NEW S, IsFiniteSet(S), NEW G,
           \A s \in SUBSET S : (\A t \in SUBSET s : t # s => t \in G) => s \in G
    PROVE  SUBSET S \subseteq G
  BY FirstMissing

Counted(g, S) == \A x \in S : g[x] \in Int

Summable(g, S) == {s \in SUBSET S : SumOver(g, s) \in Int}

LEMMA SumOverFits ==
    ASSUME NEW S, IsFiniteSet(S), NEW g, Counted(g, S)
    PROVE  SumOver(g, S) \in Int
  <1>1. ASSUME NEW s \in SUBSET S, \A t \in SUBSET s : t # s => t \in Summable(g, S)
        PROVE  s \in Summable(g, S)
    <2>1. IsFiniteSet(s)
      BY FS_Subset
    <2>2. SumOver(g, s) = IF s = {} THEN 0 ELSE g[First(s)] + SumOver(g, s \ {First(s)})
      BY <2>1, SumOverSplits
    <2>3. s # {} => g[First(s)] \in Int /\ SumOver(g, s \ {First(s)}) \in Int
      BY <1>1, FirstIn DEF Counted, Summable
    <2> QED
      BY <2>2, <2>3 DEF Summable
  <1>2. SUBSET S \subseteq Summable(g, S)
    BY <1>1, AllSubsets
  <1> QED
    BY <1>2 DEF Summable

(* Functions that agree on a set have the same sum over it.                   *)
Alike(g, h, S) == {s \in SUBSET S : SumOver(g, s) = SumOver(h, s)}

LEMMA SumOverSame ==
    ASSUME NEW S, IsFiniteSet(S), NEW g, NEW h, \A x \in S : g[x] = h[x]
    PROVE  SumOver(g, S) = SumOver(h, S)
  <1>1. ASSUME NEW s \in SUBSET S, \A t \in SUBSET s : t # s => t \in Alike(g, h, S)
        PROVE  s \in Alike(g, h, S)
    <2>1. IsFiniteSet(s)
      BY FS_Subset
    <2>2. /\ SumOver(g, s) = IF s = {} THEN 0 ELSE g[First(s)] + SumOver(g, s \ {First(s)})
          /\ SumOver(h, s) = IF s = {} THEN 0 ELSE h[First(s)] + SumOver(h, s \ {First(s)})
      BY <2>1, SumOverSplits
    <2>3. s # {} => /\ g[First(s)] = h[First(s)]
                    /\ SumOver(g, s \ {First(s)}) = SumOver(h, s \ {First(s)})
      BY <1>1, FirstIn DEF Alike
    <2> QED
      BY <2>2, <2>3 DEF Alike
  <1>2. SUBSET S \subseteq Alike(g, h, S)
    BY <1>1, AllSubsets
  <1> QED
    BY <1>2 DEF Alike

(* The sum does not depend on the order in which its terms are taken.         *)
Orderless(g, S) ==
    {s \in SUBSET S : \A x \in s : SumOver(g, s) = g[x] + SumOver(g, s \ {x})}

(* A sum is any one of its terms and the sum of the others.                   *)
LEMMA SumOverTakes ==
    ASSUME NEW S, IsFiniteSet(S), NEW g, Counted(g, S), NEW x \in S
    PROVE  SumOver(g, S) = g[x] + SumOver(g, S \ {x})
  <1>1. ASSUME NEW s \in SUBSET S, \A t \in SUBSET s : t # s => t \in Orderless(g, S)
        PROVE  s \in Orderless(g, S)
    <2> SUFFICES ASSUME NEW y \in s PROVE SumOver(g, s) = g[y] + SumOver(g, s \ {y})
      BY DEF Orderless
    <2> PICK c : c = First(s)
      OBVIOUS
    <2>1. c \in s /\ s # {} /\ IsFiniteSet(s)
      BY FirstIn, FS_Subset
    <2>2. SumOver(g, s) = g[c] + SumOver(g, s \ {c})
      BY <2>1, SumOverSplits
    <2>3. CASE y # c
      <3>1. SumOver(g, s \ {c}) = g[y] + SumOver(g, (s \ {c}) \ {y})
        <4>1. s \ {c} \in Orderless(g, S)
          BY <1>1, <2>1
        <4> QED
          BY <2>3, <4>1 DEF Orderless
      <3>2. SumOver(g, s \ {y}) = g[c] + SumOver(g, (s \ {y}) \ {c})
        <4>1. s \ {y} \in Orderless(g, S)
          BY <1>1, <2>1
        <4> QED
          BY <2>1, <2>3, <4>1 DEF Orderless
      <3> PICK u : u = (s \ {c}) \ {y}
        OBVIOUS
      <3>3. u = (s \ {y}) \ {c}
        OBVIOUS
      <3>4. g[c] \in Int /\ g[y] \in Int /\ SumOver(g, u) \in Int
        <4>1. IsFiniteSet(u) /\ Counted(g, u)
          BY <2>1, FS_Subset DEF Counted
        <4> QED
          BY <2>1, <4>1, SumOverFits DEF Counted
      <3>5. SumOver(g, s) = g[c] + (g[y] + SumOver(g, u))
        BY <2>2, <3>1
      <3>6. SumOver(g, s \ {y}) = g[c] + SumOver(g, u)
        BY <3>2, <3>3
      <3> QED
        BY <3>4, <3>5, <3>6
    <2> QED
      BY <2>2, <2>3
  <1>2. SUBSET S \subseteq Orderless(g, S)
    BY <1>1, AllSubsets
  <1> QED
    BY <1>2 DEF Orderless

(* The sum changes by what one term changes: a query's grant.                 *)
LEMMA SumOverChanged ==
    ASSUME NEW S, IsFiniteSet(S), NEW g, NEW h, Counted(g, S), Counted(h, S),
           NEW x \in S, \A y \in S \ {x} : h[y] = g[y]
    PROVE  SumOver(h, S) = SumOver(g, S) - g[x] + h[x]
  <1> PICK T : T = S \ {x}
    OBVIOUS
  <1>1. IsFiniteSet(T) /\ Counted(g, T)
    BY FS_Subset DEF Counted
  <1>2. SumOver(g, T) = SumOver(h, T) /\ SumOver(g, T) \in Int
    BY <1>1, SumOverSame, SumOverFits
  <1>3. SumOver(g, S) = g[x] + SumOver(g, T) /\ SumOver(h, S) = h[x] + SumOver(h, T)
    BY SumOverTakes
  <1>4. g[x] \in Int /\ h[x] \in Int
    BY DEF Counted
  <1> QED
    BY <1>2, <1>3, <1>4

(* Terms that are zero may be left out.                                       *)
Trimmed(g, S, R) == {s \in SUBSET S : SumOver(g, s) = SumOver(g, s \cap R)}

LEMMA SumOverTrimmed ==
    ASSUME NEW S, IsFiniteSet(S), NEW g, Counted(g, S),
           NEW R \in SUBSET S, \A x \in S \ R : g[x] = 0
    PROVE  SumOver(g, S) = SumOver(g, R)
  <1>1. ASSUME NEW s \in SUBSET S, \A t \in SUBSET s : t # s => t \in Trimmed(g, S, R)
        PROVE  s \in Trimmed(g, S, R)
    <2>1. IsFiniteSet(s) /\ IsFiniteSet(s \cap R) /\ Counted(g, s \cap R)
      BY FS_Subset DEF Counted
    <2>2. CASE s = {}
      BY <2>2 DEF Trimmed
    <2>3. CASE s # {}
      <3> PICK c : c = First(s)
        OBVIOUS
      <3>1. c \in s /\ s \ {c} \in SUBSET s /\ s \ {c} # s
        BY <2>3, FirstIn
      <3>2. SumOver(g, s) = g[c] + SumOver(g, s \ {c})
        BY <2>1, <2>3, SumOverSplits
      <3> PICK u : u = (s \ {c}) \cap R
        OBVIOUS
      <3>3. SumOver(g, s \ {c}) = SumOver(g, u)
        BY <1>1, <3>1 DEF Trimmed
      <3>4. SumOver(g, u) \in Int
        <4>1. IsFiniteSet(u) /\ Counted(g, u)
          BY <2>1, FS_Subset DEF Counted
        <4> QED
          BY <4>1, SumOverFits
      <3>5. CASE c \in R
        <4>1. u = (s \cap R) \ {c} /\ c \in s \cap R
          BY <3>1, <3>5
        <4>2. SumOver(g, s \cap R) = g[c] + SumOver(g, u)
          BY <2>1, <4>1, SumOverTakes
        <4> QED
          BY <3>2, <3>3, <4>2 DEF Trimmed
      <3>6. CASE c \notin R
        <4>1. u = s \cap R /\ g[c] = 0
          BY <3>1, <3>6
        <4>2. SumOver(g, s) = SumOver(g, u)
          BY <3>2, <3>3, <3>4, <4>1
        <4> QED
          BY <4>1, <4>2 DEF Trimmed
      <3> QED
        BY <3>5, <3>6
    <2> QED
      BY <2>2, <2>3
  <1>2. SUBSET S \subseteq Trimmed(g, S, R)
    BY <1>1, AllSubsets
  <1>3. S \cap R = R
    OBVIOUS
  <1> QED
    BY <1>2, <1>3 DEF Trimmed

----------------------------------------------------------------------------
(* The inductive invariant                                                   *)

RequestRow == [status : {"approved", "cancelled"},
               refund : {"none", "pending_review", "pending", "processed", "failed", "denied"},
               cents : Nat, kept : Nat \cup {Unset}, ref : Nat]

QueryRow == [status : {"unused", "open", "refund_requested", "failed", "refunded", "denied"},
             request : Requests \cup {NoRequest}, item : Items, charge : Nat,
             disputed : Nat, approved : Nat, ref : Nat, reviewed : 0..MaxReviews]

LedgerRow == [request : Requests, amount : Nat, state : {"pending", "processed", "failed"}]

OnQueries == [phase : {"call", "write"}, on : {"query"}, id : Queries, seen : QueryRow,
              new : QueryRow, hold : BOOLEAN]
OnRequests == [phase : {"call", "write"}, on : {"request"}, id : Requests,
               seen : RequestRow, new : RequestRow]
Sessions == {Idle} \cup OnQueries \cup OnRequests

Typed ==
    /\ request \in [Requests -> RequestRow]
    /\ query \in [Queries -> QueryRow]
    /\ hold \in [Jobs -> BOOLEAN]
    /\ ledger \in Seq(LedgerRow)

(* The job whose rows the session s is to change.                             *)
JobIn(s) == JobOf[IF s.on = "query" THEN s.new.request ELSE s.id]

(* No two handlers are at work on the same job.                               *)
JobsApart ==
    \A v, w \in Workers :
        v # w /\ sess[v] # Idle /\ sess[w] # Idle => JobIn(sess[v]) # JobIn(sess[w])

(* A query's reference is a refund on its transaction, which Paystack has     *)
(* processed if the query is closed by it, and which failed if the query is   *)
(* open again.                                                               *)
QueryFits(x) ==
    /\ x.status # "unused" => x.request \in Requests
    /\ x.status = "refunded" => x.ref # NoRef
    /\ x.ref # NoRef =>
        /\ x.status # "unused"
        /\ x.ref \in DOMAIN ledger
        /\ ledger[x.ref].request = x.request
        /\ x.status = "refunded" => ledger[x.ref].state = "processed"
        /\ x.status \notin {"refunded", "refund_requested"} => ledger[x.ref].state = "failed"

(* No query but q has the reference that x has.                               *)
OwnRef(q, x) == x.ref # NoRef => \A p \in Queries \ {q} : query[p].ref # x.ref

QueriesFit == \A q \in Queries : QueryFits(query[q]) /\ OwnRef(q, query[q])

(* What x grants on request r, and what every query does.                     *)
Granted(x, r) ==
    IF x.request = r /\ x.status \in {"refund_requested", "refunded"} THEN x.approved ELSE 0
GrantedOn(r) == [q \in Queries |-> Granted(query[q], r)]
AllGranted(r) == SumOver(GrantedOn(r), Queries)

GrantsWithin == \A r \in Requests : AllGranted(r) <= Total(r)

(* What a session has read is still so, and what it is about to write keeps   *)
(* the rows as they should be.                                               *)
WritesQuery(s) ==
    /\ s.seen = query[s.id]
    /\ QueryFits(s.new) /\ OwnRef(s.id, s.new)
    /\ s.new.status # "unused"
    /\ s.seen.status # "unused" => s.new.request = s.seen.request
    /\ s.phase = "call" =>
        /\ s.new.status \in {"open", "failed"} /\ s.seen.status = s.new.status
        /\ AllGranted(s.new.request) + s.new.approved <= Total(s.new.request)
    /\ s.phase = "write" =>
        /\ s.hold = Held(s.id, s.new)
        /\ AllGranted(s.new.request) - Granted(s.seen, s.new.request)
                + Granted(s.new, s.new.request) <= Total(s.new.request)

WritesRequest(s) ==
    /\ s.seen = request[s.id]
    /\ s.new.kept = s.seen.kept \/ (s.new.cents + s.new.kept = Total(s.id) /\ s.phase = "write")

SessionFits(s) ==
    /\ s \in Sessions
    /\ s \in OnQueries => WritesQuery(s)
    /\ s \in OnRequests => WritesRequest(s)

SessionsFit == DOMAIN sess = Workers /\ \A w \in Workers : SessionFits(sess[w])

(* No two handlers are at work on the same query.                             *)
QueriesApart ==
    \A v, w \in Workers :
        v # w /\ sess[v] \in OnQueries /\ sess[w] \in OnQueries => sess[v].id # sess[w].id

RInv == Typed /\ QueriesFit /\ HeldWhileQueried /\ GrantsWithin /\ SessionsFit

----------------------------------------------------------------------------
(* Numbers                                                                   *)

LEMMA LeastIn ==
    ASSUME NEW S \in SUBSET Nat, S # {}
    PROVE  Min(S) \in S /\ \A y \in S : Min(S) <= y
  <1> DEFINE Less == {n \in Nat \X Nat : n[1] < n[2]}
  <1>1. IsWellFoundedOn(Less, Nat)
    BY NatLessThanWellFounded DEF OpToRel
  <1>2. PICK x \in S : \A y \in S : ~ (<<y, x>> \in Less)
    BY <1>1, WFMin
  <1>3. \A y \in S : ~ (y < x)
    BY <1>2
  <1>4. \A y \in S : x <= y
    BY <1>3
  <1> QED
    BY <1>2, <1>4 DEF Min

LEMMA GreatestIn ==
    ASSUME NEW N \in Nat, NEW S \in SUBSET (0..N), S # {}
    PROVE  Max(S) \in S
  <1>1. \A x \in S : x \in Nat /\ N - x \in Nat
    OBVIOUS
  <1> DEFINE T == {N - x : x \in S}
  <1>2. T \in SUBSET Nat /\ T # {}
    BY <1>1
  <1>3. PICK m \in T : \A t \in T : m <= t
    BY <1>2, LeastIn
  <1>4. PICK x \in S : N - x = m
    BY <1>3
  <1>5. ASSUME NEW y \in S PROVE x >= y
    <2>1. N - x <= N - y
      BY <1>3, <1>4
    <2> QED
      BY <1>1, <2>1
  <1> QED
    BY <1>4, <1>5 DEF Max

(* What is kept of a cancelled request is a part of what was paid.            *)
LEMMA ShareWithin ==
    \A n \in Nat : /\ Share(n, 30) \in 0..n /\ Share(n, 50) \in 0..n /\ Share(n, 75) \in 0..n
                   /\ Share(n, 50) <= Share(n, 75)
  BY DEF Share

LEMMA RetainedWithin ==
    ASSUME NEW wage \in Nat, NEW fee \in Nat, NEW c \in Scenario
    PROVE  /\ Retained(wage, fee, c).company \in 0..fee
           /\ Retained(wage, fee, c).nanny \in 0..wage
  BY ShareWithin DEF Retained, Scenario

LEMMA RefundFalls ==
    ASSUME NEW wage \in Nat, NEW fee \in Nat
    PROVE  /\ ParentRefund(wage, fee, "A") = wage + fee
           /\ ParentRefund(wage, fee, "A") >= ParentRefund(wage, fee, "B")
           /\ ParentRefund(wage, fee, "B") >= ParentRefund(wage, fee, "C")
           /\ ParentRefund(wage, fee, "C") >= 0
  BY ShareWithin DEF ParentRefund, Retained

LEMMA TotalFits == \A r \in Requests : Total(r) \in Nat /\ Wage[r] \in Nat /\ Fee[r] \in Nat
  BY RequestsTyped DEF Total

----------------------------------------------------------------------------
(* What queries grant                                                        *)

LEMMA GrantedFits ==
    ASSUME Typed, NEW r
    PROVE  /\ Counted(GrantedOn(r), Queries) /\ AllGranted(r) \in Int
           /\ \A q \in Queries : Granted(query[q], r) \in Nat
  <1>1. \A q \in Queries : Granted(query[q], r) \in Nat
    BY DEF Typed, QueryRow, Granted
  <1>2. Counted(GrantedOn(r), Queries)
    BY <1>1 DEF Counted, GrantedOn
  <1> QED
    BY <1>1, <1>2, RequestsTyped, SumOverFits DEF AllGranted

(* One query changed.                                                        *)
LEMMA GrantChanged ==
    ASSUME Typed, NEW q \in Queries, NEW x \in QueryRow, query' = [query EXCEPT ![q] = x], NEW r
    PROVE  AllGranted(r)' = AllGranted(r) - Granted(query[q], r) + Granted(x, r)
  <1> PICK g, h : g = GrantedOn(r) /\ h = [p \in Queries |-> Granted(query'[p], r)]
    OBVIOUS
  <1>1. Counted(g, Queries)
    BY GrantedFits
  <1>2. query'[q] = x /\ \A p \in Queries \ {q} : query'[p] = query[p]
    BY DEF Typed
  <1>3. Granted(x, r) \in Nat
    BY DEF QueryRow, Granted
  <1>4. h[q] = Granted(x, r) /\ g[q] = Granted(query[q], r) /\ \A p \in Queries \ {q} : h[p] = g[p]
    BY <1>2 DEF GrantedOn
  <1>5. Counted(h, Queries)
    BY <1>1, <1>3, <1>4 DEF Counted
  <1>6. SumOver(h, Queries) = SumOver(g, Queries) - g[q] + h[q]
    BY <1>1, <1>4, <1>5, RequestsTyped, SumOverChanged
  <1>7. AllGranted(r)' = SumOver(h, Queries) /\ AllGranted(r) = SumOver(g, Queries)
    BY DEF AllGranted, GrantedOn, Granted
  <1> QED
    BY <1>4, <1>6, <1>7

LEMMA GrantKept ==
    ASSUME UNCHANGED query, NEW r
    PROVE  AllGranted(r)' = AllGranted(r)
  BY DEF AllGranted, GrantedOn, Granted

(* The sums of the model are the ones of the lemmas.                          *)
LEMMA ApprovedSum ==
    ASSUME NEW R \in SUBSET Queries
    PROVE  MapThenSumSet(LAMBDA p : query[p].approved, R)
              = SumOver([p \in Queries |-> query[p].approved], R)
  <1> PICK g : g = [p \in Queries |-> query[p].approved]
    OBVIOUS
  <1>1. MapThenSumSet(LAMBDA p : query[p].approved, R)
          = (CHOOSE f : f = [s \in SUBSET R |->
                               IF s = {} THEN 0
                               ELSE query[First(s)].approved + f[s \ {First(s)}]])[R]
    BY DEF MapThenSumSet, MapThenFoldSet, First
  <1>2. ASSUME NEW f
        PROVE  Sums(g, R, f) <=> f = [s \in SUBSET R |->
                                        IF s = {} THEN 0
                                        ELSE query[First(s)].approved + f[s \ {First(s)}]]
    <2>1. \A s \in SUBSET R : s # {} => g[First(s)] = query[First(s)].approved
      BY FirstIn
    <2>2. [s \in SUBSET R |-> IF s = {} THEN 0 ELSE g[First(s)] + f[s \ {First(s)}]]
          = [s \in SUBSET R |-> IF s = {} THEN 0 ELSE query[First(s)].approved + f[s \ {First(s)}]]
      BY <2>1
    <2> QED
      BY <2>2 DEF Sums
  <1>3. (CHOOSE f : Sums(g, R, f))
          = (CHOOSE f : f = [s \in SUBSET R |->
                               IF s = {} THEN 0
                               ELSE query[First(s)].approved + f[s \ {First(s)}]])
    BY <1>2
  <1> QED
    BY <1>1, <1>3 DEF SumOver

(* The queries of r that are granted sum to what all grant on r.              *)
LEMMA GrantedSum ==
    ASSUME Typed, NEW r, NEW R \in SUBSET Queries,
           \A p \in R : query[p].request = r /\ query[p].status \in {"refund_requested", "refunded"},
           \A p \in Queries \ R : Granted(query[p], r) = 0
    PROVE  MapThenSumSet(LAMBDA p : query[p].approved, R) = AllGranted(r)
  <1> PICK g, h : g = GrantedOn(r) /\ h = [p \in Queries |-> query[p].approved]
    OBVIOUS
  <1>1. Counted(g, Queries) /\ IsFiniteSet(Queries) /\ IsFiniteSet(R)
    BY GrantedFits, RequestsTyped, FS_Subset
  <1>2. \A p \in Queries \ R : g[p] = 0
    BY DEF GrantedOn
  <1>3. SumOver(g, Queries) = SumOver(g, R)
    BY <1>1, <1>2, SumOverTrimmed
  <1>4. \A p \in R : h[p] = g[p]
    BY DEF GrantedOn, Granted
  <1>5. SumOver(h, R) = SumOver(g, R)
    BY <1>1, <1>4, SumOverSame
  <1>6. MapThenSumSet(LAMBDA p : query[p].approved, R) = SumOver(h, R)
    BY ApprovedSum
  <1> QED
    BY <1>3, <1>5, <1>6 DEF AllGranted

----------------------------------------------------------------------------
(* Handlers begin                                                            *)

LEMMA StillWrites ==
    ASSUME UNCHANGED <<request, query, ledger>>, NEW s
    PROVE  /\ WritesQuery(s)' <=> WritesQuery(s)
           /\ WritesRequest(s)' <=> WritesRequest(s)
  <1>1. UNCHANGED <<request, query, ledger>>
    OBVIOUS
  <1>2. AllGranted(s.new.request)' = AllGranted(s.new.request)
    BY GrantKept
  <1>3. QueryFits(s.new)' <=> QueryFits(s.new)
    BY DEF QueryFits
  <1>4. OwnRef(s.id, s.new)' <=> OwnRef(s.id, s.new)
    BY DEF OwnRef
  <1>5. Held(s.id, s.new)' = Held(s.id, s.new)
    BY DEF Held, Active
  <1>6. Granted(s.seen, s.new.request)' = Granted(s.seen, s.new.request)
        /\ Granted(s.new, s.new.request)' = Granted(s.new, s.new.request)
    BY DEF Granted
  <1>7. Total(s.new.request)' = Total(s.new.request) /\ Total(s.id)' = Total(s.id)
    BY DEF Total
  <1> QED
    BY <1>1, <1>2, <1>3, <1>4, <1>5, <1>6, <1>7 DEF WritesQuery, WritesRequest

LEMMA StillFits ==
    ASSUME UNCHANGED <<request, query, ledger>>, NEW s
    PROVE  SessionFits(s)' <=> SessionFits(s)
  <1> Sessions' = Sessions /\ OnQueries' = OnQueries /\ OnRequests' = OnRequests
    BY DEF Sessions, OnQueries, OnRequests, Idle, QueryRow, RequestRow, Items, NoRef, Unset
  <1> QED
    BY StillWrites DEF SessionFits

(* One session changed.                                                      *)
LEMMA SetSession ==
    ASSUME SessionsFit, NEW w \in Workers, NEW s, sess' = [sess EXCEPT ![w] = s],
           SessionFits(s)',
           \A v \in Workers \ {w} : \A t : t = sess[v] => SessionFits(t)'
    PROVE  SessionsFit'
  <1>1. DOMAIN sess' = Workers /\ sess'[w] = s /\ \A v \in Workers \ {w} : sess'[v] = sess[v]
    BY DEF SessionsFit
  <1>2. ASSUME NEW v \in Workers PROVE SessionFits(sess[v])'
    <2> PICK t : t = sess'[v]
      OBVIOUS
    <2>1. SessionFits(t)'
      BY <1>1
    <2> QED
      BY <2>1 DEF SessionFits, WritesQuery, WritesRequest
  <1> QED
    BY <1>1, <1>2 DEF SessionsFit

LEMMA BeginNext ==
    ASSUME RInv, NEW w \in Workers, NEW s, Begin(w, s), SessionFits(s)
    PROVE  RInv'
  <1>1. UNCHANGED <<request, query, hold, ledger>> /\ sess' = [sess EXCEPT ![w] = s]
    BY DEF Begin
  <1>2. Typed'
    BY <1>1 DEF RInv, Typed, RequestRow, QueryRow, LedgerRow
  <1>3. QueriesFit' /\ HeldWhileQueried'
    BY <1>1 DEF RInv, QueriesFit, QueryFits, OwnRef, HeldWhileQueried, Active
  <1>4. GrantsWithin'
    BY <1>1, GrantKept DEF RInv, GrantsWithin
  <1>5. SessionsFit'
    BY <1>1, StillFits, SetSession DEF RInv, SessionsFit
  <1> QED
    BY <1>2, <1>3, <1>4, <1>5 DEF RInv

LEMMA IdleFits == SessionFits(Idle)
  BY DEF SessionFits, Sessions, Idle, OnQueries, OnRequests

LEMMA QuerySession ==
    ASSUME Typed, NEW q \in Queries, NEW x \in QueryRow, NEW phase \in {"call", "write"},
           NEW s, s = OnQuery(phase, q, x)
    PROVE  /\ s \in OnQueries /\ s \in Sessions /\ s \notin OnRequests
           /\ s.phase = phase /\ s.id = q /\ s.seen = query[q] /\ s.new = x
           /\ s.hold = Held(q, x) /\ s.on = "query"
  <1>1. Held(q, x) \in BOOLEAN
    BY DEF Held, Active
  <1>2. s.on = "query"
    BY DEF OnQuery
  <1> QED
    BY <1>1, <1>2 DEF OnQuery, OnQueries, OnRequests, Sessions, Typed

LEMMA RequestSession ==
    ASSUME Typed, NEW r \in Requests, NEW x \in RequestRow, NEW phase \in {"call", "write"},
           NEW s, s = OnRequest(phase, r, x)
    PROVE  /\ s \in OnRequests /\ s \in Sessions /\ s \notin OnQueries
           /\ s.phase = phase /\ s.id = r /\ s.seen = request[r] /\ s.new = x
           /\ s.on = "request"
  <1>2. s.on = "request"
    BY DEF OnRequest
  <1> QED
    BY <1>2 DEF OnRequest, OnQueries, OnRequests, Sessions, Typed

(* A session that changes a query and grants no more fits.                    *)
LEMMA QuerySessionFits ==
    ASSUME RInv, NEW q \in Queries, NEW x \in QueryRow,
           NEW s, s = OnQuery("write", q, x),
           QueryFits(x), OwnRef(q, x), x.status # "unused",
           query[q].status # "unused" => x.request = query[q].request,
           Granted(x, x.request) <= Granted(query[q], x.request)
    PROVE  SessionFits(s)
  <1>1. x.request \in Requests
    BY DEF QueryFits
  <1>2. AllGranted(x.request) <= Total(x.request) /\ AllGranted(x.request) \in Int
        /\ Granted(query[q], x.request) \in Int /\ Total(x.request) \in Int
    BY <1>1, GrantedFits, TotalFits DEF RInv, GrantsWithin
  <1>3. Granted(x, x.request) \in Int
    BY DEF Granted, QueryRow
  <1>4. AllGranted(x.request) - Granted(query[q], x.request) + Granted(x, x.request)
            <= Total(x.request)
    BY <1>2, <1>3
  <1>5. WritesQuery(s)
    BY <1>4, QuerySession DEF WritesQuery, RInv
  <1> QED
    BY <1>5, QuerySession DEF SessionFits, RInv

LEMMA RowOfJob ==
    ASSUME NEW j \in Jobs, NEW R, R \subseteq Rows(j), R # {}
    PROVE  Min(R) \in R /\ Min(R) \in Requests
  <1>1. R \in SUBSET Nat
    BY RequestsTyped DEF Rows
  <1> QED
    BY <1>1, LeastIn DEF Rows

LEMMA ChargeFits ==
    ASSUME NEW r \in Requests, NEW item \in Items
    PROVE  Charge(r, item) \in Nat
  BY RequestsTyped, TotalFits DEF Charge, Items

LEMMA OpenNext ==
    ASSUME RInv, NEW w \in Workers, NEW j \in Jobs, NEW q \in Queries, OpenQuery(w, j, q)
    PROVE  RInv'
  <1> DEFINE approved == {r \in Rows(j) : request[r].status = "approved"}
             R == IF approved # {} THEN approved ELSE Rows(j)
  <1> PICK r : r = Min(R)
    OBVIOUS
  <1>1. r \in Requests
    <2>1. Rows(j) # {}
      BY DEF Rows, Jobs
    <2>2. R \subseteq Rows(j) /\ R # {}
      BY <2>1
    <2> HIDE DEF R
    <2> QED
      BY <2>2, RowOfJob
  <1>a. PICK item \in Items : \E amount \in 1..Charge(r, item) :
           Begin(w, OnQuery("write", q,
                [NewQuery EXCEPT !.status = "open", !.request = r, !.item = item,
                                 !.charge = Charge(r, item), !.disputed = amount]))
    BY DEF OpenQuery
  <1>2. PICK amount \in 1..Charge(r, item) :
           Begin(w, OnQuery("write", q,
                [NewQuery EXCEPT !.status = "open", !.request = r, !.item = item,
                                 !.charge = Charge(r, item), !.disputed = amount]))
    BY <1>a
  <1> PICK x : x = [status |-> "open", request |-> r, item |-> item,
                    charge |-> Charge(r, item), disputed |-> amount, approved |-> 0,
                    ref |-> NoRef, reviewed |-> 0]
    OBVIOUS
  <1> HIDE DEF R
  <1>3. Charge(r, item) \in Nat /\ amount \in Nat
    BY <1>1, ChargeFits
  <1>b. MaxReviews \in Nat
    BY WorkersTyped
  <1> PICK y : y = [NewQuery EXCEPT !.status = "open", !.request = r, !.item = item,
                             !.charge = Charge(r, item), !.disputed = amount]
    OBVIOUS
  <1>c. y = x
    <2>1. y = [status |-> "open", request |-> r, item |-> item,
               charge |-> Charge(r, item), disputed |-> amount, approved |-> 0,
               ref |-> NoRef, reviewed |-> 0]
      BY DEF NewQuery
    <2> QED
      BY <2>1
  <1>4. x \in QueryRow /\ x.status = "open" /\ x.request = r /\ x.ref = NoRef
    <2>1. 0 \in 0..MaxReviews /\ 0 \in Nat
      BY <1>b
    <2>2. x \in QueryRow
      BY <1>1, <1>3, <2>1 DEF QueryRow, NoRef
    <2> QED
      BY <2>2
  <1>5. QueryFits(x) /\ OwnRef(q, x)
    BY <1>1, <1>4 DEF QueryFits, OwnRef
  <1>6. query[q].status = "unused"
    BY DEF OpenQuery
  <1>7. Granted(x, x.request) = 0 /\ Granted(query[q], x.request) \in Nat
    BY <1>4, GrantedFits DEF Granted, RInv
  <1>d. Granted(x, x.request) <= Granted(query[q], x.request)
    BY <1>7
  <1> PICK s : s = OnQuery("write", q, x)
    OBVIOUS
  <1>8. SessionFits(s)
    BY <1>4, <1>5, <1>6, <1>d, QuerySessionFits
  <1> QED
    BY <1>2, <1>8, <1>c, BeginNext

LEMMA ReviewFits ==
    ASSUME Typed, NEW q \in Queries, NEW x, Undecided(x)
    PROVE  Reviews \in 0..MaxReviews
  <1> DEFINE S == {query[p].reviewed : p \in Queries}
  <1>1. MaxReviews \in Nat
    BY WorkersTyped
  <1>2. S \in SUBSET (0..MaxReviews) /\ S # {}
    BY DEF Typed, QueryRow
  <1>3. Max(S) \in 0..MaxReviews
    BY <1>1, <1>2, GreatestIn
  <1>4. Reviews = 1 + Max(S) /\ Reviews <= MaxReviews
    BY DEF Reviews, Undecided
  <1> HIDE DEF S
  <1> QED
    BY <1>1, <1>3, <1>4

LEMMA DecidedRow ==
    ASSUME NEW x \in QueryRow, NEW n \in 0..MaxReviews
    PROVE  /\ [x EXCEPT !.status = "denied", !.reviewed = n] \in QueryRow
           /\ \A a \in Nat : [x EXCEPT !.approved = a, !.reviewed = n] \in QueryRow
  BY DEF QueryRow

LEMMA DenyQueryNext ==
    ASSUME RInv, NEW w \in Workers, NEW q \in Queries, DenyQuery(w, q)
    PROVE  RInv'
  <1> PICK x, n : x = query[q] /\ n = Reviews
    OBVIOUS
  <1> PICK y : y = [x EXCEPT !.status = "denied", !.reviewed = n]
    OBVIOUS
  <1>1. x \in QueryRow /\ n \in 0..MaxReviews /\ x.status \in {"open", "failed"}
    BY ReviewFits DEF RInv, Typed, DenyQuery, Undecided
  <1>2. y \in QueryRow
    BY <1>1, DecidedRow
  <1>3. y.status = "denied" /\ y.request = x.request /\ y.ref = x.ref
    BY <1>1 DEF QueryRow
  <1>4. QueryFits(y) /\ OwnRef(q, y)
    BY <1>1, <1>3 DEF RInv, QueriesFit, QueryFits, OwnRef
  <1>5. Granted(y, y.request) <= Granted(x, y.request)
    <2>1. Granted(y, y.request) = 0 /\ Granted(x, y.request) \in Nat
      BY <1>3, GrantedFits DEF Granted, RInv
    <2> QED
      BY <2>1
  <1> PICK s : s = OnQuery("write", q, y)
    OBVIOUS
  <1>6. SessionFits(s)
    BY <1>2, <1>3, <1>4, <1>5, QuerySessionFits
  <1>7. Begin(w, s)
    BY DEF DenyQuery
  <1> QED
    BY <1>6, <1>7, BeginNext

LEMMA ApproveNext ==
    ASSUME RInv, NEW w \in Workers, NEW q \in Queries, ApproveQuery(w, q)
    PROVE  RInv'
  <1> PICK x, n : x = query[q] /\ n = Reviews
    OBVIOUS
  <1>1. /\ x \in QueryRow /\ n \in 0..MaxReviews /\ x.status \in {"open", "failed"}
        /\ QueryFits(x) /\ OwnRef(q, x) /\ x.request \in Requests
    BY ReviewFits DEF RInv, Typed, ApproveQuery, Undecided, QueriesFit, QueryFits
  <1>2. PICK amount \in 1..Min({x.disputed, x.charge}) :
          /\ Committed(q, x) + amount <= Total(x.request)
          /\ Begin(w, OnQuery("call", q, [x EXCEPT !.approved = amount, !.reviewed = n]))
    BY DEF ApproveQuery
  <1> PICK y : y = [x EXCEPT !.approved = amount, !.reviewed = n]
    OBVIOUS
  <1>3. amount \in Nat
    <2>1. x.disputed \in Nat /\ x.charge \in Nat
      BY <1>1 DEF QueryRow
    <2>2. Min({x.disputed, x.charge}) \in Nat
      BY <2>1, LeastIn
    <2> QED
      BY <2>2
  <1>4. y \in QueryRow
    BY <1>1, <1>3, DecidedRow
  <1>5. /\ y.status = x.status /\ y.request = x.request /\ y.ref = x.ref
        /\ y.approved = amount
    BY <1>1 DEF QueryRow
  <1>6. QueryFits(y) /\ OwnRef(q, y)
    BY <1>1, <1>5 DEF QueryFits, OwnRef
  <1>7. AllGranted(y.request) + y.approved <= Total(y.request)
    <2> PICK R : R = {p \in Queries \ {q} : /\ query[p].request = x.request
                                            /\ query[p].status \in {"refund_requested",
                                                                    "refunded"}}
      OBVIOUS
    <2> PICK own : own = request[x.request]
      OBVIOUS
    <2>1. Committed(q, x) = MapThenSumSet(LAMBDA p : query[p].approved, R)
              + IF own.refund \in {"pending", "processed"} THEN own.cents ELSE 0
      BY DEF Committed
    <2>2. \A p \in Queries \ R : Granted(query[p], x.request) = 0
      BY <1>1 DEF Granted
    <2>3. MapThenSumSet(LAMBDA p : query[p].approved, R) = AllGranted(x.request)
      <3>1. Typed
        BY DEF RInv
      <3> QED
        BY <2>2, <3>1, GrantedSum
    <2>4. own.cents \in Nat
      BY <1>1 DEF RInv, Typed, RequestRow
    <2>5. AllGranted(x.request) \in Int /\ Total(x.request) \in Int
      BY <1>1, GrantedFits, TotalFits DEF RInv
    <2> PICK sum, more : /\ sum = AllGranted(x.request)
                         /\ more = IF own.refund \in {"pending", "processed"}
                                   THEN own.cents ELSE 0
      OBVIOUS
    <2>6. Committed(q, x) = sum + more /\ sum \in Int /\ more \in Nat
      BY <2>1, <2>3, <2>4, <2>5
    <2> QED
      BY <1>2, <1>3, <1>5, <2>5, <2>6
  <1> PICK s : s = OnQuery("call", q, y)
    OBVIOUS
  <1>8. WritesQuery(s)
    <2>1. s.phase = "call" /\ s.id = q /\ s.seen = x /\ s.new = y
      <3>1. Typed
        BY DEF RInv
      <3> QED
        BY <1>4, <3>1, QuerySession
    <2> QED
      BY <1>1, <1>5, <1>6, <1>7, <2>1 DEF WritesQuery
  <1>9. SessionFits(s)
    BY <1>4, <1>8, QuerySession DEF SessionFits, RInv
  <1> QED
    BY <1>2, <1>9, BeginNext

(* A session that writes a request fits, if it keeps what was kept or splits  *)
(* what was paid.                                                            *)
LEMMA RequestSessionFits ==
    ASSUME RInv, NEW r \in Requests, NEW x \in RequestRow, NEW phase \in {"call", "write"},
           NEW s, s = OnRequest(phase, r, x),
           x.kept = request[r].kept \/ (x.cents + x.kept = Total(r) /\ phase = "write")
    PROVE  SessionFits(s)
  <1>1. WritesRequest(s)
    BY RequestSession DEF WritesRequest, RInv
  <1> QED
    BY <1>1, RequestSession DEF SessionFits, RInv

LEMMA CancelNext ==
    ASSUME RInv, NEW w \in Workers, NEW r \in Requests, Cancel(w, r)
    PROVE  RInv'
  <1> PICK c \in Scenario : LET kept == Retained(Wage[r], Fee[r], c) IN
          Begin(w, OnRequest("write", r,
                [request[r] EXCEPT !.status = "cancelled", !.refund = "pending_review",
                                   !.kept = kept.company + kept.nanny,
                                   !.cents = Total(r) - kept.company - kept.nanny]))
    BY DEF Cancel
  <1> PICK x, a, b : /\ x = request[r] /\ a = Retained(Wage[r], Fee[r], c).company
                     /\ b = Retained(Wage[r], Fee[r], c).nanny
    OBVIOUS
  <1> PICK y : y = [x EXCEPT !.status = "cancelled", !.refund = "pending_review",
                             !.kept = a + b, !.cents = Total(r) - a - b]
    OBVIOUS
  <1>1. a \in 0..Fee[r] /\ b \in 0..Wage[r] /\ Fee[r] \in Nat /\ Wage[r] \in Nat
        /\ Total(r) = Wage[r] + Fee[r]
    BY RetainedWithin, TotalFits DEF Total
  <1>2. a + b \in Nat /\ Total(r) - a - b \in Nat /\ (Total(r) - a - b) + (a + b) = Total(r)
    BY <1>1
  <1>3. x \in RequestRow
    BY DEF RInv, Typed
  <1>4. y \in RequestRow
    BY <1>2, <1>3 DEF RequestRow
  <1>5. y.kept = a + b /\ y.cents = Total(r) - a - b
    BY <1>3 DEF RequestRow
  <1> PICK s : s = OnRequest("write", r, y)
    OBVIOUS
  <1>6. SessionFits(s)
    BY <1>2, <1>4, <1>5, RequestSessionFits
  <1>7. Begin(w, s)
    OBVIOUS
  <1> QED
    BY <1>6, <1>7, BeginNext

LEMMA RefundNext ==
    ASSUME RInv, NEW w \in Workers, NEW j \in Jobs, RequestRefund(w, j)
    PROVE  RInv'
  <1> PICK r \in RefundCandidates(j) :
        LET x == request[r]
            kept == IF x.kept = Unset THEN 0 ELSE x.kept
        IN  \E amount \in {Total(r) - kept} \cup 1..Total(r) :
              /\ amount > 0
              /\ Begin(w, OnRequest("call", r, [x EXCEPT !.cents = amount,
                                                         !.refund = "pending"]))
    BY DEF RequestRefund
  <1> PICK x, kept : x = request[r] /\ kept = IF x.kept = Unset THEN 0 ELSE x.kept
    OBVIOUS
  <1> PICK amount \in {Total(r) - kept} \cup 1..Total(r) :
              /\ amount > 0
              /\ Begin(w, OnRequest("call", r, [x EXCEPT !.cents = amount,
                                                         !.refund = "pending"]))
    OBVIOUS
  <1>1. r \in Requests
    BY DEF RefundCandidates, Rows
  <1>2. x \in RequestRow /\ Total(r) \in Nat
    BY <1>1, TotalFits DEF RInv, Typed
  <1>3. kept \in Nat
    BY <1>2 DEF RequestRow, Unset
  <1>4. amount \in Nat
    BY <1>2, <1>3
  <1> PICK y : y = [x EXCEPT !.cents = amount, !.refund = "pending"]
    OBVIOUS
  <1>5. y \in RequestRow /\ y.kept = x.kept
    BY <1>2, <1>4 DEF RequestRow
  <1> PICK s : s = OnRequest("call", r, y)
    OBVIOUS
  <1>6. SessionFits(s)
    BY <1>1, <1>5, RequestSessionFits
  <1>7. Begin(w, s)
    OBVIOUS
  <1> QED
    BY <1>6, <1>7, BeginNext

LEMMA DenyRefundNext ==
    ASSUME RInv, NEW w \in Workers, NEW j \in Jobs, DenyRefund(w, j)
    PROVE  RInv'
  <1> PICK r \in Rows(j) :
        Begin(w, OnRequest("write", r, [request[r] EXCEPT !.refund = "denied"]))
    BY DEF DenyRefund
  <1> PICK x : x = request[r]
    OBVIOUS
  <1> PICK y : y = [x EXCEPT !.refund = "denied"]
    OBVIOUS
  <1>1. r \in Requests
    BY DEF Rows
  <1>2. x \in RequestRow
    BY <1>1 DEF RInv, Typed
  <1>3. y \in RequestRow /\ y.kept = x.kept
    BY <1>2 DEF RequestRow
  <1> PICK s : s = OnRequest("write", r, y)
    OBVIOUS
  <1>6. SessionFits(s)
    BY <1>1, <1>3, RequestSessionFits
  <1>7. Begin(w, s)
    OBVIOUS
  <1> QED
    BY <1>6, <1>7, BeginNext

----------------------------------------------------------------------------
(* Paystack                                                                  *)

LEMMA WebhookNext ==
    ASSUME RInv, NEW w \in Workers, NEW i \in DOMAIN ledger, RefundWebhook(w, i)
    PROVE  RInv'
  <1> PICK end : end = Ended(i)
    OBVIOUS
  <1>0. /\ ledger[i] \in LedgerRow /\ i \in Nat \ {0} /\ end = ledger[i].state
        /\ end \in {"processed", "failed"} /\ ledger[i].request \in Requests
    <2>1. ledger \in Seq(LedgerRow)
      BY DEF RInv, Typed
    <2>2. ledger[i] \in LedgerRow /\ i \in Nat \ {0}
      BY <2>1
    <2>3. ledger[i].state # "pending"
      BY DEF RefundWebhook
    <2> QED
      BY <2>2, <2>3 DEF LedgerRow, Ended
  <1>1. ASSUME NEW q \in Concerned(i),
               Begin(w, OnQuery("write", q,
                 [query[q] EXCEPT !.status = IF end = "processed" THEN "refunded"
                                             ELSE "failed",
                                  !.ref = i]))
        PROVE  RInv'
    <2> PICK x : x = query[q]
      OBVIOUS
    <2> PICK y : y = [x EXCEPT !.status = IF end = "processed" THEN "refunded" ELSE "failed",
                               !.ref = i]
      OBVIOUS
    <2>1. q \in Queries
      BY <1>1 DEF Concerned
    <2>2. x \in QueryRow /\ QueryFits(x) /\ OwnRef(q, x)
      BY <2>1 DEF RInv, Typed, QueriesFit
    <2>3. y \in QueryRow
      BY <1>0, <2>2 DEF QueryRow
    <2>4. /\ y.status = IF end = "processed" THEN "refunded" ELSE "failed"
          /\ y.request = x.request /\ y.ref = i /\ y.approved = x.approved
      BY <2>2 DEF QueryRow
    <2>5. \/ x.ref = i
          \/ /\ x.request = ledger[i].request /\ x.status = "refund_requested"
             /\ \A p \in Queries : query[p].ref # i
      BY <1>1 DEF Concerned
    <2>6. /\ x.status # "unused" /\ x.request = ledger[i].request
          /\ end = "processed" => x.status \in {"refund_requested", "refunded"}
      BY <1>0, <2>2, <2>5 DEF QueryFits, NoRef
    <2>7. QueryFits(y)
      BY <1>0, <2>4, <2>6 DEF QueryFits, NoRef
    <2>8. OwnRef(q, y)
      BY <1>0, <2>2, <2>4, <2>5 DEF OwnRef, NoRef
    <2>9. Granted(y, y.request) <= Granted(x, y.request)
      <3>1. x.approved \in Nat
        BY <2>2 DEF QueryRow
      <3> QED
        BY <1>0, <2>4, <2>6, <3>1 DEF Granted
    <2> PICK s : s = OnQuery("write", q, y)
      OBVIOUS
    <2>10. y.status # "unused"
      BY <2>4
    <2>11. SessionFits(s)
      BY <2>1, <2>3, <2>4, <2>7, <2>8, <2>9, <2>10, QuerySessionFits
    <2>12. Begin(w, s)
      BY <1>1
    <2> QED
      BY <2>11, <2>12, BeginNext
  <1>2. ASSUME NEW r, r = ledger[i].request,
               Begin(w, OnRequest("write", r, [request[r] EXCEPT !.refund = end, !.ref = i]))
        PROVE  RInv'
    <2> PICK x : x = request[r]
      OBVIOUS
    <2> PICK y : y = [x EXCEPT !.refund = end, !.ref = i]
      OBVIOUS
    <2>1. r \in Requests
      BY <1>0, <1>2
    <2>2. x \in RequestRow
      BY <2>1 DEF RInv, Typed
    <2>3. y \in RequestRow /\ y.kept = x.kept
      BY <1>0, <2>2 DEF RequestRow
    <2> PICK s : s = OnRequest("write", r, y)
      OBVIOUS
    <2>4. SessionFits(s)
      BY <2>1, <2>3, RequestSessionFits
    <2>5. Begin(w, s)
      BY <1>2
    <2> QED
      BY <2>4, <2>5, BeginNext
  <1> QED
    BY <1>1, <1>2 DEF RefundWebhook

LEMMA SessionForms ==
    ASSUME SessionsFit, NEW w \in Workers, NEW s, s = sess[w]
    PROVE  \/ s = Idle
           \/ /\ s \in OnQueries /\ s.on = "query" /\ WritesQuery(s) /\ s # Idle
              /\ s.id \in Queries /\ s.seen \in QueryRow /\ s.new \in QueryRow
              /\ s.phase \in {"call", "write"} /\ s.hold \in BOOLEAN
           \/ /\ s \in OnRequests /\ s.on = "request" /\ WritesRequest(s) /\ s # Idle
              /\ s.id \in Requests /\ s.seen \in RequestRow /\ s.new \in RequestRow
              /\ s.phase \in {"call", "write"}
  <1>1. SessionFits(s)
    BY DEF SessionsFit
  <1> QED
    BY <1>1 DEF SessionFits, Sessions, OnQueries, OnRequests, Idle

(* The ledger grows at its end, and a refund that has ended stays so.         *)
Extends(old, new) ==
    /\ DOMAIN old \subseteq DOMAIN new
    /\ \A i \in DOMAIN old :
        /\ new[i].request = old[i].request
        /\ old[i].state # "pending" => new[i].state = old[i].state

LEMMA FitsStill ==
    ASSUME Extends(ledger, ledger'), NEW x, QueryFits(x)
    PROVE  QueryFits(x)'
  BY DEF QueryFits, Extends

LEMMA LedgerNext ==
    ASSUME RInv, ledger' \in Seq(LedgerRow), Extends(ledger, ledger'),
           UNCHANGED <<request, query, hold>>
    PROVE  /\ Typed' /\ QueriesFit' /\ HeldWhileQueried' /\ GrantsWithin'
           /\ \A s : s \in OnQueries /\ WritesQuery(s) => WritesQuery(s)'
           /\ \A s : WritesRequest(s) => WritesRequest(s)'
  <1>1. Typed'
    BY DEF RInv, Typed, RequestRow, QueryRow, LedgerRow
  <1>2. QueriesFit'
    <2> SUFFICES ASSUME NEW q \in Queries PROVE (QueryFits(query[q]) /\ OwnRef(q, query[q]))'
      BY DEF QueriesFit
    <2> PICK x : x = query[q]
      OBVIOUS
    <2>1. x = query'[q] /\ QueryFits(x) /\ OwnRef(q, x)
      BY DEF RInv, QueriesFit
    <2>2. QueryFits(x)' /\ OwnRef(q, x)'
      BY <2>1, FitsStill DEF OwnRef
    <2> QED
      BY <2>1, <2>2 DEF QueryFits, OwnRef
  <1>3. HeldWhileQueried'
    BY DEF RInv, HeldWhileQueried, Active
  <1>4. GrantsWithin'
    BY GrantKept DEF RInv, GrantsWithin
  <1>5. ASSUME NEW s, WritesQuery(s) PROVE WritesQuery(s)'
    <2>1. QueryFits(s.new)'
      BY <1>5, FitsStill DEF WritesQuery
    <2>2. OwnRef(s.id, s.new)' <=> OwnRef(s.id, s.new)
      BY DEF OwnRef
    <2>3. Held(s.id, s.new)' = Held(s.id, s.new)
      BY DEF Held, Active
    <2>4. AllGranted(s.new.request)' = AllGranted(s.new.request)
      BY GrantKept
    <2>5. query' = query
      OBVIOUS
    <2> QED
      BY <1>5, <2>1, <2>2, <2>3, <2>4, <2>5 DEF WritesQuery, Granted, Total
  <1>6. ASSUME NEW s, WritesRequest(s) PROVE WritesRequest(s)'
    BY <1>6 DEF WritesRequest, Total
  <1> QED
    BY <1>1, <1>2, <1>3, <1>4, <1>5, <1>6

LEMMA EndsNext ==
    ASSUME RInv, NEW i \in DOMAIN ledger, PaystackEnds(i)
    PROVE  RInv'
  <1>1. PICK end \in {"processed", "failed"} : ledger' = [ledger EXCEPT ![i].state = end]
    BY DEF PaystackEnds
  <1>2. UNCHANGED <<request, query, hold, sess>> /\ ledger[i].state = "pending"
    BY DEF PaystackEnds
  <1>3. ledger \in Seq(LedgerRow) /\ ledger[i] \in LedgerRow
    BY DEF RInv, Typed
  <1> PICK x : x = [ledger[i] EXCEPT !.state = end]
    OBVIOUS
  <1>4. x \in LedgerRow /\ x.request = ledger[i].request
    BY <1>3 DEF LedgerRow
  <1>5. ledger' = [ledger EXCEPT ![i] = x]
    BY <1>1
  <1>6. ledger' \in Seq(LedgerRow)
    BY <1>3, <1>4, <1>5
  <1>7. Extends(ledger, ledger')
    BY <1>2, <1>3, <1>4, <1>5 DEF Extends
  <1>8. SessionsFit'
    <2> SUFFICES ASSUME NEW w \in Workers PROVE SessionFits(sess[w])'
      BY <1>2 DEF RInv, SessionsFit
    <2> PICK s : s = sess[w]
      OBVIOUS
    <2>1. s = sess'[w] /\ SessionFits(s)
      BY <1>2 DEF RInv, SessionsFit
    <2>2. Sessions' = Sessions /\ OnQueries' = OnQueries /\ OnRequests' = OnRequests
      BY DEF Sessions, OnQueries, OnRequests, Idle, QueryRow, RequestRow, Items, NoRef, Unset
    <2>3. s \in OnQueries /\ WritesQuery(s) => WritesQuery(s)'
      BY <1>2, <1>6, <1>7, LedgerNext
    <2>4. WritesRequest(s) => WritesRequest(s)'
      BY <1>2, <1>6, <1>7, LedgerNext
    <2>5. SessionFits(s)'
      BY <2>1, <2>2, <2>3, <2>4 DEF SessionFits
    <2> QED
      BY <2>1, <2>5 DEF SessionFits, WritesQuery, WritesRequest
  <1> QED
    BY <1>2, <1>6, <1>7, <1>8, LedgerNext DEF RInv

(* What the handler makes of Paystack's answer to the refund of a query.      *)
LEMMA AnsweredQuery ==
    ASSUME NEW s, s.on = "query", s.new \in QueryRow, NEW o \in Outcomes, NEW n \in Nat
    PROVE  \E ok \in BOOLEAN : \E y \in QueryRow :
             /\ y = Answered(s, o, n)
             /\ ok => o.taken
             /\ y.status = IF ok THEN "refund_requested" ELSE "failed"
             /\ y.ref = IF ok THEN n ELSE s.new.ref
             /\ y.request = s.new.request /\ y.approved = s.new.approved
  <1> PICK x, ok : x = s.new /\ ok = (o.taken /\ o.answered)
    OBVIOUS
  <1>1. ok \in BOOLEAN
    BY DEF Outcomes
  <1> PICK y : y = [x EXCEPT !.status = IF ok THEN "refund_requested" ELSE "failed",
                             !.ref = IF ok THEN n ELSE @]
    OBVIOUS
  <1>2. y = Answered(s, o, n)
    BY DEF Answered
  <1>3. y \in QueryRow
    BY <1>1 DEF QueryRow
  <1>4. /\ y.status = IF ok THEN "refund_requested" ELSE "failed"
        /\ y.ref = IF ok THEN n ELSE x.ref
        /\ y.request = x.request /\ y.approved = x.approved
    BY <1>1 DEF QueryRow
  <1> QED
    BY <1>1, <1>2, <1>3, <1>4

LEMMA AnsweredRequest ==
    ASSUME NEW s, s.on = "request", s.new \in RequestRow, NEW o \in Outcomes, NEW n \in Nat
    PROVE  Answered(s, o, n) \in RequestRow /\ Answered(s, o, n).kept = s.new.kept
  <1> PICK x, ok : x = s.new /\ ok = (o.taken /\ o.answered)
    OBVIOUS
  <1>1. ok \in BOOLEAN
    BY DEF Outcomes
  <1> PICK y : y = [x EXCEPT !.refund = IF ok THEN "pending" ELSE "failed",
                             !.ref = IF ok THEN n ELSE @]
    OBVIOUS
  <1>2. y = Answered(s, o, n)
    BY DEF Answered
  <1>3. y \in RequestRow /\ y.kept = x.kept
    BY <1>1 DEF RequestRow
  <1> QED
    BY <1>2, <1>3

LEMMA CreateNext ==
    ASSUME RInv, NEW w \in Workers, CreateRefund(w)
    PROVE  RInv'
  <1> PICK s, n : s = sess[w] /\ n = Len(ledger) + 1
    OBVIOUS
  <1> PICK r : r = IF s.on = "query" THEN s.new.request ELSE s.id
    OBVIOUS
  <1> PICK amount : amount = IF s.on = "query" THEN s.new.approved ELSE s.new.cents
    OBVIOUS
  <1>1. s.phase = "call" /\ s # Idle /\ UNCHANGED <<request, query, hold>>
    BY DEF CreateRefund, Idle
  <1>2. PICK o \in Outcomes :
          /\ ledger' = IF o.taken
                     THEN Append(ledger, [request |-> r, amount |-> amount,
                                          state |-> "pending"])
                     ELSE ledger
          /\ sess' = [sess EXCEPT ![w] =
                      IF s.on = "query"
                      THEN [s EXCEPT !.phase = "write", !.new = Answered(s, o, n),
                                     !.hold = Held(s.id, Answered(s, o, n))]
                      ELSE [s EXCEPT !.phase = "write", !.new = Answered(s, o, n)]]
    BY DEF CreateRefund
  <1>3. o.taken \in BOOLEAN /\ ledger \in Seq(LedgerRow) /\ n \in Nat \ {0}
        /\ DOMAIN ledger = 1..(n - 1)
    BY DEF RInv, Typed, Outcomes
  <1>4. r \in Requests /\ amount \in Nat
    <2>1. CASE s \in OnQueries
      <3>1. s.on = "query" /\ s.new \in QueryRow /\ WritesQuery(s)
        BY <1>1, <2>1, SessionForms DEF RInv, OnQueries
      <3>2. s.new.request \in Requests
        BY <3>1 DEF WritesQuery, QueryFits
      <3> QED
        BY <3>1, <3>2 DEF QueryRow
    <2>2. CASE s \in OnRequests
      BY <1>1, <2>2, SessionForms DEF RInv, OnRequests, RequestRow
    <2> QED
      BY <1>1, <2>1, <2>2, SessionForms DEF RInv
  <1> PICK entry : entry = [request |-> r, amount |-> amount, state |-> "pending"]
    OBVIOUS
  <1>5. entry \in LedgerRow
    BY <1>4 DEF LedgerRow
  <1>6. /\ o.taken => ledger' = Append(ledger, entry)
        /\ ~o.taken => ledger' = ledger
    BY <1>2
  <1>7. ledger' \in Seq(LedgerRow) /\ Extends(ledger, ledger')
    BY <1>3, <1>5, <1>6 DEF Extends
  <1>8. o.taken => n \in DOMAIN ledger' /\ ledger'[n].request = r
    BY <1>3, <1>5, <1>6
  <1>9. Sessions' = Sessions /\ OnQueries' = OnQueries /\ OnRequests' = OnRequests
    BY DEF Sessions, OnQueries, OnRequests, Idle, QueryRow, RequestRow, Items, NoRef, Unset
  <1>10. \A v \in Workers \ {w} : \A t : t = sess[v] => SessionFits(t)'
    <2> SUFFICES ASSUME NEW v \in Workers \ {w}, NEW t, t = sess[v] PROVE SessionFits(t)'
      OBVIOUS
    <2>1. SessionFits(t)
      BY DEF RInv, SessionsFit
    <2>2. /\ t \in OnQueries /\ WritesQuery(t) => WritesQuery(t)'
          /\ WritesRequest(t) => WritesRequest(t)'
      BY <1>1, <1>7, LedgerNext
    <2> QED
      BY <1>9, <2>1, <2>2 DEF SessionFits
  <1>11. ASSUME s \in OnQueries PROVE SessionsFit'
    <2>1. s.on = "query" /\ WritesQuery(s) /\ s.id \in Queries /\ s.seen \in QueryRow
          /\ s.new \in QueryRow /\ s.hold \in BOOLEAN
      BY <1>1, <1>11, SessionForms DEF RInv, OnQueries
    <2> PICK x : x = s.new
      OBVIOUS
    <2>2. PICK ok \in BOOLEAN : \E y \in QueryRow :
             /\ y = Answered(s, o, n)
             /\ ok => o.taken
             /\ y.status = IF ok THEN "refund_requested" ELSE "failed"
             /\ y.ref = IF ok THEN n ELSE x.ref
             /\ y.request = x.request /\ y.approved = x.approved
      BY <1>3, <2>1, AnsweredQuery
    <2>3. PICK y \in QueryRow :
             /\ y = Answered(s, o, n)
             /\ ok => o.taken
             /\ y.status = IF ok THEN "refund_requested" ELSE "failed"
             /\ y.ref = IF ok THEN n ELSE x.ref
             /\ y.request = x.request /\ y.approved = x.approved
      BY <2>2
    <2> PICK t : t = [s EXCEPT !.phase = "write", !.new = y, !.hold = Held(s.id, y)]
      OBVIOUS
    <2>4. sess' = [sess EXCEPT ![w] = t]
      <3>1. sess' = [sess EXCEPT ![w] =
                       [s EXCEPT !.phase = "write", !.new = Answered(s, o, n),
                                 !.hold = Held(s.id, Answered(s, o, n))]]
        BY <1>2, <2>1
      <3>2. y = Answered(s, o, n)
        BY <2>3
      <3> QED
        BY <3>1, <3>2
    <2>5. Held(s.id, y) \in BOOLEAN
      BY DEF Held, Active
    <2>6. t \in OnQueries /\ t.phase = "write" /\ t.id = s.id /\ t.seen = s.seen /\ t.new = y
          /\ t.hold = Held(s.id, y) /\ t.on = "query"
      BY <1>11, <2>5 DEF OnQueries
    <2>7. /\ s.seen = query[s.id] /\ QueryFits(x) /\ OwnRef(s.id, x)
          /\ x.status \in {"open", "failed"} /\ s.seen.status = x.status
          /\ s.seen.status # "unused" => x.request = s.seen.request
          /\ AllGranted(x.request) + x.approved <= Total(x.request)
      BY <1>1, <2>1 DEF WritesQuery
    <2>8. QueryFits(y)'
      <3>1. QueryFits(x)'
        BY <1>7, <2>7, FitsStill
      <3>2. r = x.request /\ x.request \in Requests
        BY <2>1, <2>7 DEF QueryFits
      <3>3. CASE ok
        <4>a. y.status = "refund_requested" /\ y.ref = n /\ y.request = x.request
          BY <2>3, <3>3
        <4>b. o.taken
          BY <2>3, <3>3
        <4>1. y.status = "refund_requested" /\ y.ref = n /\ y.request = x.request /\ o.taken
          BY <4>a, <4>b
        <4>2. n \in DOMAIN ledger' /\ ledger'[n].request = x.request
          BY <1>8, <3>2, <4>1
        <4> QED
          BY <3>2, <4>1, <4>2 DEF QueryFits
      <3>4. CASE ~ok
        BY <2>3, <2>7, <3>1, <3>4 DEF QueryFits
      <3> QED
        BY <3>3, <3>4
    <2>9. OwnRef(s.id, y)'
      <3>1. CASE ok
        <4>1. ASSUME NEW p \in Queries PROVE query[p].ref # n
          <5>1. QueryFits(query[p])
            BY DEF RInv, QueriesFit
          <5>2. query[p].ref = NoRef \/ query[p].ref \in DOMAIN ledger
            BY <5>1 DEF QueryFits
          <5> QED
            BY <1>3, <5>2 DEF NoRef
        <4> QED
          BY <1>1, <2>3, <3>1, <4>1 DEF OwnRef
      <3>2. CASE ~ok
        BY <1>1, <2>3, <2>7, <3>2 DEF OwnRef
      <3> QED
        BY <3>1, <3>2
    <2>10. AllGranted(y.request)' - Granted(s.seen, y.request) + Granted(y, y.request)
              <= Total(y.request)
      <3>1. AllGranted(y.request)' = AllGranted(x.request)
        BY <1>1, <2>3, GrantKept
      <3>2. Granted(s.seen, y.request) = 0
        BY <2>7 DEF Granted
      <3>3. AllGranted(x.request) \in Int /\ Total(x.request) \in Int /\ x.approved \in Nat
        <4>1. x.request \in Requests
          BY <2>7 DEF QueryFits
        <4>2. AllGranted(x.request) \in Int
          BY GrantedFits DEF RInv
        <4>3. x.approved \in Nat
          BY <2>1 DEF QueryRow
        <4> QED
          BY <4>1, <4>2, <4>3, TotalFits
      <3>4. Granted(y, y.request) \in {0, x.approved}
        BY <2>3 DEF Granted
      <3> QED
        BY <2>3, <2>7, <3>1, <3>2, <3>3, <3>4
    <2>11. Held(s.id, y)' = Held(s.id, y)
      BY <1>1 DEF Held, Active
    <2>12. query'[s.id] = query[s.id]
      BY <1>1
    <2>13. WritesQuery(t)'
      BY <2>3, <2>6, <2>7, <2>8, <2>9, <2>10, <2>11, <2>12
         DEF WritesQuery, Granted, Total
    <2>14. SessionFits(t)'
      <3>1. t \notin OnRequests /\ t \in Sessions
        BY <2>6 DEF OnRequests, Sessions
      <3> QED
        BY <1>9, <2>13, <3>1 DEF SessionFits
    <2>15. SessionsFit
      BY DEF RInv
    <2> QED
      BY <1>10, <2>4, <2>14, <2>15, SetSession
  <1>12. ASSUME s \in OnRequests PROVE SessionsFit'
    <2>1. s.on = "request" /\ WritesRequest(s) /\ s.id \in Requests /\ s.seen \in RequestRow
          /\ s.new \in RequestRow
      BY <1>1, <1>12, SessionForms DEF RInv, OnRequests
    <2> PICK y : y = Answered(s, o, n)
      OBVIOUS
    <2>2. y \in RequestRow /\ y.kept = s.new.kept
      BY <1>3, <2>1, AnsweredRequest
    <2> PICK t : t = [s EXCEPT !.phase = "write", !.new = y]
      OBVIOUS
    <2>3. sess' = [sess EXCEPT ![w] = t]
      BY <1>2, <2>1
    <2>4. t \in OnRequests /\ t.phase = "write" /\ t.id = s.id /\ t.seen = s.seen /\ t.new = y
          /\ t.on = "request"
      BY <1>12, <2>2 DEF OnRequests
    <2>5. s.seen = request[s.id] /\ s.new.kept = s.seen.kept
      BY <1>1, <2>1 DEF WritesRequest
    <2>6. WritesRequest(t)'
      BY <1>1, <2>2, <2>4, <2>5 DEF WritesRequest, Total
    <2>7. SessionFits(t)'
      <3>1. t \notin OnQueries /\ t \in Sessions
        BY <2>4 DEF OnQueries, Sessions
      <3> QED
        BY <1>9, <2>6, <3>1 DEF SessionFits
    <2>8. SessionsFit
      BY DEF RInv
    <2> QED
      BY <1>10, <2>3, <2>7, <2>8, SetSession
  <1>13. SessionsFit'
    BY <1>1, <1>11, <1>12, SessionForms DEF RInv
  <1> QED
    BY <1>1, <1>7, <1>13, LedgerNext DEF RInv

----------------------------------------------------------------------------
(* Commits                                                                   *)

QueryColumns == {"status", "request", "item", "charge", "disputed", "approved", "ref",
                 "reviewed"}
RequestColumns == {"status", "refund", "cents", "kept", "ref"}

LEMMA RowColumns ==
    /\ \A x \in QueryRow : DOMAIN x = QueryColumns
    /\ \A x \in RequestRow : DOMAIN x = RequestColumns
  BY DEF QueryRow, RequestRow, QueryColumns, RequestColumns

(* A session that read the committed row commits the row as it made it.       *)
LEMMA FlushAlone ==
    ASSUME NEW read, NEW new,
           \/ read \in QueryRow /\ new \in QueryRow
           \/ read \in RequestRow /\ new \in RequestRow
    PROVE  Flush(read, new, read) = new
  <1>1. DOMAIN new = DOMAIN read
    BY RowColumns
  <1>2. new = [c \in DOMAIN new |-> new[c]]
    BY DEF QueryRow, RequestRow
  <1>3. Flush(read, new, read) = [c \in DOMAIN read |-> new[c]]
    <2>1. \A c \in DOMAIN read : (IF new[c] = read[c] THEN read[c] ELSE new[c]) = new[c]
      OBVIOUS
    <2> QED
      BY <2>1 DEF Flush
  <1> QED
    BY <1>1, <1>2, <1>3

(* A session whose query and request a commit leaves alone still fits.        *)
LEMMA SessionLeft ==
    ASSUME RInv, UNCHANGED ledger, NEW t, SessionFits(t),
           t \in OnQueries => /\ query'[t.id] = query[t.id]
                              /\ OwnRef(t.id, t.new)' /\ (Held(t.id, t.new)' <=> Held(t.id, t.new))
                              /\ AllGranted(t.new.request)' = AllGranted(t.new.request),
           t \in OnRequests => request'[t.id] = request[t.id]
    PROVE  SessionFits(t)'
  <1>1. Sessions' = Sessions /\ OnQueries' = OnQueries /\ OnRequests' = OnRequests
    BY DEF Sessions, OnQueries, OnRequests, Idle, QueryRow, RequestRow, Items, NoRef, Unset
  <1>2. ASSUME t \in OnQueries PROVE WritesQuery(t)'
    <2>1. WritesQuery(t)
      BY <1>2 DEF SessionFits
    <2>2. QueryFits(t.new)'
      BY <2>1 DEF WritesQuery, QueryFits
    <2>3. t.hold \in BOOLEAN /\ Held(t.id, t.new) \in BOOLEAN /\ Held(t.id, t.new)' \in BOOLEAN
      BY <1>2 DEF OnQueries, Held, Active
    <2>4. Held(t.id, t.new)' = Held(t.id, t.new)
      BY <1>2, <2>3
    <2>5. /\ Granted(t.seen, t.new.request)' = Granted(t.seen, t.new.request)
          /\ Granted(t.new, t.new.request)' = Granted(t.new, t.new.request)
          /\ Total(t.new.request)' = Total(t.new.request)
      BY DEF Granted, Total
    <2> QED
      BY <1>2, <2>1, <2>2, <2>4, <2>5 DEF WritesQuery
  <1>3. ASSUME t \in OnRequests PROVE WritesRequest(t)'
    BY <1>3 DEF SessionFits, WritesRequest, Total
  <1> QED
    BY <1>1, <1>2, <1>3 DEF SessionFits

LEMMA CommitQuery ==
    ASSUME RInv, QueriesApart, JobsApart, NEW w \in Workers, Commit(w), sess[w] \in OnQueries
    PROVE  RInv'
  <1> PICK s : s = sess[w]
    OBVIOUS
  <1> PICK q, x : q = s.id /\ x = s.new
    OBVIOUS
  <1>1. /\ s # Idle /\ s.on = "query" /\ WritesQuery(s) /\ q \in Queries
        /\ s.seen \in QueryRow /\ x \in QueryRow /\ s.hold \in BOOLEAN
    <2>1. s # Idle
      BY DEF Commit, Idle
    <2>2. s.on = "query"
      BY DEF OnQueries
    <2>3. SessionsFit
      BY DEF RInv
    <2> QED
      BY <2>1, <2>2, <2>3, SessionForms
  <1>2. s.phase = "write" /\ UNCHANGED <<request, ledger>>
        /\ query' = [query EXCEPT ![q] = Flush(s.seen, x, query[q])]
        /\ hold' = [hold EXCEPT ![JobOf[x.request]] = s.hold]
        /\ sess' = [sess EXCEPT ![w] = Idle]
    BY <1>1 DEF Commit
  <1>3. /\ s.seen = query[q] /\ QueryFits(x) /\ OwnRef(q, x) /\ x.status # "unused"
        /\ s.seen.status # "unused" => x.request = s.seen.request
        /\ s.hold = Held(q, x)
        /\ AllGranted(x.request) - Granted(s.seen, x.request) + Granted(x, x.request)
              <= Total(x.request)
    BY <1>1, <1>2 DEF WritesQuery
  <1>4. query' = [query EXCEPT ![q] = x]
    <2>1. Flush(s.seen, x, s.seen) = x
      BY <1>1, FlushAlone
    <2> QED
      BY <1>2, <1>3, <2>1
  <1>5. query \in [Queries -> QueryRow] /\ hold \in [Jobs -> BOOLEAN] /\ Typed
    BY DEF RInv, Typed
  <1>6. query'[q] = x /\ \A p \in Queries \ {q} : query'[p] = query[p]
    BY <1>1, <1>4, <1>5
  <1> PICK j : j = JobOf[x.request]
    OBVIOUS
  <1>7. x.request \in Requests /\ j \in Jobs
    BY <1>3 DEF QueryFits, Jobs
  <1>8. hold' \in [Jobs -> BOOLEAN] /\ query' \in [Queries -> QueryRow]
    BY <1>1, <1>2, <1>4, <1>5
  <1>9. Typed'
    BY <1>2, <1>5, <1>8 DEF Typed, RequestRow, QueryRow, LedgerRow
  <1>10. QueriesFit'
    <2> SUFFICES ASSUME NEW p \in Queries
                 PROVE  (QueryFits(query[p]) /\ OwnRef(p, query[p]))'
      BY DEF QueriesFit
    <2> PICK y : y = query'[p]
      OBVIOUS
    <2>1. QueryFits(y) /\ OwnRef(p, y)
      <3>1. CASE p = q
        BY <1>3, <1>6, <3>1
      <3>2. CASE p # q
        BY <1>6, <3>2 DEF RInv, QueriesFit
      <3> QED
        BY <3>1, <3>2
    <2>2. QueryFits(y)'
      BY <1>2, <2>1 DEF QueryFits
    <2>3. \A o \in Queries \ {p} : y.ref # NoRef => query'[o].ref # y.ref
      <3>1. CASE p = q
        BY <1>6, <2>1, <3>1 DEF OwnRef
      <3>2. CASE p # q
        <4> SUFFICES ASSUME NEW o \in Queries \ {p}, y.ref # NoRef PROVE query'[o].ref # y.ref
          OBVIOUS
        <4>1. CASE o = q
          BY <1>3, <1>6, <3>2, <4>1 DEF OwnRef
        <4>2. CASE o # q
          BY <1>6, <2>1, <4>2 DEF OwnRef
        <4> QED
          BY <4>1, <4>2
      <3> QED
        BY <3>1, <3>2
    <2> QED
      BY <2>2, <2>3 DEF QueryFits, OwnRef
  <1>11. HeldWhileQueried'
    <2> SUFFICES ASSUME NEW k \in Jobs
                 PROVE  hold'[k] <=> \E p \in Queries : Active(query'[p]) /\ JobOf[query'[p].request] = k
      BY DEF HeldWhileQueried, Active, Jobs
    <2>1. hold[k] <=> \E p \in Queries : Active(query[p]) /\ JobOf[query[p].request] = k
      BY DEF RInv, HeldWhileQueried
    <2>2. CASE k = j
      <3>1. hold'[k] = Held(q, x)
        BY <1>2, <1>3, <1>5, <2>2
      <3>2. Held(q, x) <=> \E p \in Queries : Active(query'[p]) /\ JobOf[query'[p].request] = k
        <4>1. JobOf[x.request] = k
          BY <2>2
        <4>2. ASSUME Active(x)
              PROVE  \E p \in Queries : Active(query'[p]) /\ JobOf[query'[p].request] = k
          BY <1>1, <1>6, <4>1, <4>2
        <4>3. (\E p \in Queries \ {q} : Active(query[p]) /\ JobOf[query[p].request] = k)
              <=> \E p \in Queries \ {q} : Active(query'[p]) /\ JobOf[query'[p].request] = k
          BY <1>6
        <4>4. Held(q, x) <=> Active(x) \/ \E p \in Queries \ {q} :
                                 Active(query[p]) /\ JobOf[query[p].request] = k
          BY <4>1 DEF Held
        <4>5. Active(query'[q]) <=> Active(x)
          BY <1>6
        <4> QED
          BY <4>2, <4>3, <4>4, <4>5
      <3> QED
        BY <3>1, <3>2
    <2>3. CASE k # j
      <3>1. hold'[k] = hold[k]
        BY <1>2, <1>5, <2>3
      <3>2. ~(Active(query[q]) /\ JobOf[query[q].request] = k)
        BY <1>3, <2>3 DEF Active
      <3>3. ~(Active(query'[q]) /\ JobOf[query'[q].request] = k)
        BY <1>6, <2>3
      <3> QED
        BY <1>6, <2>1, <3>1, <3>2, <3>3
    <2> QED
      BY <2>2, <2>3
  <1>12. GrantsWithin'
    <2> SUFFICES ASSUME NEW r \in Requests PROVE AllGranted(r)' <= Total(r)
      BY DEF GrantsWithin, Total
    <2>1. AllGranted(r)' = AllGranted(r) - Granted(query[q], r) + Granted(x, r)
      BY <1>1, <1>4, <1>5, GrantChanged
    <2>2. CASE r = x.request
      BY <1>3, <2>1, <2>2
    <2>3. CASE r # x.request
      <3>1. Granted(query[q], r) = 0 /\ Granted(x, r) = 0
        BY <1>3, <2>3 DEF Granted
      <3>2. AllGranted(r) <= Total(r) /\ AllGranted(r) \in Int
        BY <1>5, GrantedFits DEF RInv, GrantsWithin
      <3> QED
        BY <2>1, <3>1, <3>2
    <2> QED
      BY <2>2, <2>3
  <1>13. \A r \in Requests : JobOf[r] # j => AllGranted(r)' = AllGranted(r)
    <2> SUFFICES ASSUME NEW r \in Requests, JobOf[r] # j PROVE AllGranted(r)' = AllGranted(r)
      OBVIOUS
    <2>1. AllGranted(r)' = AllGranted(r) - Granted(query[q], r) + Granted(x, r)
      BY <1>1, <1>4, <1>5, GrantChanged
    <2>2. Granted(query[q], r) = 0 /\ Granted(x, r) = 0
      BY <1>3 DEF Granted
    <2>3. AllGranted(r) \in Int
      BY <1>5, GrantedFits
    <2> QED
      BY <2>1, <2>2, <2>3
  <1>14. ASSUME NEW v \in Workers \ {w}, NEW t, t = sess[v] PROVE SessionFits(t)'
    <2>1. SessionFits(t)
      BY <1>14 DEF RInv, SessionsFit
    <2>2. ASSUME t \in OnQueries
          PROVE  /\ query'[t.id] = query[t.id]
                 /\ OwnRef(t.id, t.new)' /\ (Held(t.id, t.new)' <=> Held(t.id, t.new))
                 /\ AllGranted(t.new.request)' = AllGranted(t.new.request)
      <3> PICK p, y : p = t.id /\ y = t.new
        OBVIOUS
      <3>1. p \in Queries /\ t # Idle /\ t.on = "query" /\ WritesQuery(t)
        BY <1>14, <2>2, SessionForms DEF RInv, OnQueries, Idle
      <3>2. p # q
        BY <1>14, <2>2 DEF QueriesApart
      <3>3. JobOf[y.request] # j
        BY <1>1, <1>14, <3>1 DEF JobsApart, JobIn
      <3>4. QueryFits(y) /\ OwnRef(p, y) /\ y.request \in Requests
        BY <3>1 DEF WritesQuery, QueryFits
      <3>5. y.ref # NoRef => y.ref # x.ref
        BY <1>3, <3>3, <3>4 DEF QueryFits
      <3>6. OwnRef(p, y)'
        BY <1>6, <3>4, <3>5 DEF OwnRef
      <3>7. ~(Active(x) /\ JobOf[x.request] = JobOf[y.request])
            /\ ~(Active(query[q]) /\ JobOf[query[q].request] = JobOf[y.request])
        BY <1>3, <3>3 DEF Active
      <3>8. Held(p, y)' <=> Held(p, y)
        BY <1>1, <1>6, <3>2, <3>7 DEF Held, Active
      <3> QED
        BY <1>6, <1>13, <3>1, <3>2, <3>3, <3>4, <3>6, <3>8
    <2> QED
      BY <1>2, <2>1, <2>2, SessionLeft
  <1>15. SessionFits(Idle)'
    BY IdleFits DEF SessionFits, Sessions, Idle, OnQueries, OnRequests
  <1>16. SessionsFit'
    BY <1>2, <1>14, <1>15, SetSession DEF RInv
  <1> QED
    BY <1>9, <1>10, <1>11, <1>12, <1>16 DEF RInv

LEMMA CommitRequest ==
    ASSUME RInv, JobsApart, NEW w \in Workers, Commit(w), sess[w] \in OnRequests
    PROVE  /\ RInv'
           /\ \A r \in Requests : request[r].kept = Unset /\ request'[r].kept # Unset =>
                  request'[r].cents + request'[r].kept = Total(r)
  <1> PICK s : s = sess[w]
    OBVIOUS
  <1> PICK q, x : q = s.id /\ x = s.new
    OBVIOUS
  <1>1. /\ s # Idle /\ s.on = "request" /\ WritesRequest(s) /\ q \in Requests
        /\ s.seen \in RequestRow /\ x \in RequestRow
    <2>1. s # Idle
      BY DEF Commit, Idle
    <2>2. s.on = "request"
      BY DEF OnRequests
    <2>3. SessionsFit
      BY DEF RInv
    <2> QED
      BY <2>1, <2>2, <2>3, SessionForms
  <1>2. s.phase = "write" /\ UNCHANGED <<query, hold, ledger>>
        /\ request' = [request EXCEPT ![q] = Flush(s.seen, x, request[q])]
        /\ sess' = [sess EXCEPT ![w] = Idle]
    BY <1>1 DEF Commit
  <1>3. s.seen = request[q]
    BY <1>1 DEF WritesRequest
  <1>4. request' = [request EXCEPT ![q] = x]
    <2>1. Flush(s.seen, x, s.seen) = x
      BY <1>1, FlushAlone
    <2> QED
      BY <1>2, <1>3, <2>1
  <1>5. request \in [Requests -> RequestRow]
    BY DEF RInv, Typed
  <1>6. request'[q] = x /\ \A r \in Requests \ {q} : request'[r] = request[r]
    BY <1>1, <1>4, <1>5
  <1>7. request' \in [Requests -> RequestRow]
    BY <1>1, <1>4, <1>5
  <1>8. Typed'
    BY <1>2, <1>7 DEF RInv, Typed, RequestRow, QueryRow, LedgerRow
  <1>9. QueriesFit' /\ HeldWhileQueried'
    BY <1>2 DEF RInv, QueriesFit, QueryFits, OwnRef, HeldWhileQueried, Active
  <1>10. GrantsWithin'
    BY <1>2, GrantKept DEF RInv, GrantsWithin
  <1>a. ASSUME NEW v \in Workers \ {w}, NEW t, t = sess[v] PROVE SessionFits(t)'
    <2>1. SessionFits(t)
      BY <1>a DEF RInv, SessionsFit
    <2>2. t \in OnRequests => request'[t.id] = request[t.id]
      <3> SUFFICES ASSUME t \in OnRequests PROVE request'[t.id] = request[t.id]
        OBVIOUS
      <3>1. t.id \in Requests /\ t # Idle /\ t.on = "request"
        BY DEF OnRequests, Idle
      <3>2. t.id # q
        BY <1>1, <1>a, <3>1 DEF JobsApart, JobIn
      <3> QED
        BY <1>6, <3>1, <3>2
    <2>3. ASSUME t \in OnQueries
          PROVE  /\ query'[t.id] = query[t.id]
                 /\ OwnRef(t.id, t.new)' /\ (Held(t.id, t.new)' <=> Held(t.id, t.new))
                 /\ AllGranted(t.new.request)' = AllGranted(t.new.request)
      <3>1. OwnRef(t.id, t.new)
        BY <2>1, <2>3 DEF SessionFits, WritesQuery
      <3> QED
        BY <1>2, <3>1, GrantKept DEF OwnRef, Held, Active
    <2> QED
      BY <1>2, <2>1, <2>2, <2>3, SessionLeft
  <1>b. SessionFits(Idle)'
    BY IdleFits DEF SessionFits, Sessions, Idle, OnQueries, OnRequests
  <1>11. SessionsFit'
    BY <1>2, <1>a, <1>b, SetSession DEF RInv
  <1>12. \A r \in Requests : request[r].kept = Unset /\ request'[r].kept # Unset =>
                  request'[r].cents + request'[r].kept = Total(r)
    BY <1>1, <1>3, <1>6 DEF WritesRequest
  <1> QED
    BY <1>8, <1>9, <1>10, <1>11, <1>12 DEF RInv

LEMMA CommitNext ==
    ASSUME RInv, QueriesApart, JobsApart, NEW w \in Workers, Commit(w)
    PROVE  RInv'
  <1>1. sess[w] # Idle
    BY DEF Commit, Idle
  <1>2. sess[w] \in OnQueries \/ sess[w] \in OnRequests
    BY <1>1, SessionForms DEF RInv
  <1> QED
    BY <1>2, CommitQuery, CommitRequest

LEMMA CrashNext ==
    ASSUME RInv, NEW w \in Crashing, Crash(w)
    PROVE  RInv'
  <1>1. w \in Workers /\ sess[w] # Idle /\ sess' = [sess EXCEPT ![w] = Idle]
        /\ UNCHANGED <<request, query, hold, ledger>>
    BY WorkersTyped DEF Crash
  <1>2. Typed'
    BY <1>1 DEF RInv, Typed, RequestRow, QueryRow, LedgerRow
  <1>3. QueriesFit' /\ HeldWhileQueried'
    BY <1>1 DEF RInv, QueriesFit, QueryFits, OwnRef, HeldWhileQueried, Active
  <1>4. GrantsWithin'
    BY <1>1, GrantKept DEF RInv, GrantsWithin
  <1>5. SessionsFit'
    <2>1. SessionFits(Idle)'
      BY <1>1, IdleFits, StillFits
    <2>2. \A v \in Workers : \A t : t = sess[v] => SessionFits(t)'
      BY <1>1, StillFits DEF RInv, SessionsFit
    <2> QED
      BY <1>1, <2>1, <2>2, SetSession DEF RInv
  <1> QED
    BY <1>2, <1>3, <1>4, <1>5 DEF RInv

LEMMA RestNext ==
    ASSUME RInv, UNCHANGED vars
    PROVE  RInv'
  <1>1. UNCHANGED <<request, query, hold, ledger, sess>>
    BY DEF vars
  <1>2. Typed'
    BY <1>1 DEF RInv, Typed, RequestRow, QueryRow, LedgerRow
  <1>3. QueriesFit' /\ HeldWhileQueried'
    BY <1>1 DEF RInv, QueriesFit, QueryFits, OwnRef, HeldWhileQueried, Active
  <1>4. GrantsWithin'
    BY <1>1, GrantKept DEF RInv, GrantsWithin
  <1>5. SessionsFit'
    <2> SUFFICES ASSUME NEW w \in Workers PROVE SessionFits(sess[w])'
      BY <1>1 DEF RInv, SessionsFit
    <2> PICK s : s = sess[w]
      OBVIOUS
    <2>1. s = sess'[w] /\ SessionFits(s)
      BY <1>1 DEF RInv, SessionsFit
    <2>2. SessionFits(s)'
      BY <1>1, <2>1, StillFits
    <2> QED
      BY <2>1, <2>2 DEF SessionFits, WritesQuery, WritesRequest
  <1> QED
    BY <1>2, <1>3, <1>4, <1>5 DEF RInv

LEMMA RInvNext ==
    ASSUME RInv, QueriesApart, JobsApart, [Next]_vars
    PROVE  RInv'
  <1>1. ASSUME NEW w \in Workers, Receive(w) PROVE RInv'
    BY <1>1, RefundNext, DenyRefundNext, OpenNext, ApproveNext, DenyQueryNext, CancelNext,
       WebhookNext DEF Receive, ApproveRefund
  <1> QED
    BY <1>1, CreateNext, CommitNext, CrashNext, EndsNext, RestNext DEF Next

(* A handler begins with a query that nobody is at work on, or one on record. *)
LEMMA BeginsApart ==
    ASSUME RInv, NEW w \in Workers, Receive(w), sess'[w] \in OnQueries,
           query[sess'[w].id].status = "unused", NEW v \in Workers, sess[v] # Idle
    PROVE  sess[v].id # sess'[w].id
  <1>0. DOMAIN sess = Workers
    BY DEF RInv, SessionsFit
  <1>1. ASSUME NEW phase, NEW q, NEW x, Begin(w, OnQuery(phase, q, x))
        PROVE  sess'[w].id = q
    BY <1>0, <1>1 DEF Begin, OnQuery
  <1>2. ASSUME NEW phase, NEW r, NEW x, Begin(w, OnRequest(phase, r, x))
        PROVE  FALSE
    BY <1>0, <1>2 DEF Begin, OnRequest, OnQueries
  <1>3. ASSUME NEW j \in Jobs, NEW q \in Queries, OpenQuery(w, j, q)
        PROVE  sess[v].id # sess'[w].id
    <2>1. sess'[w].id = q
      BY <1>1, <1>3 DEF OpenQuery
    <2> QED
      BY <1>3, <2>1 DEF OpenQuery
  <1>4. ASSUME NEW q \in Queries, ApproveQuery(w, q) \/ DenyQuery(w, q)
        PROVE  FALSE
    <2>1. sess'[w].id = q
      BY <1>1, <1>4 DEF ApproveQuery, DenyQuery
    <2> QED
      BY <1>4, <2>1 DEF ApproveQuery, DenyQuery, Undecided
  <1>5. ASSUME NEW i \in DOMAIN ledger, RefundWebhook(w, i)
        PROVE  FALSE
    <2>1. CASE Concerned(i) = {}
      BY <1>2, <1>5, <2>1 DEF RefundWebhook
    <2>2. CASE Concerned(i) # {}
      <3>1. PICK q \in Concerned(i) : sess'[w].id = q
        BY <1>1, <1>5, <2>2 DEF RefundWebhook
      <3>2. q \in Queries /\ (query[q].ref = i \/ query[q].status = "refund_requested")
        BY <3>1 DEF Concerned
      <3>3. i # NoRef /\ QueryFits(query[q])
        BY <3>2 DEF RInv, Typed, QueriesFit, NoRef
      <3> QED
        BY <3>1, <3>2, <3>3 DEF QueryFits
    <2> QED
      BY <2>1, <2>2
  <1>6. ASSUME NEW j \in Jobs, RequestRefund(w, j) \/ DenyRefund(w, j) PROVE FALSE
    BY <1>2, <1>6 DEF RequestRefund, DenyRefund
  <1>7. ASSUME NEW r \in Requests, Cancel(w, r) PROVE FALSE
    BY <1>2, <1>7 DEF Cancel
  <1> QED
    BY <1>3, <1>4, <1>5, <1>6, <1>7 DEF Receive, ApproveRefund

LEMMA BeginsAlone ==
    ASSUME RInv, NEW w \in Workers, Receive(w)
    PROVE  UNCHANGED query /\ \A v \in Workers \ {w} : sess'[v] = sess[v]
  <1>1. ASSUME NEW s, Begin(w, s)
        PROVE  UNCHANGED query /\ \A v \in Workers \ {w} : sess'[v] = sess[v]
    BY <1>1 DEF RInv, SessionsFit, Begin
  <1> QED
    BY <1>1 DEF Receive, OpenQuery, ApproveQuery, DenyQuery, Cancel, RequestRefund,
                ApproveRefund, DenyRefund, RefundWebhook

(* Who has come to a query has received a call.                               *)
LEMMA CameTo ==
    ASSUME RInv, [Next]_vars, NEW w \in Workers, sess'[w] \in OnQueries,
           ~(sess[w] \in OnQueries /\ sess[w].id = sess'[w].id)
    PROVE  Receive(w)
  <1>0. DOMAIN sess = Workers /\ Idle \notin OnQueries
    BY DEF RInv, SessionsFit, Idle, OnQueries
  <1>1. ASSUME NEW v \in Workers, Commit(v) \/ Crash(v) PROVE FALSE
    BY <1>0, <1>1 DEF Commit, Crash
  <1>2. ASSUME NEW v \in Workers, CreateRefund(v) PROVE FALSE
    <2>1. CASE v # w
      BY <1>0, <1>2, <2>1 DEF CreateRefund
    <2>2. CASE v = w
      <3>1. sess[w] \in OnQueries \/ sess[w] \in OnRequests
        BY <1>2, <2>2, SessionForms DEF RInv, CreateRefund, Idle
      <3>2. sess'[w].id = sess[w].id /\ sess'[w].on = sess[w].on
        BY <1>0, <1>2, <2>2, <3>1 DEF CreateRefund, OnQueries, OnRequests
      <3> QED
        BY <3>1, <3>2 DEF OnQueries, OnRequests
    <2> QED
      BY <2>1, <2>2
  <1>3. ASSUME NEW i \in DOMAIN ledger, PaystackEnds(i) PROVE FALSE
    BY <1>3 DEF PaystackEnds
  <1>4. ASSUME NEW v \in Workers, Receive(v), v # w PROVE FALSE
    BY <1>4, BeginsAlone
  <1>5. UNCHANGED vars => FALSE
    BY DEF vars
  <1> QED
    BY <1>1, <1>2, <1>3, <1>4, <1>5, WorkersTyped DEF Next

LEMMA QueriesApartNext ==
    ASSUME RInv, RInv', QueriesApart, JobsApart', [Next]_vars
    PROVE  QueriesApart'
  <1>1. OnQueries' = OnQueries
    BY DEF OnQueries, QueryRow, Items, NoRef
  <1> SUFFICES ASSUME NEW v \in Workers, NEW w \in Workers, v # w,
                      sess'[v] \in OnQueries, sess'[w] \in OnQueries,
                      sess'[v].id = sess'[w].id
               PROVE  FALSE
    BY <1>1 DEF QueriesApart
  <1> PICK q : q = sess'[v].id
    OBVIOUS
  <1>2. ASSUME NEW u \in Workers, sess'[u] \in OnQueries
        PROVE  /\ sess'[u] # Idle /\ sess'[u].on = "query"
               /\ sess'[u].seen = query'[sess'[u].id]
               /\ sess'[u].seen.status # "unused" =>
                      sess'[u].new.request = sess'[u].seen.request
    <2> PICK t : t = sess'[u]
      OBVIOUS
    <2>1. t.on = "query" /\ t # Idle
      BY <1>2 DEF OnQueries, Idle
    <2>2. SessionFits(sess[u])'
      BY DEF RInv, SessionsFit
    <2>3. WritesQuery(sess[u])'
      BY <1>1, <1>2, <2>2 DEF SessionFits
    <2> QED
      BY <2>1, <2>3 DEF WritesQuery
  <1>3. query'[q].status = "unused"
    <2> SUFFICES ASSUME query'[q].status # "unused" PROVE FALSE
      OBVIOUS
    <2>1. sess'[v].new.request = sess'[w].new.request
      BY <1>2
    <2>2. JobIn(sess[v])' = JobIn(sess[w])'
      BY <1>2, <2>1 DEF JobIn
    <2> QED
      BY <1>2, <2>2 DEF JobsApart, Idle
  <1>4. ASSUME NEW a \in Workers, NEW b \in Workers, a # b, Receive(a),
               sess'[a] \in OnQueries, sess'[b] \in OnQueries,
               sess'[a].id = q, sess'[b].id = q
        PROVE  FALSE
    <2>1. query[q].status = "unused" /\ sess'[b] = sess[b]
      BY <1>3, <1>4, BeginsAlone
    <2>2. sess[b] # Idle
      BY <1>2, <1>4, <2>1
    <2> QED
      BY <1>4, <2>1, <2>2, BeginsApart
  <1> QED
    BY <1>4, CameTo DEF QueriesApart

LEMMA RInvInit == Init => RInv
  <1> SUFFICES ASSUME Init PROVE RInv
    OBVIOUS
  <1>1. NewRequest \in RequestRow
    BY DEF NewRequest, RequestRow, Unset, NoRef
  <1>2. NewQuery \in QueryRow
    <2>1. 0 \in 0..MaxReviews
      BY WorkersTyped
    <2> QED
      BY <2>1 DEF NewQuery, QueryRow, NoRef, Items
  <1>3. Typed
    BY <1>1, <1>2 DEF Init, Typed
  <1>4. \A q \in Queries : query[q].status = "unused" /\ query[q].ref = NoRef
    BY DEF Init, NewQuery
  <1>5. QueriesFit
    BY <1>4 DEF QueriesFit, QueryFits, OwnRef
  <1>6. HeldWhileQueried
    BY <1>4 DEF Init, HeldWhileQueried, Active
  <1>7. GrantsWithin
    <2> SUFFICES ASSUME NEW r \in Requests PROVE AllGranted(r) <= Total(r)
      BY DEF GrantsWithin
    <2>1. \A q \in Queries : GrantedOn(r)[q] = 0
      BY <1>4 DEF GrantedOn, Granted
    <2>2. AllGranted(r) = SumOver(GrantedOn(r), {})
      <3>1. Counted(GrantedOn(r), Queries)
        BY <2>1 DEF Counted
      <3> QED
        BY <2>1, <3>1, RequestsTyped, SumOverTrimmed DEF AllGranted
    <2>3. SumOver(GrantedOn(r), {}) = 0
      BY FS_EmptySet, SumOverSplits
    <2> QED
      BY <2>2, <2>3, TotalFits
  <1>8. SessionsFit
    BY IdleFits DEF Init, SessionsFit
  <1> QED
    BY <1>3, <1>5, <1>6, <1>7, <1>8 DEF RInv

(* Only a commit changes a request.                                          *)
LEMMA RequestKept ==
    ASSUME [Next]_vars, request' # request
    PROVE  \E w \in Workers : Commit(w)
  <1>1. ASSUME NEW w \in Workers, Receive(w) PROVE request' = request
    BY <1>1 DEF Receive, OpenQuery, ApproveQuery, DenyQuery, Cancel, RequestRefund,
                ApproveRefund, DenyRefund, RefundWebhook, Begin
  <1> QED
    BY <1>1 DEF Next, vars, CreateRefund, PaystackEnds, Crash

----------------------------------------------------------------------------
(* Theorems                                                                  *)

(* While no two handlers are at work on the same job, what each read is still *)
(* so when it writes, holds and references are right, and the grants on each  *)
(* request stay within what was paid: the invariant behind the theorems       *)
(* below. Any number of handlers may be at work on other jobs, Paystack may   *)
(* end refunds between any two steps, a handler may crash at any point,       *)
(* replies may be lost and events repeated.                                   *)
THEOREM RefundsInvariance == Spec /\ []JobsApart => [](RInv /\ QueriesApart)
  <1>1. RInv /\ QueriesApart /\ JobsApart /\ JobsApart' /\ [Next]_vars => (RInv /\ QueriesApart)'
    BY RInvNext, QueriesApartNext
  <1>2. Init => QueriesApart
    BY DEF Init, QueriesApart, OnQueries, Idle
  <1> QED
    BY <1>1, <1>2, RInvInit, PTL DEF Spec

(* A job's bookings are held exactly while one of its charges has an active   *)
(* query: refresh_booking_dispute_holds counts the query at hand as the       *)
(* session has changed it, and every handler and event that changes a         *)
(* query's status calls it.                                                   *)
THEOREM HeldAlways == Spec /\ []JobsApart => []HeldWhileQueried
  <1>1. RInv => HeldWhileQueried
    BY DEF RInv
  <1> QED
    BY <1>1, RefundsInvariance, PTL

(* A query is closed as refunded by a refund of its own transaction that      *)
(* Paystack processed and that closes no other query: the webhook goes by     *)
(* the reference before it goes by the transaction, and a query that is open  *)
(* again keeps only the reference of a refund that failed.                    *)
THEOREM RefundedByOwn == Spec /\ []JobsApart => []RefundedByOwnRefund
  <1>1. RInv => RefundedByOwnRefund
    BY DEF RInv, QueriesFit, QueryFits, OwnRef, RefundedByOwnRefund
  <1> QED
    BY <1>1, RefundsInvariance, PTL

(* What finance grants on the queries of a request never exceeds what was     *)
(* paid for it, also when a decision is taken again after a refund failed     *)
(* (approve_charge_dispute), for any number of queries and any amounts.       *)
THEOREM GrantsStayWithin == Spec /\ []JobsApart => []QueryRefundsWithinPaid
  <1>1. RInv => QueryRefundsWithinPaid
    <2> SUFFICES ASSUME RInv, NEW r \in Requests
                 PROVE  MapThenSumSet(LAMBDA q : query[q].approved,
                      {q \in Queries : /\ query[q].request = r
                                       /\ query[q].status \in {"refund_requested",
                                                               "refunded"}}) <= Total(r)
      BY DEF QueryRefundsWithinPaid
    <2> PICK R : R = {q \in Queries : /\ query[q].request = r
                                       /\ query[q].status \in {"refund_requested",
                                                               "refunded"}}
      OBVIOUS
    <2>1. \A p \in Queries \ R : Granted(query[p], r) = 0
      BY DEF Granted
    <2>2. MapThenSumSet(LAMBDA p : query[p].approved, R) = AllGranted(r)
      <3>1. Typed
        BY DEF RInv
      <3> QED
        BY <2>1, <3>1, GrantedSum
    <2> QED
      BY <2>2 DEF RInv, GrantsWithin
  <1> QED
    BY <1>1, RefundsInvariance, PTL

(* A cancellation splits what was paid, and what the parent gets back falls   *)
(* with the notice and never below nothing, for any wage and fee              *)
(* (calculate_cancellation_outcome).                                          *)
THEOREM RefundsFall == Spec /\ []JobsApart => RefundFallsWithNotice
  <1> DEFINE Split == \A r \in Requests :
          request[r].kept = Unset /\ request'[r].kept # Unset =>
            /\ request'[r].cents + request'[r].kept = Total(r)
            /\ \A wage, fee \in 0..12 :
                  /\ ParentRefund(wage, fee, "A") = wage + fee
                  /\ ParentRefund(wage, fee, "A") >= ParentRefund(wage, fee, "B")
                  /\ ParentRefund(wage, fee, "B") >= ParentRefund(wage, fee, "C")
                  /\ ParentRefund(wage, fee, "C") >= 0
  <1>1. RInv /\ JobsApart /\ [Next]_vars => [Split]_vars
    <2> SUFFICES ASSUME RInv, JobsApart, [Next]_vars PROVE Split
      OBVIOUS
    <2>a. \A wage, fee \in 0..12 :
              /\ ParentRefund(wage, fee, "A") = wage + fee
              /\ ParentRefund(wage, fee, "A") >= ParentRefund(wage, fee, "B")
              /\ ParentRefund(wage, fee, "B") >= ParentRefund(wage, fee, "C")
              /\ ParentRefund(wage, fee, "C") >= 0
      BY RefundFalls
    <2> SUFFICES ASSUME NEW r \in Requests, request[r].kept = Unset, request'[r].kept # Unset
                 PROVE  request'[r].cents + request'[r].kept = Total(r)
      BY <2>a
    <2>1. PICK w \in Workers : Commit(w)
      BY RequestKept
    <2>2. sess[w] \in OnRequests
      <3>1. sess[w] # Idle
        BY <2>1 DEF Commit, Idle
      <3>2. CASE sess[w] \in OnQueries
        <4>1. sess[w].on = "query"
          BY <3>2 DEF OnQueries
        <4>2. request' = request
          BY <2>1, <4>1 DEF Commit
        <4> QED
          BY <4>2
      <3> QED
        BY <3>1, <3>2, SessionForms DEF RInv
    <2> QED
      BY <2>1, <2>2, CommitRequest
  <1> HIDE DEF Split
  <1>2. Spec /\ []JobsApart => [][Split]_vars
    BY <1>1, RefundsInvariance, PTL DEF Spec
  <1> QED
    BY <1>2, PTL DEF RefundFallsWithNotice, Split

============================================================================
