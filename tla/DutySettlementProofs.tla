------------------------ MODULE DutySettlementProofs ------------------------
(* Proofs about DutySettlement, for any number of bookings, handlers and runs *)
(* and any amounts: a released payout was transferred, and every part of the  *)
(* state keeps its type, whatever handlers and runs overlap and wherever they *)
(* stop. While no two handlers are on one booking the payout fits the         *)
(* service, and reliable handlers refund once. While no two runs overlap the  *)
(* debt adds up, and reliable runs pay once.                                  *)
EXTENDS DutySettlement, FiniteSetTheorems, TLAPS

----------------------------------------------------------------------------
(* Sums over finite sets: they exist, do not depend on the order of the terms *)
(* and change by what one term changes.  The induction over the subsets of a  *)
(* set is by smallest counterexample, which needs no operator as a parameter. *)

First(s) == CHOOSE x \in s : TRUE

(* f sums g over each subset of S, the way MapThenSumSet does.                *)
Sums(g, S, f) ==
    f = [s \in SUBSET S |-> IF s = {} THEN 0 ELSE g[First(s)] + f[s \ {First(s)}]]

SumOver(g, S) == (CHOOSE f : Sums(g, S, f))[S]

(* A nonempty set of subsets of a finite set has a smallest one.              *)
LEMMA Smallest ==
    ASSUME NEW S, IsFiniteSet(S), NEW D \in SUBSET SUBSET S, D # {}
    PROVE  \E s \in D : \A t \in D : t \subseteq s => t = s
  <1>1. IsWellFoundedOn(StrictSubsetOrdering(S), SUBSET S)
    BY FS_FiniteSubsetsOfFinite, FS_StrictSubsetOrderingWellFounded
  <1>2. PICK s \in D : \A t \in D : <<t, s>> \notin StrictSubsetOrdering(S)
    BY <1>1, WFMin, Zenon
  <1>3. \A t \in D : t \subseteq s => t = s
    BY <1>2 DEF StrictSubsetOrdering
  <1> QED
    BY <1>3

LEMMA FirstIn == \A s : s # {} => First(s) \in s
  BY DEF First

LEMMA SumsUnique ==
    ASSUME NEW S, IsFiniteSet(S), NEW g, NEW f, NEW h, Sums(g, S, f), Sums(g, S, h)
    PROVE  f = h
  <1> PICK D : D = {s \in SUBSET S : f[s] # h[s]}
    OBVIOUS
  <1>0. /\ f = [s \in SUBSET S |-> IF s = {} THEN 0 ELSE g[First(s)] + f[s \ {First(s)}]]
        /\ h = [s \in SUBSET S |-> IF s = {} THEN 0 ELSE g[First(s)] + h[s \ {First(s)}]]
    BY DEF Sums
  <1>a. /\ DOMAIN f = SUBSET S /\ DOMAIN h = SUBSET S
        /\ \A s \in SUBSET S : f[s] = IF s = {} THEN 0 ELSE g[First(s)] + f[s \ {First(s)}]
        /\ \A s \in SUBSET S : h[s] = IF s = {} THEN 0 ELSE g[First(s)] + h[s \ {First(s)}]
    BY <1>0
  <1>1. ASSUME D # {} PROVE FALSE
    <2>1. PICK s \in D : \A t \in D : t \subseteq s => t = s
      BY <1>1, Smallest
    <2>2. s # {} /\ s \in SUBSET S
      BY <1>a, <2>1
    <2>3. s \ {First(s)} \in SUBSET S /\ s \ {First(s)} # s
      BY <2>2, FirstIn
    <2>4. f[s \ {First(s)}] = h[s \ {First(s)}]
      BY <2>1, <2>3
    <2>5. f[s] = h[s]
      BY <1>a, <2>2, <2>4
    <2> QED
      BY <2>1, <2>5
  <1>2. \A s \in SUBSET S : f[s] = h[s]
    BY <1>1
  <1> QED
    BY <1>0, <1>2, <1>a

LEMMA SumsWithin ==
    ASSUME NEW S, NEW g, NEW f, Sums(g, S, f), NEW T \in SUBSET S,
           NEW h, h = [s \in SUBSET T |-> f[s]]
    PROVE  Sums(g, T, h)
  <1>0. f = [s \in SUBSET S |-> IF s = {} THEN 0 ELSE g[First(s)] + f[s \ {First(s)}]]
    BY DEF Sums
  <1>1. \A s \in SUBSET T :
           h[s] = IF s = {} THEN 0 ELSE g[First(s)] + h[s \ {First(s)}]
    <2> TAKE s \in SUBSET T
    <2>1. s \in SUBSET S /\ s \ {First(s)} \in SUBSET T
      OBVIOUS
    <2>2. f[s] = IF s = {} THEN 0 ELSE g[First(s)] + f[s \ {First(s)}]
      BY <1>0, <2>1
    <2> QED
      BY <2>1, <2>2
  <1>2. h = [s \in SUBSET T |-> IF s = {} THEN 0 ELSE g[First(s)] + h[s \ {First(s)}]]
    BY <1>1
  <1> QED
    BY <1>2 DEF Sums

LEMMA SumsStep ==
    ASSUME NEW g, NEW T, IsFiniteSet(T),
           \A t \in SUBSET T : t # T => \E f : Sums(g, t, f)
    PROVE  \E f : Sums(g, T, f)
  <1>2. \A t \in SUBSET T : t # T => \E f : Sums(g, t, f)
    OBVIOUS
  <1> PICK h : h = [t \in SUBSET T |-> SumOver(g, t)]
    OBVIOUS
  <1>3. ASSUME NEW t \in SUBSET T, t # T
        PROVE  h[t] = IF t = {} THEN 0 ELSE g[First(t)] + h[t \ {First(t)}]
    <2> PICK f : f = (CHOOSE q : Sums(g, t, q))
      OBVIOUS
    <2>1. Sums(g, t, f)
      BY <1>2, <1>3
    <2>2. h[t] = f[t]
      BY DEF SumOver
    <2>3. f[t] = IF t = {} THEN 0 ELSE g[First(t)] + f[t \ {First(t)}]
      BY <2>1 DEF Sums
    <2>4. CASE t # {}
      <3> PICK u : u = t \ {First(t)}
        OBVIOUS
      <3>1. u \in SUBSET t /\ u # T /\ u \in SUBSET T
        BY <1>3, <2>4, FirstIn
      <3> PICK q : q = (CHOOSE p : Sums(g, u, p))
        OBVIOUS
      <3>2. Sums(g, u, q)
        BY <1>2, <3>1
      <3> PICK p : p = [s \in SUBSET u |-> f[s]]
        OBVIOUS
      <3>3. Sums(g, u, p)
        BY <2>1, <3>1, SumsWithin
      <3>4. IsFiniteSet(u)
        BY <3>1, FS_Subset
      <3>5. q = p
        BY <3>2, <3>3, <3>4, SumsUnique
      <3>6. q[u] = f[u]
        BY <3>5
      <3>7. h[u] = q[u]
        BY <3>1 DEF SumOver
      <3> QED
        BY <2>2, <2>3, <2>4, <3>6, <3>7
    <2> QED
      BY <2>2, <2>3, <2>4
  <1> PICK f : f = [t \in SUBSET T |-> IF t = {} THEN 0 ELSE g[First(t)] + h[t \ {First(t)}]]
    OBVIOUS
  <1>4. \A t \in SUBSET T : t # T => f[t] = h[t]
    BY <1>3
  <1>5. \A t \in SUBSET T :
           f[t] = IF t = {} THEN 0 ELSE g[First(t)] + f[t \ {First(t)}]
    <2> TAKE t \in SUBSET T
    <2>1. f[t] = IF t = {} THEN 0 ELSE g[First(t)] + h[t \ {First(t)}]
      OBVIOUS
    <2>2. t # {} => t \ {First(t)} \in SUBSET T /\ t \ {First(t)} # T
      BY FirstIn
    <2> QED
      BY <1>4, <2>1, <2>2
  <1>6. f = [t \in SUBSET T |-> IF t = {} THEN 0 ELSE g[First(t)] + f[t \ {First(t)}]]
    BY <1>5
  <1> QED
    BY <1>6 DEF Sums

Unsummed(g, S) == {s \in SUBSET S : ~\E f : Sums(g, s, f)}

LEMMA SumsExist ==
    ASSUME NEW S, IsFiniteSet(S), NEW g
    PROVE  \E f : Sums(g, S, f)
  <1>1. ASSUME Unsummed(g, S) # {} PROVE FALSE
    <2>0. Unsummed(g, S) \in SUBSET SUBSET S
      BY DEF Unsummed
    <2>1. PICK T \in Unsummed(g, S) : \A t \in Unsummed(g, S) : t \subseteq T => t = T
      BY <1>1, <2>0, Smallest
    <2>2. \A t \in SUBSET T : t # T => \E f : Sums(g, t, f)
      BY <2>0, <2>1 DEF Unsummed
    <2>3. IsFiniteSet(T)
      BY <2>0, <2>1, FS_Subset
    <2>4. \E f : Sums(g, T, f)
      BY <2>2, <2>3, SumsStep
    <2> QED
      BY <2>1, <2>4 DEF Unsummed
  <1> QED
    BY <1>1 DEF Unsummed

LEMMA SumOverSplits ==
    ASSUME NEW S, IsFiniteSet(S), NEW g
    PROVE  SumOver(g, S) = IF S = {} THEN 0 ELSE g[First(S)] + SumOver(g, S \ {First(S)})
  <1> PICK f : f = (CHOOSE q : Sums(g, S, q))
    OBVIOUS
  <1>1. Sums(g, S, f)
    BY SumsExist
  <1>2. f[S] = IF S = {} THEN 0 ELSE g[First(S)] + f[S \ {First(S)}]
    BY <1>1 DEF Sums
  <1> PICK T : T = S \ {First(S)}
    OBVIOUS
  <1>3. T \in SUBSET S /\ IsFiniteSet(T)
    BY FS_Subset
  <1> PICK h : h = (CHOOSE q : Sums(g, T, q))
    OBVIOUS
  <1>4. Sums(g, T, h)
    BY <1>3, SumsExist
  <1> PICK p : p = [s \in SUBSET T |-> f[s]]
    OBVIOUS
  <1>5. Sums(g, T, p)
    BY <1>1, <1>3, SumsWithin
  <1>6. h = p
    BY <1>3, <1>4, <1>5, SumsUnique
  <1>7. h[T] = f[T]
    BY <1>6
  <1> QED
    BY <1>2, <1>7 DEF SumOver

Missing(S, G) == (SUBSET S) \ G

(* Of the subsets that are not in G there is a smallest one.                  *)
LEMMA FirstMissing ==
    ASSUME NEW S, IsFiniteSet(S), NEW G, ~(SUBSET S \subseteq G)
    PROVE  \E s \in SUBSET S : s \notin G /\ \A t \in SUBSET s : t # s => t \in G
  <1>1. Missing(S, G) \in SUBSET SUBSET S /\ Missing(S, G) # {}
    BY DEF Missing
  <1>a. \A s \in Missing(S, G) : s \in SUBSET S /\ s \notin G
    BY DEF Missing
  <1>2. PICK s \in Missing(S, G) : \A t \in Missing(S, G) : t \subseteq s => t = s
    BY <1>1, Smallest
  <1>3. s \in SUBSET S /\ s \notin G
    BY <1>a
  <1>4. \A t \in SUBSET s : t # s => t \in G
    <2> TAKE t \in SUBSET s
    <2>1. t \in SUBSET S
      BY <1>3
    <2> QED
      BY <1>2, <2>1 DEF Missing
  <1> QED
    BY <1>3, <1>4

(* A set of subsets is all of them when it has each whose smaller ones it has. *)
LEMMA AllSubsets ==
    ASSUME NEW S, IsFiniteSet(S), NEW G,
           \A s \in SUBSET S : (\A t \in SUBSET s : t # s => t \in G) => s \in G
    PROVE  SUBSET S \subseteq G
  BY FirstMissing

Counted(g, S) == \A x \in S : g[x] \in Int

Summable(g, S) == {s \in SUBSET S : SumOver(g, s) \in Int}

LEMMA SumOverFits ==
    ASSUME NEW S, IsFiniteSet(S), NEW g, Counted(g, S)
    PROVE  SumOver(g, S) \in Int
  <1>1. ASSUME NEW s \in SUBSET S, \A t \in SUBSET s : t # s => t \in Summable(g, S)
        PROVE  s \in Summable(g, S)
    <2>1. IsFiniteSet(s)
      BY FS_Subset
    <2>2. SumOver(g, s) = IF s = {} THEN 0 ELSE g[First(s)] + SumOver(g, s \ {First(s)})
      BY <2>1, SumOverSplits
    <2>3. s # {} => g[First(s)] \in Int /\ SumOver(g, s \ {First(s)}) \in Int
      BY <1>1, FirstIn DEF Counted, Summable
    <2> QED
      BY <2>2, <2>3 DEF Summable
  <1>2. SUBSET S \subseteq Summable(g, S)
    BY <1>1, AllSubsets
  <1> QED
    BY <1>2 DEF Summable

(* Functions that agree on a set have the same sum over it.                   *)
Alike(g, h, S) == {s \in SUBSET S : SumOver(g, s) = SumOver(h, s)}

LEMMA SumOverSame ==
    ASSUME NEW S, IsFiniteSet(S), NEW g, NEW h, \A x \in S : g[x] = h[x]
    PROVE  SumOver(g, S) = SumOver(h, S)
  <1>1. ASSUME NEW s \in SUBSET S, \A t \in SUBSET s : t # s => t \in Alike(g, h, S)
        PROVE  s \in Alike(g, h, S)
    <2>1. IsFiniteSet(s)
      BY FS_Subset
    <2>2. /\ SumOver(g, s) = IF s = {} THEN 0 ELSE g[First(s)] + SumOver(g, s \ {First(s)})
          /\ SumOver(h, s) = IF s = {} THEN 0 ELSE h[First(s)] + SumOver(h, s \ {First(s)})
      BY <2>1, SumOverSplits
    <2>3. s # {} => /\ g[First(s)] = h[First(s)]
                    /\ SumOver(g, s \ {First(s)}) = SumOver(h, s \ {First(s)})
      BY <1>1, FirstIn DEF Alike
    <2> QED
      BY <2>2, <2>3 DEF Alike
  <1>2. SUBSET S \subseteq Alike(g, h, S)
    BY <1>1, AllSubsets
  <1> QED
    BY <1>2 DEF Alike

(* The sum does not depend on the order in which its terms are taken.         *)
Orderless(g, S) ==
    {s \in SUBSET S : \A x \in s : SumOver(g, s) = g[x] + SumOver(g, s \ {x})}

(* A sum is any one of its terms and the sum of the others.                   *)
LEMMA SumOverTakes ==
    ASSUME NEW S, IsFiniteSet(S), NEW g, Counted(g, S), NEW x \in S
    PROVE  SumOver(g, S) = g[x] + SumOver(g, S \ {x})
  <1>1. ASSUME NEW s \in SUBSET S, \A t \in SUBSET s : t # s => t \in Orderless(g, S)
        PROVE  s \in Orderless(g, S)
    <2> SUFFICES ASSUME NEW y \in s PROVE SumOver(g, s) = g[y] + SumOver(g, s \ {y})
      BY DEF Orderless
    <2> PICK c : c = First(s)
      OBVIOUS
    <2>1. c \in s /\ s # {} /\ IsFiniteSet(s)
      BY FirstIn, FS_Subset
    <2>2. SumOver(g, s) = g[c] + SumOver(g, s \ {c})
      BY <2>1, SumOverSplits
    <2>3. CASE y # c
      <3>1. SumOver(g, s \ {c}) = g[y] + SumOver(g, (s \ {c}) \ {y})
        <4>1. s \ {c} \in Orderless(g, S)
          BY <1>1, <2>1
        <4> QED
          BY <2>3, <4>1 DEF Orderless
      <3>2. SumOver(g, s \ {y}) = g[c] + SumOver(g, (s \ {y}) \ {c})
        <4>1. s \ {y} \in Orderless(g, S)
          BY <1>1, <2>1
        <4> QED
          BY <2>1, <2>3, <4>1 DEF Orderless
      <3> PICK u : u = (s \ {c}) \ {y}
        OBVIOUS
      <3>3. u = (s \ {y}) \ {c}
        OBVIOUS
      <3>4. g[c] \in Int /\ g[y] \in Int /\ SumOver(g, u) \in Int
        <4>1. IsFiniteSet(u) /\ Counted(g, u)
          BY <2>1, FS_Subset DEF Counted
        <4> QED
          BY <2>1, <4>1, SumOverFits DEF Counted
      <3>5. SumOver(g, s) = g[c] + (g[y] + SumOver(g, u))
        BY <2>2, <3>1
      <3>6. SumOver(g, s \ {y}) = g[c] + SumOver(g, u)
        BY <3>2, <3>3
      <3> QED
        BY <3>4, <3>5, <3>6
    <2> QED
      BY <2>2, <2>3
  <1>2. SUBSET S \subseteq Orderless(g, S)
    BY <1>1, AllSubsets
  <1> QED
    BY <1>2 DEF Orderless

(* The sum changes by what one term changes: what a booking has repaid.       *)
LEMMA SumOverChanged ==
    ASSUME NEW S, IsFiniteSet(S), NEW g, NEW h, Counted(g, S), Counted(h, S),
           NEW x \in S, \A y \in S \ {x} : h[y] = g[y]
    PROVE  SumOver(h, S) = SumOver(g, S) - g[x] + h[x]
  <1> PICK T : T = S \ {x}
    OBVIOUS
  <1>1. IsFiniteSet(T) /\ Counted(g, T)
    BY FS_Subset DEF Counted
  <1>2. SumOver(g, T) = SumOver(h, T) /\ SumOver(g, T) \in Int
    BY <1>1, SumOverSame, SumOverFits
  <1>3. SumOver(g, S) = g[x] + SumOver(g, T) /\ SumOver(h, S) = h[x] + SumOver(h, T)
    BY SumOverTakes
  <1>4. g[x] \in Int /\ h[x] \in Int
    BY DEF Counted
  <1> QED
    BY <1>2, <1>3, <1>4

(* Terms that are zero may be left out.                                       *)
Trimmed(g, S, R) == {s \in SUBSET S : SumOver(g, s) = SumOver(g, s \cap R)}

LEMMA SumOverTrimmed ==
    ASSUME NEW S, IsFiniteSet(S), NEW g, Counted(g, S),
           NEW R \in SUBSET S, \A x \in S \ R : g[x] = 0
    PROVE  SumOver(g, S) = SumOver(g, R)
  <1>1. ASSUME NEW s \in SUBSET S, \A t \in SUBSET s : t # s => t \in Trimmed(g, S, R)
        PROVE  s \in Trimmed(g, S, R)
    <2>1. IsFiniteSet(s) /\ IsFiniteSet(s \cap R) /\ Counted(g, s \cap R)
      BY FS_Subset DEF Counted
    <2>2. CASE s = {}
      BY <2>2 DEF Trimmed
    <2>3. CASE s # {}
      <3> PICK c : c = First(s)
        OBVIOUS
      <3>1. c \in s /\ s \ {c} \in SUBSET s /\ s \ {c} # s
        BY <2>3, FirstIn
      <3>2. SumOver(g, s) = g[c] + SumOver(g, s \ {c})
        BY <2>1, <2>3, SumOverSplits
      <3> PICK u : u = (s \ {c}) \cap R
        OBVIOUS
      <3>3. SumOver(g, s \ {c}) = SumOver(g, u)
        BY <1>1, <3>1 DEF Trimmed
      <3>4. SumOver(g, u) \in Int
        <4>1. IsFiniteSet(u) /\ Counted(g, u)
          BY <2>1, FS_Subset DEF Counted
        <4> QED
          BY <4>1, SumOverFits
      <3>5. CASE c \in R
        <4>1. u = (s \cap R) \ {c} /\ c \in s \cap R
          BY <3>1, <3>5
        <4>2. SumOver(g, s \cap R) = g[c] + SumOver(g, u)
          BY <2>1, <4>1, SumOverTakes
        <4> QED
          BY <3>2, <3>3, <4>2 DEF Trimmed
      <3>6. CASE c \notin R
        <4>1. u = s \cap R /\ g[c] = 0
          BY <3>1, <3>6
        <4>2. SumOver(g, s) = SumOver(g, u)
          BY <3>2, <3>3, <3>4, <4>1
        <4> QED
          BY <4>1, <4>2 DEF Trimmed
      <3> QED
        BY <3>5, <3>6
    <2> QED
      BY <2>2, <2>3
  <1>2. SUBSET S \subseteq Trimmed(g, S, R)
    BY <1>1, AllSubsets
  <1>3. S \cap R = R
    OBVIOUS
  <1> QED
    BY <1>2, <1>3 DEF Trimmed

----------------------------------------------------------------------------
(* The inductive invariant                                                   *)

Marks == {"released", "overrunReleased"}

(* A copy x of a booking's row marks as released only what was transferred    *)
(* for it according to its ledger entry l.                                    *)
Paid(l, x) ==
    /\ Marks \subseteq DOMAIN x
    /\ x.released => l.transfers > 0
    /\ x.overrunReleased => l.overtimes > 0

LedgerCounts ==
    /\ DOMAIN ledger = Bookings
    /\ \A b \in Bookings :
          /\ {"transfers", "overtimes"} \subseteq DOMAIN ledger[b]
          /\ ledger[b].transfers \in Nat /\ ledger[b].overtimes \in Nat

RowsPaid == DOMAIN row = Bookings /\ \A b \in Bookings : Paid(ledger[b], row[b])

(* The ledger l covers both rows of a session s.                              *)
SessionPaid(l, s) ==
    s.phase # "idle" =>
        /\ {"phase", "booking", "seen", "new", "stamped", "keep"} \subseteq DOMAIN s
        /\ s.booking \in Bookings
        /\ Paid(l[s.booking], s.seen) /\ Paid(l[s.booking], s.new)

SessionsPaid == DOMAIN sess = Handlers /\ \A h \in Handlers : SessionPaid(ledger, sess[h])

(* The ledger l covers both copies of each row that a run r has loaded.       *)
RunPaid(l, r) ==
    r.phase # "idle" =>
        /\ {"phase", "step", "todo", "read", "view", "booking", "written",
            "balance", "debt"} \subseteq DOMAIN r
        /\ DOMAIN r.read = DOMAIN r.view
        /\ DOMAIN r.read \subseteq Bookings
        /\ r.todo \cup r.booking \cup r.written \subseteq DOMAIN r.read
        /\ \A b \in DOMAIN r.read : Paid(l[b], r.read[b]) /\ Paid(l[b], r.view[b])

RunsPaid == DOMAIN run = Runners /\ \A k \in Runners : RunPaid(ledger, run[k])

PaidInv == LedgerCounts /\ RowsPaid /\ SessionsPaid /\ RunsPaid

----------------------------------------------------------------------------
(* Rows                                                                      *)

(* x has the columns of y and its marks.                                      *)
KeepsMarks(x, y) ==
    /\ DOMAIN x = DOMAIN y
    /\ x.released = y.released /\ x.overrunReleased = y.overrunReleased

(* No handler sets or clears a mark.                                         *)
LEMMA SettlementKeepsMarks ==
    ASSUME NEW b, NEW x, Marks \subseteq DOMAIN x
    PROVE  /\ KeepsMarks(Recalculated(b, x), x)
           /\ KeepsMarks(Finalized(b, x), x)
           /\ KeepsMarks(AsCancelled(x), x)
           /\ KeepsMarks(AsCharged(x), x)
  <1>1. KeepsMarks(Recalculated(b, x), x)
    BY DEF KeepsMarks, Recalculated, Marks
  <1>2. KeepsMarks(Finalized(b, x), x)
    BY <1>1 DEF KeepsMarks, Finalized, Marks
  <1>3. KeepsMarks(AsCancelled(x), x) /\ KeepsMarks(AsCharged(x), x)
    BY DEF KeepsMarks, AsCancelled, AsCharged, Marks
  <1> QED BY <1>1, <1>2, <1>3

(* Being paid for depends on the marks only.                                  *)
LEMMA MarksPaid ==
    ASSUME NEW l, NEW x, NEW y, KeepsMarks(x, y), Paid(l, y)
    PROVE  Paid(l, x)
  BY DEF KeepsMarks, Paid

(* Each column of a flushed row comes from the session or the database.      *)
LEMMA FlushPaid ==
    ASSUME NEW l, NEW read, NEW new, NEW stamped, NEW db, Paid(l, new), Paid(l, db)
    PROVE  Paid(l, Flush(read, new, stamped, db))
  <1> DEFINE y == Flush(read, new, stamped, db)
  <1>1. Marks \subseteq DOMAIN y
    BY DEF Flush, Paid
  <1>2. /\ y.released = db.released \/ y.released = new.released
        /\ y.overrunReleased = db.overrunReleased \/ y.overrunReleased = new.overrunReleased
    BY DEF Flush, Paid, Marks
  <1> QED BY <1>1, <1>2 DEF Paid

----------------------------------------------------------------------------
(* The ledger only grows                                                     *)

Grown(old, new) ==
    /\ new.transfers \in Nat /\ new.transfers >= old.transfers
    /\ new.overtimes \in Nat /\ new.overtimes >= old.overtimes
    /\ {"transfers", "overtimes"} \subseteq DOMAIN new

LedgerGrows ==
    DOMAIN ledger' = Bookings /\ \A b \in Bookings : Grown(ledger[b], ledger'[b])

(* What was paid for stays so when the ledger grows.                          *)
LEMMA GrownPaid ==
    ASSUME NEW old, NEW new, Grown(old, new), old.transfers \in Nat,
           old.overtimes \in Nat, NEW x, Paid(old, x)
    PROVE  Paid(new, x)
  BY DEF Grown, Paid

(* An unchanged ledger has grown by nothing.                                  *)
LEMMA LedgerKept == ASSUME LedgerCounts, UNCHANGED ledger PROVE LedgerGrows
  BY DEF LedgerCounts, LedgerGrows, Grown

(* Only the calls to Paystack change the ledger, and they only add to it.     *)
LEMMA LedgerNext == LedgerCounts /\ [Next]_vars => LedgerGrows /\ LedgerCounts'
  <1> SUFFICES ASSUME LedgerCounts, [Next]_vars PROVE LedgerGrows
    BY DEF LedgerGrows, LedgerCounts, Grown
  <1>1. ASSUME NEW h \in Handlers, Refund(h) PROVE LedgerGrows
    BY <1>1 DEF Refund, LedgerCounts, LedgerGrows, Grown
  <1>2. ASSUME NEW h \in Handlers, ChargeOvertime(h) PROVE LedgerGrows
    BY <1>2 DEF ChargeOvertime, LedgerCounts, LedgerGrows, Grown
  <1>3. ASSUME NEW k \in Runners, NEW b \in Bookings, Transfer(k, b) PROVE LedgerGrows
    BY <1>3 DEF Transfer, LedgerCounts, LedgerGrows, Grown
  <1>4. ASSUME UNCHANGED ledger PROVE LedgerGrows
    BY <1>4, LedgerKept
  <1>5. ASSUME NEW h \in Handlers, Commit(h) \/ \E b \in Bookings : Receive(h, b)
        PROVE  LedgerGrows
    BY <1>4, <1>5 DEF Commit, Receive
  <1>6. ASSUME NEW k \in Runners,
               \/ PayoutRead(k) \/ OvertimeRead(k) \/ Record(k) \/ PayoutCommit(k)
               \/ \E b \in Bookings : PassOver(k, b) \/ Deduct(k, b) \/ TakeOvertime(k, b)
        PROVE  LedgerGrows
    BY <1>4, <1>6 DEF PayoutRead, OvertimeRead, Record, PayoutCommit, PassOver, Deduct,
                      TakeOvertime
  <1>7. ASSUME Environment PROVE LedgerGrows
    BY <1>4, <1>7 DEF Environment, HoldElapses, QueryHold, Crash
  <1>8. CASE UNCHANGED vars
    BY <1>4, <1>8 DEF vars
  <1> QED BY <1>1, <1>2, <1>3, <1>5, <1>6, <1>7, <1>8 DEF Next, Serve, PayoutStep

----------------------------------------------------------------------------
(* The handlers                                                              *)

(* A handler starts from the committed row and keeps its marks.              *)
LEMMA ReceiveWorks ==
    ASSUME RowsPaid, NEW h \in Handlers, NEW b \in Bookings, Receive(h, b)
    PROVE  \E phase, new, stamped, keep :
              KeepsMarks(new, row[b]) /\ Work(h, b, phase, new, stamped, keep)
  <1> DEFINE Works == \E phase, new, stamped, keep :
                 KeepsMarks(new, row[b]) /\ Work(h, b, phase, new, stamped, keep)
  <1> USE DEF RowsPaid
  <1>0. Marks \subseteq DOMAIN row[b]
    BY DEF Paid
  <1>a. ASSUME NEW x, KeepsMarks(x, row[b]) PROVE Marks \subseteq DOMAIN x
    BY <1>0, <1>a DEF KeepsMarks
  <1>b. ASSUME NEW x, KeepsMarks(x, row[b]), Write(h, b, x) PROVE Works
    BY <1>b DEF Write
  <1>c. ASSUME NEW x, KeepsMarks(x, row[b])
        PROVE  KeepsMarks(Recalculated(b, x), row[b]) /\ KeepsMarks(Finalized(b, x), row[b])
    BY <1>a, <1>c, SettlementKeepsMarks DEF KeepsMarks
  <1>d. ASSUME NEW x, KeepsMarks(x, row[b]), NEW stamped, Settle(h, b, x, stamped)
        PROVE  Works
    <2>1. CASE NeedsRefund(b, x)
      BY <1>d, <2>1 DEF Settle
    <2>2. CASE ~NeedsRefund(b, x)
      BY <1>c, <1>d, <2>2 DEF Settle
    <2> QED BY <2>1, <2>2
  <1>1. ASSUME CheckIn(h, b) PROVE Works
    <2> PICK t \in 0..(Scheduled - 1) :
          Write(h, b, Recalculated(b, [row[b] EXCEPT !.checkIn = t, !.status = "accepted"]))
      BY <1>1 DEF CheckIn
    <2>1. KeepsMarks([row[b] EXCEPT !.checkIn = t, !.status = "accepted"], row[b])
      BY <1>0 DEF KeepsMarks, Marks
    <2> QED BY <2>1, <1>b, <1>c
  <1>2. ASSUME CheckOut(h, b) PROVE Works
    <2> PICK t \in Times :
          LET x == Recalculated(b, [row[b] EXCEPT !.checkOut = t]) IN
          IF Overtime(x) > 0
          THEN Write(h, b, [x EXCEPT !.overrun = "awaiting_parent",
                                     !.overrunAmount = Overtime(x),
                                     !.status = "awaiting_overtime_approval",
                                     !.hold = "none"])
          ELSE Write(h, b, [x EXCEPT !.overrun = "none", !.hold = "none",
                                     !.status = "awaiting_time_confirmation"])
      BY <1>2 DEF CheckOut
    <2> DEFINE x == Recalculated(b, [row[b] EXCEPT !.checkOut = t])
    <2>1. KeepsMarks([row[b] EXCEPT !.checkOut = t], row[b])
      BY <1>0 DEF KeepsMarks, Marks
    <2>2. KeepsMarks(x, row[b])
      BY <2>1, <1>c
    <2> HIDE DEF x
    <2>3. /\ KeepsMarks([x EXCEPT !.overrun = "awaiting_parent",
                                  !.overrunAmount = Overtime(x),
                                  !.status = "awaiting_overtime_approval",
                                  !.hold = "none"], row[b])
          /\ KeepsMarks([x EXCEPT !.overrun = "none", !.hold = "none",
                                  !.status = "awaiting_time_confirmation"], row[b])
      BY <2>2, <1>a DEF KeepsMarks, Marks
    <2> QED BY <2>3, <1>b DEF x
  <1>3. ASSUME ConfirmCheckIn(h, b) PROVE Works
    <2> PICK t \in Times :
          Settle(h, b, [row[b] EXCEPT !.checkIn = t, !.inConfirmed = TRUE], {"inConfirmed"})
      BY <1>3 DEF ConfirmCheckIn
    <2>1. KeepsMarks([row[b] EXCEPT !.checkIn = t, !.inConfirmed = TRUE], row[b])
      BY <1>0 DEF KeepsMarks, Marks
    <2> QED BY <2>1, <1>d
  <1>4. ASSUME ConfirmCheckOut(h, b) PROVE Works
    <2> PICK t \in Times :
          Settle(h, b, [row[b] EXCEPT !.checkOut = t, !.outConfirmed = TRUE],
                 {"outConfirmed"})
      BY <1>4 DEF ConfirmCheckOut
    <2>1. KeepsMarks([row[b] EXCEPT !.checkOut = t, !.outConfirmed = TRUE], row[b])
      BY <1>0 DEF KeepsMarks, Marks
    <2> QED BY <2>1, <1>d
  <1>5. ASSUME DenyCheckIn(h, b) \/ DenyCheckOut(h, b) PROVE Works
    BY <1>0, <1>5 DEF DenyCheckIn, DenyCheckOut, Write, KeepsMarks, Marks
  <1>6. ASSUME AgreeOvertime(h, b) PROVE Works
    BY <1>6 DEF AgreeOvertime, KeepsMarks
  <1>7. ASSUME QueryOvertime(h, b) \/ DisputePayout(h, b) PROVE Works
    BY <1>0, <1>7 DEF QueryOvertime, DisputePayout, Write, KeepsMarks, Marks
  <1>8. ASSUME NannyCancel(h, b) \/ ParentCancel(h, b) \/ MarkNannyNoShow(h, b)
        PROVE  Works
    <2>1. KeepsMarks(AsCancelled(row[b]), row[b]) /\ KeepsMarks(row[b], row[b])
      BY <1>0, SettlementKeepsMarks DEF KeepsMarks
    <2> QED BY <1>8, <2>1 DEF NannyCancel, ParentCancel, MarkNannyNoShow
  <1>9. ASSUME MarkParentNoShow(h, b) PROVE Works
    BY <1>0, <1>9 DEF MarkParentNoShow, KeepsMarks, Marks
  <1>10. ASSUME UpdateStatus(h, b) PROVE Works
    <2> PICK target : Write(h, b, [row[b] EXCEPT !.status = target])
      BY <1>10 DEF UpdateStatus
    <2>1. KeepsMarks([row[b] EXCEPT !.status = target], row[b])
      BY <1>0 DEF KeepsMarks, Marks
    <2> QED BY <2>1, <1>b
  <1> QED BY <1>1, <1>2, <1>3, <1>4, <1>5, <1>6, <1>7, <1>8, <1>9, <1>10 DEF Receive

(* The ledger's growth leaves every copy of a row paid for.                  *)
LEMMA StaysPaid ==
    ASSUME LedgerCounts, LedgerGrows, NEW b \in Bookings, NEW x, Paid(ledger[b], x)
    PROVE  Paid(ledger'[b], x)
  BY GrownPaid DEF LedgerCounts, LedgerGrows

(* A session that goes on keeps its rows paid for.                            *)
LEMMA SessionStays ==
    ASSUME LedgerCounts, LedgerGrows, SessionsPaid, NEW h \in Handlers,
           sess'[h] = sess[h]
    PROVE  SessionPaid(ledger', sess[h])
  BY StaysPaid DEF SessionsPaid, SessionPaid

(* Whatever a handler does, the rows in its session stay paid for.            *)
LEMMA SessionsNext ==
    LedgerCounts /\ RowsPaid /\ SessionsPaid /\ [Next]_vars => SessionsPaid'
  <1> SUFFICES ASSUME LedgerCounts, RowsPaid, SessionsPaid, [Next]_vars
               PROVE  SessionsPaid'
    OBVIOUS
  <1>0. LedgerGrows
    BY LedgerNext
  <1>a. ASSUME UNCHANGED sess PROVE SessionsPaid'
    BY <1>0, <1>a, SessionStays DEF SessionsPaid
  <1>b. ASSUME NEW h \in Handlers, NEW s, sess' = [sess EXCEPT ![h] = s],
               SessionPaid(ledger', s)
        PROVE  SessionsPaid'
    <2>1. DOMAIN sess' = Handlers /\ sess'[h] = s
      BY <1>b DEF SessionsPaid
    <2>2. \A g \in Handlers \ {h} : SessionPaid(ledger', sess[g])
      BY <1>0, <1>b, SessionStays DEF SessionsPaid
    <2> QED BY <1>b, <2>1, <2>2 DEF SessionsPaid, SessionPaid
  <1>c. SessionPaid(ledger', Idle)
    BY DEF SessionPaid, Idle
  <1>1. ASSUME NEW h \in Handlers, NEW b \in Bookings, Receive(h, b) PROVE SessionsPaid'
    <2>1. PICK phase, new, stamped, keep :
             KeepsMarks(new, row[b]) /\ Work(h, b, phase, new, stamped, keep)
      BY <1>1, ReceiveWorks
    <2> DEFINE s == [phase |-> phase, booking |-> b, seen |-> row[b], new |-> new,
                     stamped |-> stamped, keep |-> keep]
    <2>2. Paid(ledger'[b], row[b]) /\ Paid(ledger'[b], new)
      BY <1>0, <2>1, MarksPaid, StaysPaid DEF RowsPaid
    <2>3. SessionPaid(ledger', s)
      BY <2>2 DEF SessionPaid
    <2>4. sess' = [sess EXCEPT ![h] = s]
      BY <2>1 DEF Work
    <2> QED BY <2>3, <2>4, <1>b
  <1>2. ASSUME NEW h \in Handlers, Refund(h) PROVE SessionsPaid'
    <2> DEFINE b == sess[h].booking
               x == sess[h].new
    <2>1. PICK o \in Outcomes :
            LET y == IF Succeeded(o) THEN [x EXCEPT !.refundRef = TRUE]
                     ELSE [x EXCEPT !.status = "admin_review"]
            IN sess' = [sess EXCEPT ![h].phase = "write",
                                    ![h].new = Finalized(b, y),
                                    ![h].stamped = @ \cup
                                       (IF Completes(b, y) THEN {"hold"} ELSE {})]
      BY <1>2 DEF Refund
    <2> DEFINE y == IF Succeeded(o) THEN [x EXCEPT !.refundRef = TRUE]
                    ELSE [x EXCEPT !.status = "admin_review"]
    <2>2. /\ {"phase", "booking", "seen", "new", "stamped", "keep"} \subseteq DOMAIN sess[h]
          /\ b \in Bookings /\ Paid(ledger[b], sess[h].seen) /\ Paid(ledger[b], x)
      BY <1>2 DEF SessionsPaid, SessionPaid, Refund
    <2>3. KeepsMarks(y, x) /\ Marks \subseteq DOMAIN y
      BY <2>2 DEF KeepsMarks, Paid, Marks
    <2> HIDE DEF y
    <2>4. KeepsMarks(Finalized(b, y), x)
      <3>1. KeepsMarks(Finalized(b, y), y)
        BY <2>3, SettlementKeepsMarks
      <3> QED BY <2>3, <3>1 DEF KeepsMarks
    <2>5. Paid(ledger'[b], sess[h].seen) /\ Paid(ledger'[b], Finalized(b, y))
      BY <1>0, <2>2, <2>4, MarksPaid, StaysPaid
    <2> DEFINE s == [sess[h] EXCEPT !.phase = "write", !.new = Finalized(b, y),
                                    !.stamped = @ \cup
                                       (IF Completes(b, y) THEN {"hold"} ELSE {})]
    <2>6. sess' = [sess EXCEPT ![h] = s]
      BY <2>1 DEF SessionsPaid, y
    <2>7. DOMAIN s = DOMAIN sess[h] /\ s.booking = b /\ s.seen = sess[h].seen
          /\ s.new = Finalized(b, y)
      BY <2>2
    <2>8. SessionPaid(ledger', s)
      BY <2>2, <2>5, <2>7 DEF SessionPaid
    <2> HIDE DEF s
    <2> QED BY <2>6, <2>8, <1>b
  <1>3. ASSUME NEW h \in Handlers, ChargeOvertime(h) PROVE SessionsPaid'
    <2> DEFINE b == sess[h].booking
               x == sess[h].new
               s == [sess[h] EXCEPT !.phase = "write", !.new = AsCharged(@),
                                    !.stamped = {"hold", "overrunHold"}]
    <2>1. sess' = [sess EXCEPT ![h] = s] \/ sess' = [sess EXCEPT ![h] = Idle]
      <3>1. PICK o \in Outcomes :
              sess' = [sess EXCEPT ![h] =
                         IF Succeeded(o) /\ b \notin Requested THEN s ELSE Idle]
        BY <1>3 DEF ChargeOvertime
      <3> HIDE DEF s
      <3>2. CASE Succeeded(o) /\ b \notin Requested
        BY <3>1, <3>2
      <3>3. CASE ~(Succeeded(o) /\ b \notin Requested)
        BY <3>1, <3>3
      <3> QED BY <3>2, <3>3
    <2>2. /\ {"phase", "booking", "seen", "new", "stamped", "keep"} \subseteq DOMAIN sess[h]
          /\ b \in Bookings /\ Paid(ledger[b], sess[h].seen) /\ Paid(ledger[b], x)
      BY <1>3 DEF SessionsPaid, SessionPaid, ChargeOvertime
    <2>3. KeepsMarks(AsCharged(x), x)
      BY <2>2, SettlementKeepsMarks DEF Paid
    <2>4. Paid(ledger'[b], sess[h].seen) /\ Paid(ledger'[b], AsCharged(x))
      BY <1>0, <2>2, <2>3, MarksPaid, StaysPaid
    <2>5. DOMAIN s = DOMAIN sess[h] /\ s.booking = b /\ s.seen = sess[h].seen
          /\ s.new = AsCharged(x)
      BY <2>2
    <2>6. SessionPaid(ledger', s)
      BY <2>2, <2>4, <2>5 DEF SessionPaid
    <2> HIDE DEF s
    <2> QED BY <2>1, <2>6, <1>b, <1>c
  <1>4. ASSUME NEW h \in Handlers, Commit(h) PROVE SessionsPaid'
    BY <1>4, <1>b, <1>c DEF Commit
  <1>5. ASSUME NEW k \in Runners, PayoutStep(k) PROVE SessionsPaid'
    BY <1>5, <1>a DEF PayoutStep, PayoutRead, OvertimeRead, Record, PayoutCommit, PassOver,
                      Deduct, TakeOvertime, Transfer
  <1>6. ASSUME Environment PROVE SessionsPaid'
    BY <1>6, <1>a, <1>b, <1>c DEF Environment, HoldElapses, QueryHold, Crash
  <1>7. CASE UNCHANGED vars
    BY <1>7, <1>a DEF vars
  <1> QED BY <1>1, <1>2, <1>3, <1>4, <1>5, <1>6, <1>7 DEF Next, Serve

----------------------------------------------------------------------------
(* The committed rows                                                        *)

(* What is committed was paid for in the session or run it comes from.        *)
LEMMA RowsNext ==
    LedgerCounts /\ RowsPaid /\ SessionsPaid /\ RunsPaid /\ [Next]_vars => RowsPaid'
  <1> SUFFICES ASSUME LedgerCounts, RowsPaid, SessionsPaid, RunsPaid, [Next]_vars
               PROVE  RowsPaid'
    OBVIOUS
  <1>0. LedgerGrows
    BY LedgerNext
  <1>a. ASSUME UNCHANGED row PROVE RowsPaid'
    BY <1>0, <1>a, StaysPaid DEF RowsPaid
  <1>b. ASSUME NEW b \in Bookings, NEW x, row' = [row EXCEPT ![b] = x],
               Paid(ledger[b], x)
        PROVE  RowsPaid'
    BY <1>0, <1>b, StaysPaid DEF RowsPaid
  <1>c. ASSUME NEW b \in Bookings, NEW x, row' = [row EXCEPT ![b] = x],
               KeepsMarks(x, row[b])
        PROVE  RowsPaid'
    BY <1>b, <1>c, MarksPaid DEF RowsPaid
  <1>1. ASSUME NEW h \in Handlers, Commit(h) PROVE RowsPaid'
    <2> DEFINE s == sess[h]
               y == Flush(s.seen, s.new, s.stamped, row[s.booking])
    <2>1. s.booking \in Bookings /\ Paid(ledger[s.booking], s.new)
      BY <1>1 DEF Commit, SessionsPaid, SessionPaid
    <2>2. Paid(ledger[s.booking], y)
      BY <2>1, FlushPaid DEF RowsPaid
    <2>3. row' = [row EXCEPT ![s.booking] = y]
      BY <1>1, <2>1 DEF Commit, RowsPaid
    <2> HIDE DEF y
    <2> QED BY <2>1, <2>2, <2>3, <1>b
  <1>2. ASSUME NEW b \in Bookings, NEW held \in BOOLEAN, QueryHold(b, held) PROVE RowsPaid'
    <2> DEFINE x == [row[b] EXCEPT !.queryHold = held]
    <2>1. KeepsMarks(x, row[b])
      BY DEF KeepsMarks, RowsPaid, Paid, Marks
    <2>2. row' = [row EXCEPT ![b] = x]
      BY <1>2 DEF QueryHold, RowsPaid
    <2> HIDE DEF x
    <2> QED BY <2>1, <2>2, <1>c
  <1>3. ASSUME NEW b \in Bookings, HoldElapses(b) PROVE RowsPaid'
    <2> DEFINE later(t) == IF t = "running" THEN "elapsed" ELSE t
               x == [row[b] EXCEPT !.hold = later(@), !.overrunHold = later(@)]
    <2>1. KeepsMarks(x, row[b])
      BY DEF KeepsMarks, RowsPaid, Paid, Marks
    <2>2. row' = [row EXCEPT ![b] = x]
      BY <1>3 DEF HoldElapses, RowsPaid
    <2> HIDE DEF x
    <2> QED BY <2>1, <2>2, <1>c
  <1>4. ASSUME NEW k \in Runners, PayoutCommit(k) PROVE RowsPaid'
    <2> DEFINE r == run[k]
               y(b) == Flush(r.read[b], r.view[b], {}, row[b])
    <2>1. r.written \subseteq DOMAIN r.read /\ \A b \in DOMAIN r.read : Paid(ledger[b], r.view[b])
      BY <1>4 DEF PayoutCommit, RunsPaid, RunPaid
    <2>2. \A b \in Bookings : b \in r.written => Paid(ledger[b], y(b))
      BY <2>1, FlushPaid DEF RowsPaid
    <2>3. row' = [b \in Bookings |-> IF b \in r.written THEN y(b) ELSE row[b]]
      BY <1>4 DEF PayoutCommit
    <2> HIDE DEF y
    <2>4. \A b \in Bookings : Paid(ledger[b], row'[b])
      BY <2>2, <2>3 DEF RowsPaid
    <2> QED BY <1>0, <2>3, <2>4, StaysPaid DEF RowsPaid
  <1>5. ASSUME NEW h \in Handlers,
               \/ Refund(h) \/ ChargeOvertime(h)
               \/ \E b \in Bookings : Receive(h, b)
        PROVE  RowsPaid'
    BY <1>5, <1>a DEF Refund, ChargeOvertime, Receive
  <1>6. ASSUME NEW k \in Runners,
               \/ PayoutRead(k) \/ OvertimeRead(k) \/ Record(k)
               \/ \E b \in Bookings : \/ PassOver(k, b) \/ Deduct(k, b)
                                     \/ TakeOvertime(k, b) \/ Transfer(k, b)
        PROVE  RowsPaid'
    BY <1>6, <1>a DEF PayoutRead, OvertimeRead, Record, PassOver, Deduct, TakeOvertime,
                      Transfer
  <1>7. ASSUME NEW w \in Crashing, Crash(w) PROVE RowsPaid'
    BY <1>7, <1>a DEF Crash
  <1>8. CASE UNCHANGED vars
    BY <1>8, <1>a DEF vars
  <1> QED BY <1>1, <1>2, <1>3, <1>4, <1>5, <1>6, <1>7, <1>8
          DEF Next, Serve, PayoutStep, Environment

----------------------------------------------------------------------------
(* The payout runs                                                           *)

(* So do the rows of a run.                                                   *)
LEMMA RunStays ==
    ASSUME LedgerCounts, LedgerGrows, NEW r, RunPaid(ledger, r)
    PROVE  RunPaid(ledger', r)
  BY StaysPaid DEF RunPaid

(* Every action of a run keeps its rows paid for; only a transfer that        *)
(* Paystack executed lets the run mark one as released.                       *)
LEMMA RunsNext ==
    LedgerCounts /\ RowsPaid /\ RunsPaid /\ [Next]_vars => RunsPaid'
  <1> SUFFICES ASSUME LedgerCounts, RowsPaid, RunsPaid, [Next]_vars
               PROVE  RunsPaid'
    OBVIOUS
  <1>0. LedgerGrows
    BY LedgerNext
  <1>a. ASSUME UNCHANGED run PROVE RunsPaid'
    BY <1>0, <1>a, RunStays DEF RunsPaid
  <1>b. ASSUME NEW k \in Runners, NEW r, run' = [run EXCEPT ![k] = r], RunPaid(ledger', r)
        PROVE  RunsPaid'
    <2>1. DOMAIN run' = Runners /\ run'[k] = r
      BY <1>b DEF RunsPaid
    <2>2. \A j \in Runners \ {k} : RunPaid(ledger', run[j]) /\ run'[j] = run[j]
      BY <1>0, <1>b, RunStays DEF RunsPaid
    <2> QED BY <1>b, <2>1, <2>2 DEF RunsPaid
  <1>c. RunPaid(ledger', NoRun)
    BY DEF RunPaid, NoRun
  <1>d. ASSUME NEW k \in Runners, run[k].phase # "idle"
        PROVE  RunPaid(ledger', run[k])
    BY <1>0, RunStays DEF RunsPaid
  <1>1. ASSUME NEW k \in Runners, PayoutRead(k) PROVE RunsPaid'
    <2> DEFINE due == {b \in Bookings : Due(row[b])}
               r == [phase |-> "base", step |-> "next", todo |-> due,
                     read |-> Restrict(row, due), view |-> Restrict(row, due),
                     booking |-> {}, written |-> {}, balance |-> 0, debt |-> Unset]
    <2>1. run' = [run EXCEPT ![k] = r]
      BY <1>1 DEF PayoutRead
    <2>2. \A b \in due : b \in Bookings /\ Paid(ledger'[b], row[b])
      BY <1>0, StaysPaid DEF RowsPaid
    <2> HIDE DEF due
    <2>3. RunPaid(ledger', r)
      BY <2>2 DEF RunPaid, Restrict
    <2> HIDE DEF r
    <2> QED BY <2>1, <2>3, <1>b
  <1>2. ASSUME NEW k \in Runners, OvertimeRead(k) PROVE RunsPaid'
    <2> DEFINE due == {b \in Bookings : OvertimeDue(row[b])}
               known(old) == [b \in DOMAIN old \cup due |->
                                IF b \in DOMAIN old THEN old[b] ELSE row[b]]
               r == [run[k] EXCEPT !.phase = "overtime", !.todo = due,
                                   !.read = known(@), !.view = known(@)]
    <2>1. run' = [run EXCEPT ![k] = r]
      BY <1>2 DEF OvertimeRead, RunsPaid
    <2>2. RunPaid(ledger', run[k]) /\ run[k].phase # "idle"
      BY <1>2, <1>d DEF OvertimeRead
    <2>3. \A b \in due : b \in Bookings /\ Paid(ledger'[b], row[b])
      BY <1>0, StaysPaid DEF RowsPaid
    <2> HIDE DEF due
    <2>4. RunPaid(ledger', r)
      BY <2>2, <2>3 DEF RunPaid
    <2> HIDE DEF r
    <2> QED BY <2>1, <2>4, <1>b
  <1>3. ASSUME NEW k \in Runners, NEW b \in Bookings, PassOver(k, b) PROVE RunsPaid'
    <2> DEFINE r == [run[k] EXCEPT !.todo = @ \ {b}]
    <2>1. run' = [run EXCEPT ![k] = r]
      BY <1>3 DEF PassOver, RunsPaid
    <2>2. RunPaid(ledger', r)
      BY <1>3, <1>d DEF PassOver, RunPaid
    <2> HIDE DEF r
    <2> QED BY <2>1, <2>2, <1>b
  <1>4. ASSUME NEW k \in Runners, NEW b \in Bookings, Deduct(k, b) PROVE RunsPaid'
    <2> DEFINE gross == Gross(b, run[k].view[b])
               cut == LeastOf(Balance(k), gross)
               x == [run[k].view[b] EXCEPT !.payout = gross - cut, !.deducted = cut]
               r == [run[k] EXCEPT !.todo = @ \ {b}, !.booking = {b}, !.step = "send",
                                   !.balance = Balance(k), !.view[b] = x]
    <2>1. RunPaid(ledger', run[k]) /\ run[k].phase # "idle" /\ b \in run[k].todo
      BY <1>4, <1>d DEF Deduct
    <2>2. run' = [run EXCEPT ![k] = r]
      BY <1>4, <2>1 DEF Deduct, RunsPaid, RunPaid
    <2>3. KeepsMarks(x, run[k].view[b])
      BY <2>1 DEF KeepsMarks, RunPaid, Paid, Marks
    <2>4. Paid(ledger'[b], x)
      BY <2>1, <2>3, MarksPaid DEF RunPaid
    <2> HIDE DEF x
    <2>5. RunPaid(ledger', r)
      BY <2>1, <2>4 DEF RunPaid
    <2> HIDE DEF r
    <2> QED BY <2>2, <2>5, <1>b
  <1>5. ASSUME NEW k \in Runners, NEW b \in Bookings, TakeOvertime(k, b) PROVE RunsPaid'
    <2> DEFINE r == [run[k] EXCEPT !.todo = @ \ {b}, !.booking = {b}, !.step = "send"]
    <2>1. run' = [run EXCEPT ![k] = r]
      BY <1>5 DEF TakeOvertime, RunsPaid
    <2>2. RunPaid(ledger', r)
      BY <1>5, <1>d DEF TakeOvertime, RunPaid
    <2> HIDE DEF r
    <2> QED BY <2>1, <2>2, <1>b
  <1>6. ASSUME NEW k \in Runners, NEW b \in Bookings, Transfer(k, b) PROVE RunsPaid'
    <2>1. /\ RunPaid(ledger', run[k]) /\ run[k].phase # "idle"
          /\ b \in run[k].booking /\ b \in DOMAIN run[k].read
      BY <1>6, <1>d DEF Transfer, RunPaid
    <2>2. PICK o \in Outcomes :
            /\ ledger' = IF ~o.taken THEN ledger
                         ELSE IF run[k].phase = "base"
                         THEN [ledger EXCEPT ![b].transfers = @ + 1,
                                             ![b].sent = @ + run[k].view[b].payout]
                         ELSE [ledger EXCEPT ![b].overtimes = @ + 1]
            /\ run' = [run EXCEPT ![k] = IF Succeeded(o) THEN Transferred(k, b)
                                         ELSE RolledBack(k, b)]
      BY <1>6 DEF Transfer
    <2>3. CASE Succeeded(o)
      <3> DEFINE x == IF run[k].phase = "base"
                      THEN [run[k].view[b] EXCEPT !.released = TRUE]
                      ELSE [run[k].view[b] EXCEPT !.overrunReleased = TRUE]
      <3>1. Paid(ledger'[b], run[k].view[b])
        BY <2>1 DEF RunPaid
      <3>2. Paid(ledger'[b], x)
        <4>1. CASE run[k].phase = "base"
          <5>1. ledger'[b].transfers > 0
            BY <2>2, <2>3, <4>1 DEF Succeeded, LedgerCounts
          <5> QED BY <3>1, <4>1, <5>1 DEF Paid, Marks
        <4>2. CASE run[k].phase # "base"
          <5>1. ledger'[b].overtimes > 0
            BY <2>2, <2>3, <4>2 DEF Succeeded, LedgerCounts
          <5> QED BY <3>1, <4>2, <5>1 DEF Paid, Marks
        <4> QED BY <4>1, <4>2
      <3>3. RunPaid(ledger', Transferred(k, b))
        <4>1. /\ DOMAIN Transferred(k, b) = DOMAIN run[k]
              /\ Transferred(k, b).view = [run[k].view EXCEPT ![b] = x]
              /\ Transferred(k, b).written \subseteq run[k].written \cup {b}
          BY <2>1 DEF Transferred, RunPaid
        <4>2. /\ Transferred(k, b).phase = run[k].phase
              /\ Transferred(k, b).todo = run[k].todo
              /\ Transferred(k, b).read = run[k].read
              /\ Transferred(k, b).booking = run[k].booking
          BY <2>1 DEF Transferred, RunPaid
        <4> HIDE DEF x
        <4> QED BY <2>1, <3>2, <4>1, <4>2 DEF RunPaid
      <3> QED BY <2>2, <2>3, <3>3, <1>b
    <2>4. CASE ~Succeeded(o)
      <3>1. RunPaid(ledger', RolledBack(k, b))
        <4>1. /\ DOMAIN RolledBack(k, b) = DOMAIN run[k]
              /\ RolledBack(k, b).view =
                    [run[k].view EXCEPT ![b] = IF run[k].phase = "base"
                                               THEN run[k].read[b] ELSE @]
              /\ RolledBack(k, b).written = run[k].written
          BY <2>1 DEF RolledBack, RunPaid
        <4>2. /\ RolledBack(k, b).phase = run[k].phase
              /\ RolledBack(k, b).todo = run[k].todo
              /\ RolledBack(k, b).read = run[k].read
              /\ RolledBack(k, b).booking = {}
          BY <2>1 DEF RolledBack, RunPaid
        <4> QED BY <2>1, <4>1, <4>2 DEF RunPaid
      <3> QED BY <2>2, <2>4, <3>1, <1>b
    <2> QED BY <2>3, <2>4
  <1>7. ASSUME NEW k \in Runners, Record(k) PROVE RunsPaid'
    <2> DEFINE r == [run[k] EXCEPT !.written = @ \cup run[k].booking, !.step = "next",
                                   !.booking = {}, !.balance = 0]
    <2>1. run' = [run EXCEPT ![k] = r]
      BY <1>7 DEF Record, RunsPaid
    <2>2. RunPaid(ledger', r)
      BY <1>7, <1>d DEF Record, RunPaid
    <2> HIDE DEF r
    <2> QED BY <2>1, <2>2, <1>b
  <1>8. ASSUME NEW k \in Runners, PayoutCommit(k) PROVE RunsPaid'
    BY <1>8, <1>b, <1>c DEF PayoutCommit
  <1>9. ASSUME NEW h \in Handlers, Serve(h) \/ \E b \in Bookings : Receive(h, b)
        PROVE  RunsPaid'
    BY <1>9, <1>a DEF Serve, Refund, ChargeOvertime, Commit, Receive
  <1>10. ASSUME Environment PROVE RunsPaid'
    BY <1>10, <1>a, <1>b, <1>c DEF Environment, HoldElapses, QueryHold, Crash
  <1>11. CASE UNCHANGED vars
    BY <1>11, <1>a DEF vars
  <1> QED BY <1>1, <1>2, <1>3, <1>4, <1>5, <1>6, <1>7, <1>8, <1>9, <1>10, <1>11
          DEF Next, PayoutStep

----------------------------------------------------------------------------
(* The theorems                                                              *)

(* At the start nothing is marked.                                            *)
LEMMA PaidInit == Init => PaidInv
  <1> SUFFICES ASSUME Init PROVE PaidInv
    OBVIOUS
  <1>1. LedgerCounts
    BY DEF Init, LedgerCounts
  <1>2. \A b \in Bookings : Paid(ledger[b], NewRow(b))
    BY DEF Paid, NewRow, Marks
  <1>3. RowsPaid
    BY <1>2 DEF Init, RowsPaid
  <1>4. SessionsPaid /\ RunsPaid
    BY DEF Init, SessionsPaid, SessionPaid, Idle, RunsPaid, RunPaid, NoRun
  <1> QED BY <1>1, <1>3, <1>4 DEF PaidInv

(* Every copy of a booking's row, committed, in a handler's session or in a   *)
(* payout run, marks as released only what Paystack transferred               *)
(* (Booking.payout_released_at, Booking.overrun_released_at).                 *)
THEOREM PaidInvariance == Spec => []PaidInv
  <1>1. PaidInv /\ [Next]_vars => PaidInv'
    BY LedgerNext, RowsNext, SessionsNext, RunsNext DEF PaidInv
  <1> QED BY PaidInit, <1>1, PTL DEF Spec

(* A released payout was transferred, and released overtime too, for any      *)
(* bookings, handlers, payout runners and amounts: run_scheduled_payouts      *)
(* marks a booking only after the transfer succeeded, a savepoint or a lost   *)
(* answer never leaves a mark, and no handler sets one.                       *)
THEOREM ReleasesPaid == Spec => []ReleasedWasPaid
  <1>1. PaidInv => ReleasedWasPaid
    BY DEF PaidInv, RowsPaid, Paid, ReleasedWasPaid
  <1> QED BY PaidInvariance, <1>1, PTL

----------------------------------------------------------------------------
(* What the settlement and the handlers write                                *)

LEMMA RowColumns == \A x \in Row : DOMAIN x = Columns
  BY DEF Row, Columns, NewRow

(* What is committed is a row again.                                          *)
LEMMA FlushFits ==
    ASSUME NEW read \in Row, NEW new \in Row, NEW stamped, NEW db \in Row
    PROVE  Flush(read, new, stamped, db) \in Row
  <1> DEFINE y == Flush(read, new, stamped, db)
  <1>1. y = [c \in DOMAIN db |-> IF new[c] = read[c] /\ c \notin stamped THEN db[c] ELSE new[c]]
    BY DEF Flush
  <1>2. DOMAIN y = DOMAIN db /\ \A c \in DOMAIN db : y[c] \in {db[c], new[c]}
    BY <1>1
  <1> QED
    BY <1>1, <1>2 DEF Row, Hold

LEMMA BillableFits == \A x \in Row : Billable(x) \in Nat /\ Overtime(x) \in 0..1
  BY AmountsTyped DEF Row, Billable, Overtime, Positive, Times, Unset

LEMMA BillableWithin ==
    ASSUME NEW x \in Row, Unset \notin {x.checkIn, x.checkOut}
    PROVE  Billable(x) \in 0..Scheduled
  BY AmountsTyped DEF Row, Billable, Positive, Times, Unset

LEMMA RateFits == \A b : Rate(b) \in {0, 1}
  BY DEF Rate

LEMMA RecalculatedFits ==
    ASSUME NEW b \in Bookings, NEW x \in Row
    PROVE  Recalculated(b, x) \in Row
  <1>1. \A v \in Amount : [x EXCEPT !.payout = v] \in Row
    BY DEF Row
  <1>2. \A v \in Amount :
           [x EXCEPT !.payout = v, !.overrun = "none", !.overrunAmount = 0] \in Row
    <2>1. 0 \in 0..1
      OBVIOUS
    <2>2. \A a \in 0..1, v \in Amount :
             [x EXCEPT !.payout = v, !.overrun = "none", !.overrunAmount = a] \in Row
      BY DEF Row
    <2> QED
      BY <2>1, <2>2
  <1>3. CASE Unset \in {x.checkIn, x.checkOut}
    BY <1>1, <1>3, AmountsTyped DEF Recalculated, Amount, Unset
  <1>4. CASE Unset \notin {x.checkIn, x.checkOut}
    <2>1. Rate(b) * Billable(x) \in Amount
      BY <1>4, BillableWithin, AmountsTyped DEF Rate, Amount, Unset
    <2>2. Recalculated(b, x) =
             IF Overtime(x) = 0
             THEN [x EXCEPT !.payout = Rate(b) * Billable(x), !.overrun = "none",
                            !.overrunAmount = 0]
             ELSE [x EXCEPT !.payout = Rate(b) * Billable(x)]
      BY <1>4 DEF Recalculated, Row
    <2> QED
      BY <1>1, <1>2, <2>1, <2>2
  <1> QED
    BY <1>3, <1>4

LEMMA FinalizedFits ==
    ASSUME NEW b \in Bookings, NEW x \in Row
    PROVE  Finalized(b, x) \in Row
  <1>1. \A y \in Row : [y EXCEPT !.status = "completed", !.hold = "running"] \in Row
    BY ZenonT(30) DEF Row, Hold
  <1> QED
    BY <1>1, RecalculatedFits DEF Finalized

----------------------------------------------------------------------------
Stamps == {"inConfirmed", "outConfirmed", "hold", "overrunHold"}

Timed(x) ==
    /\ x.inConfirmed => x.checkIn # Unset
    /\ x.outConfirmed => x.checkOut # Unset

Counts(x) == x.hold # "none" /\ ~x.parentNoShow

Started(x) ==
    Counts(x) =>
        /\ x.status \in {"completed", "admin_review", "cancelled"}
        /\ Confirmed(x) /\ x.overrun \notin {"awaiting_parent", "queried"}

Waged(x) == Counts(x) => x.released \/ x.payout = Billable(x)

(* Columns that no handler writes before Paystack has answered.              *)
Records == {"released", "overrunReleased", "deducted", "overrunHold", "refundRef", "queryHold"}

KeepsRecords(x, y) == \A c \in Records : x[c] = y[c]

(* What a handler may do with a booking's row x in its session.               *)
Handles(b, x, phase, new, stamped, keep) ==
    /\ phase \in {"write", "refund", "charge"} /\ new \in Row
    /\ stamped \subseteq Stamps /\ keep \in Amount
    /\ KeepsRecords(new, x)
    /\ phase = "refund" => NeedsRefund(b, new)
    /\ Timed(x) => Timed(new)
    /\ Timed(x) /\ Started(x) => Started(new)
    /\ b \in Requested /\ phase = "write" /\ Timed(x) /\ Started(x) /\ Waged(x) => Waged(new)

LEMMA RecalculatedKeeps ==
    ASSUME NEW b \in Bookings, NEW x \in Row, NEW y, y = Recalculated(b, x)
    PROVE  /\ y \in Row /\ KeepsRecords(y, x)
           /\ y.checkIn = x.checkIn /\ y.checkOut = x.checkOut
           /\ y.inConfirmed = x.inConfirmed /\ y.outConfirmed = x.outConfirmed
           /\ y.status = x.status /\ y.hold = x.hold /\ y.parentNoShow = x.parentNoShow
           /\ y.overrun \in {x.overrun, "none"} /\ Billable(y) = Billable(x)
           /\ Unset \notin {x.checkIn, x.checkOut} => y.payout = Rate(b) * Billable(x)
  <1>1. y \in Row
    BY RecalculatedFits
  <1>2. KeepsRecords(y, x)
    BY DEF Recalculated, Row, KeepsRecords, Records
  <1>3. /\ y.checkIn = x.checkIn /\ y.checkOut = x.checkOut
        /\ y.inConfirmed = x.inConfirmed /\ y.outConfirmed = x.outConfirmed
        /\ y.status = x.status /\ y.hold = x.hold /\ y.parentNoShow = x.parentNoShow
        /\ y.overrun \in {x.overrun, "none"}
        /\ Unset \notin {x.checkIn, x.checkOut} => y.payout = Rate(b) * Billable(x)
    BY DEF Recalculated, Row
  <1> QED
    BY <1>1, <1>2, <1>3 DEF Billable

LEMMA RecalculatedServes ==
    ASSUME NEW b \in Bookings, NEW x \in Row, NEW y, y = Recalculated(b, x)
    PROVE  /\ Timed(x) => Timed(y)
           /\ Started(x) => Started(y)
           /\ b \in Requested /\ Timed(x) /\ Started(x) => Waged(y)
  <1>1. (Timed(x) => Timed(y)) /\ (Started(x) => Started(y))
    BY RecalculatedKeeps DEF Timed, Started, Counts, Confirmed
  <1>2. ASSUME b \in Requested, Timed(x), Started(x), Counts(y) PROVE y.payout = Billable(y)
    <2>1. Unset \notin {x.checkIn, x.checkOut}
      BY <1>2, RecalculatedKeeps DEF Timed, Started, Counts, Confirmed
    <2>2. y.payout = 1 * Billable(x)
      BY <1>2, <2>1, RecalculatedKeeps DEF Rate
    <2> QED
      BY <2>2, RecalculatedKeeps, BillableFits
  <1> QED
    BY <1>1, <1>2 DEF Waged

LEMMA FinalizedServes ==
    ASSUME NEW b \in Bookings, NEW x \in Row, NEW y, y = Finalized(b, x)
    PROVE  /\ y \in Row /\ KeepsRecords(y, x)
           /\ Timed(x) => Timed(y)
           /\ Timed(x) /\ Started(x) => Started(y)
           /\ b \in Requested /\ Timed(x) /\ Started(x) => Waged(y)
  <1> PICK z : z = Recalculated(b, x)
    OBVIOUS
  <1>1. /\ z \in Row /\ KeepsRecords(z, x)
        /\ z.inConfirmed = x.inConfirmed /\ z.outConfirmed = x.outConfirmed
        /\ z.checkIn = x.checkIn /\ z.checkOut = x.checkOut /\ Billable(z) = Billable(x)
        /\ Unset \notin {x.checkIn, x.checkOut} => z.payout = Rate(b) * Billable(x)
    BY RecalculatedKeeps
  <1>2. CASE ~Completes(b, x)
    <2>1. y = z
      BY <1>2 DEF Finalized
    <2> QED
      BY <1>1, <2>1, RecalculatedServes
  <1>3. CASE Completes(b, x)
    <2>1. y = [z EXCEPT !.status = "completed", !.hold = "running"] /\ y \in Row
      BY <1>3, FinalizedFits DEF Finalized
    <2>2. /\ y.inConfirmed = x.inConfirmed /\ y.outConfirmed = x.outConfirmed
          /\ y.checkIn = x.checkIn /\ y.checkOut = x.checkOut
          /\ y.status = "completed" /\ y.overrun = z.overrun /\ y.payout = z.payout
      BY <1>1, <2>1 DEF Row
    <2>3. KeepsRecords(y, z)
      BY <1>1, <2>1 DEF Row, KeepsRecords, Records
    <2>4. Confirmed(y) /\ z.overrun \notin {"awaiting_parent", "queried"}
      BY <1>3, <2>2 DEF Completes, Confirmed
    <2>5. ASSUME b \in Requested, Timed(x) PROVE y.payout = Billable(y)
      <3>1. Unset \notin {x.checkIn, x.checkOut}
        BY <1>3, <2>5 DEF Completes, Confirmed, Timed
      <3>2. y.payout = 1 * Billable(x)
        BY <1>1, <2>2, <2>5, <3>1 DEF Rate
      <3>3. Billable(y) = Billable(x)
        BY <2>2 DEF Billable
      <3> QED
        BY <3>2, <3>3, BillableFits
    <2> QED
      BY <1>1, <2>1, <2>2, <2>3, <2>4, <2>5 DEF Timed, Started, Waged, KeepsRecords
  <1> QED
    BY <1>2, <1>3

LEMMA SettleHandles ==
    ASSUME row \in [Bookings -> Row], NEW h \in Handlers, NEW b \in Bookings,
           NEW x \in Row, NEW stamped \in SUBSET Stamps, Settle(h, b, x, stamped),
           KeepsRecords(x, row[b]), Timed(row[b]) => Timed(x),
           Timed(row[b]) /\ Started(row[b]) => Started(x)
    PROVE  \E phase, new, st, keep :
              Handles(b, row[b], phase, new, st, keep) /\ Work(h, b, phase, new, st, keep)
  <1>1. Unset \in Amount
    BY AmountsTyped DEF Amount, Unset
  <1>2. CASE NeedsRefund(b, x)
    <2>1. Handles(b, row[b], "refund", x, stamped, Unset)
      BY <1>1, <1>2 DEF Handles
    <2> QED
      BY <1>2, <2>1 DEF Settle
  <1>3. CASE ~NeedsRefund(b, x)
    <2> PICK y : y = Finalized(b, x)
      OBVIOUS
    <2> PICK st : st = stamped \cup (IF Completes(b, x) THEN {"hold"} ELSE {})
      OBVIOUS
    <2>1. st \subseteq Stamps
      BY DEF Stamps
    <2>2. KeepsRecords(y, row[b])
      BY FinalizedServes DEF KeepsRecords
    <2>3. Handles(b, row[b], "write", y, st, Unset)
      BY <1>1, <2>1, <2>2, FinalizedServes DEF Handles
    <2> QED
      BY <1>3, <2>3 DEF Settle
  <1> QED
    BY <1>2, <1>3

(* A handler that writes x at once.                                           *)
LEMMA WriteHandles ==
    ASSUME NEW b \in Bookings, NEW r \in Row, NEW x \in Row, KeepsRecords(x, r),
           Timed(r) => Timed(x), Timed(r) /\ Started(r) => Started(x),
           b \in Requested /\ Timed(r) /\ Started(r) /\ Waged(r) => Waged(x),
           NEW stamped \in SUBSET Stamps, NEW keep \in Amount
    PROVE  Handles(b, r, "write", x, stamped, keep)
  BY DEF Handles

(* A booking whose wage counts is past check-in, check-out and overtime.      *)
LEMMA IdleUnlessCounting ==
    ASSUME NEW r \in Row, Started(r),
           \/ r.status \notin {"completed", "admin_review", "cancelled"}
           \/ r.overrun = "awaiting_parent"
    PROVE  ~Counts(r)
  BY DEF Started

LEMMA CheckInHandles ==
    ASSUME row \in [Bookings -> Row], NEW h \in Handlers, NEW b \in Bookings, CheckIn(h, b)
    PROVE  \E new : Handles(b, row[b], "write", new, {}, Unset) /\ Write(h, b, new)
  <1> PICK t \in 0..(Scheduled - 1) :
        Write(h, b, Recalculated(b, [row[b] EXCEPT !.checkIn = t, !.status = "accepted"]))
    BY DEF CheckIn
  <1> PICK r : r = row[b]
    OBVIOUS
  <1> PICK x : x = [r EXCEPT !.checkIn = t, !.status = "accepted"]
    OBVIOUS
  <1> PICK y : y = Recalculated(b, x)
    OBVIOUS
  <1>1. r \in Row /\ r.status \in {"approved", "accepted"}
    BY DEF CheckIn
  <1>2. t \in Times /\ t # Unset /\ Unset \in Amount
    BY AmountsTyped DEF Times, Unset, Amount
  <1>3. x \in Row
    BY <1>1, <1>2 DEF Row
  <1>4. KeepsRecords(x, r) /\ (Timed(r) => Timed(x)) /\ (Counts(x) = Counts(r))
    BY <1>1, <1>2 DEF Row, KeepsRecords, Records, Timed, Counts
  <1>5. KeepsRecords(y, r) /\ y \in Row
    <2>1. KeepsRecords(y, x) /\ y \in Row
      BY <1>3, RecalculatedKeeps
    <2> QED
      BY <1>4, <2>1 DEF KeepsRecords
  <1>6. Started(r) => ~Counts(x)
    BY <1>1, <1>4, IdleUnlessCounting
  <1>7. Started(r) => Started(x)
    BY <1>6 DEF Started
  <1>8. Handles(b, r, "write", y, {}, Unset)
    BY <1>1, <1>2, <1>3, <1>4, <1>5, <1>7, RecalculatedServes, WriteHandles
  <1> QED
    BY <1>8

LEMMA CheckOutHandles ==
    ASSUME row \in [Bookings -> Row], NEW h \in Handlers, NEW b \in Bookings, CheckOut(h, b)
    PROVE  \E new : Handles(b, row[b], "write", new, {}, Unset) /\ Write(h, b, new)
  <1> PICK r : r = row[b]
    OBVIOUS
  <1> PICK t \in Times :
        LET x == Recalculated(b, [r EXCEPT !.checkOut = t]) IN
        IF Overtime(x) > 0
        THEN Write(h, b, [x EXCEPT !.overrun = "awaiting_parent",
                                   !.overrunAmount = Overtime(x),
                                   !.status = "awaiting_overtime_approval",
                                   !.hold = "none"])
        ELSE Write(h, b, [x EXCEPT !.overrun = "none", !.hold = "none",
                                   !.status = "awaiting_time_confirmation"])
    BY DEF CheckOut
  <1> PICK y : y = [r EXCEPT !.checkOut = t]
    OBVIOUS
  <1> PICK x : x = Recalculated(b, y)
    OBVIOUS
  <1>1. r \in Row /\ Unset \in Amount
    BY AmountsTyped DEF CheckOut, Amount, Unset
  <1>2. t # Unset
    BY AmountsTyped DEF Times, Unset
  <1>3. y \in Row /\ KeepsRecords(y, r) /\ (Timed(r) => Timed(y))
    BY <1>1, <1>2 DEF Row, KeepsRecords, Records, Timed
  <1>4. x \in Row /\ KeepsRecords(x, r) /\ (Timed(r) => Timed(x))
    BY <1>3, RecalculatedKeeps, RecalculatedServes DEF KeepsRecords
  <1>5. ASSUME NEW z, \E s \in {"awaiting_overtime_approval", "awaiting_time_confirmation"},
                        o \in {"awaiting_parent", "none"}, a \in 0..1 :
                           z = [x EXCEPT !.overrun = o, !.overrunAmount = a,
                                         !.status = s, !.hold = "none"]
        PROVE  Handles(b, r, "write", z, {}, Unset)
    <2>1. z \in Row
      <3>1. PICK s \in {"awaiting_overtime_approval", "awaiting_time_confirmation"},
                 o \in {"awaiting_parent", "none"}, a \in 0..1 :
                 z = [x EXCEPT !.overrun = o, !.overrunAmount = a, !.status = s,
                               !.hold = "none"]
        BY <1>5
      <3>2. [x EXCEPT !.overrun = o, !.overrunAmount = a] \in Row
        BY ZenonT(30), <1>4 DEF Row
      <3>3. \A w \in Row : [w EXCEPT !.status = s] \in Row
        BY DEF Row
      <3>4. \A w \in Row : [w EXCEPT !.hold = "none"] \in Row
        BY DEF Row, Hold
      <3> QED
        BY <3>1, <3>2, <3>3, <3>4
    <2>2. /\ KeepsRecords(z, r) /\ z.hold = "none"
          /\ Timed(r) => Timed(z)
      BY <1>4, <1>5 DEF Row, KeepsRecords, Records, Timed
    <2> QED
      BY <1>1, <2>1, <2>2, WriteHandles DEF Started, Waged, Counts
  <1>6. CASE Overtime(x) > 0
    <2>1. Overtime(x) \in 0..1
      BY <1>4, BillableFits
    <2> QED
      BY <1>5, <1>6, <2>1
  <1>7. CASE ~(Overtime(x) > 0)
    <2>1. [x EXCEPT !.overrun = "none", !.hold = "none", !.status = "awaiting_time_confirmation"]
          = [x EXCEPT !.overrun = "none", !.overrunAmount = x.overrunAmount,
                      !.status = "awaiting_time_confirmation", !.hold = "none"]
      BY <1>4 DEF Row
    <2>2. x.overrunAmount \in 0..1
      BY <1>4 DEF Row
    <2> QED
      BY <1>5, <1>7, <2>1, <2>2
  <1> QED
    BY <1>6, <1>7

(* Some session that the handlers may start from a booking's committed row.  *)
Starts(h, b) ==
    \E phase, new, stamped, keep :
       Handles(b, row[b], phase, new, stamped, keep) /\ Work(h, b, phase, new, stamped, keep)

LEMMA ConfirmHandles ==
    ASSUME row \in [Bookings -> Row], NEW h \in Handlers, NEW b \in Bookings,
           ConfirmCheckIn(h, b) \/ ConfirmCheckOut(h, b)
    PROVE  Starts(h, b)
  <1> PICK r : r = row[b]
    OBVIOUS
  <1>1. r \in Row /\ \A t \in Times : t # Unset
    BY AmountsTyped DEF Times, Unset
  <1>2. CASE ConfirmCheckIn(h, b)
    <2> PICK t \in Times :
          Settle(h, b, [r EXCEPT !.checkIn = t, !.inConfirmed = TRUE], {"inConfirmed"})
      BY <1>2 DEF ConfirmCheckIn
    <2> PICK x : x = [r EXCEPT !.checkIn = t, !.inConfirmed = TRUE]
      OBVIOUS
    <2>1. /\ x \in Row /\ KeepsRecords(x, r)
          /\ Timed(r) => Timed(x)
          /\ Started(r) => Started(x)
      BY <1>1 DEF Row, KeepsRecords, Records, Timed, Started, Counts, Confirmed
    <2> QED
      BY <2>1, SettleHandles DEF Starts, Stamps
  <1>3. CASE ConfirmCheckOut(h, b)
    <2> PICK t \in Times :
          Settle(h, b, [r EXCEPT !.checkOut = t, !.outConfirmed = TRUE], {"outConfirmed"})
      BY <1>3 DEF ConfirmCheckOut
    <2> PICK x : x = [r EXCEPT !.checkOut = t, !.outConfirmed = TRUE]
      OBVIOUS
    <2>1. /\ x \in Row /\ KeepsRecords(x, r)
          /\ Timed(r) => Timed(x)
          /\ Started(r) => Started(x)
      BY <1>1 DEF Row, KeepsRecords, Records, Timed, Started, Counts, Confirmed
    <2> QED
      BY <2>1, SettleHandles DEF Starts, Stamps
  <1> QED
    BY <1>2, <1>3

LEMMA DenyHandles ==
    ASSUME row \in [Bookings -> Row], NEW h \in Handlers, NEW b \in Bookings,
           DenyCheckIn(h, b) \/ DenyCheckOut(h, b)
    PROVE  Starts(h, b)
  <1> PICK r : r = row[b]
    OBVIOUS
  <1>1. r \in Row /\ Unset \in Amount
    BY AmountsTyped DEF Amount, Unset
  <1> PICK x : /\ \/ x = [r EXCEPT !.checkIn = Unset, !.inConfirmed = FALSE,
                                   !.checkOut = Unset, !.outConfirmed = FALSE,
                                   !.status = "admin_review", !.hold = "none",
                                   !.payout = Unset]
                  \/ x = [r EXCEPT !.checkOut = Unset, !.outConfirmed = FALSE,
                                   !.status = "admin_review", !.hold = "none",
                                   !.payout = Unset]
               /\ Write(h, b, x)
    BY DEF DenyCheckIn, DenyCheckOut
  <1>2. /\ \A w \in Row : [w EXCEPT !.checkIn = Unset, !.inConfirmed = FALSE] \in Row
        /\ \A w \in Row : [w EXCEPT !.checkOut = Unset, !.outConfirmed = FALSE] \in Row
        /\ \A w \in Row : [w EXCEPT !.status = "admin_review", !.hold = "none"] \in Row
        /\ \A w \in Row : [w EXCEPT !.payout = Unset] \in Row
    <2>1. \A w \in Row : [w EXCEPT !.checkIn = Unset, !.inConfirmed = FALSE] \in Row
      BY DEF Row
    <2>2. \A w \in Row : [w EXCEPT !.checkOut = Unset, !.outConfirmed = FALSE] \in Row
      BY DEF Row
    <2>3. \A w \in Row : [w EXCEPT !.status = "admin_review", !.hold = "none"] \in Row
      <3>1. \A w \in Row : [w EXCEPT !.status = "admin_review"] \in Row
        BY DEF Row
      <3>2. \A w \in Row : [w EXCEPT !.hold = "none"] \in Row
        BY DEF Row, Hold
      <3> QED
        BY <3>1, <3>2
    <2>4. \A w \in Row : [w EXCEPT !.payout = Unset] \in Row
      BY <1>1 DEF Row
    <2> QED
      BY <2>1, <2>2, <2>3, <2>4
  <1>3. x \in Row
    BY ZenonT(30), <1>1, <1>2
  <1>4. KeepsRecords(x, r) /\ x.hold = "none" /\ (Timed(r) => Timed(x))
    BY ZenonT(30), <1>1 DEF Row, KeepsRecords, Records, Timed
  <1>5. Handles(b, r, "write", x, {}, Unset)
    BY <1>1, <1>3, <1>4, WriteHandles DEF Started, Waged, Counts
  <1> QED
    BY <1>5 DEF Starts, Write

LEMMA OvertimeHandles ==
    ASSUME row \in [Bookings -> Row], NEW h \in Handlers, NEW b \in Bookings,
           AgreeOvertime(h, b) \/ QueryOvertime(h, b)
    PROVE  Starts(h, b)
  <1> PICK r : r = row[b]
    OBVIOUS
  <1>1. r \in Row /\ Unset \in Amount /\ KeepsRecords(r, r)
    BY AmountsTyped DEF Amount, Unset, KeepsRecords
  <1>2. CASE AgreeOvertime(h, b)
    <2>1. Handles(b, r, "charge", r, {}, Unset)
      BY <1>1 DEF Handles
    <2> QED
      BY <1>2, <2>1 DEF Starts, AgreeOvertime
  <1>3. CASE QueryOvertime(h, b)
    <2> PICK x : x = [r EXCEPT !.overrun = "queried", !.overrunDisputed = TRUE,
                               !.status = "admin_review"]
      OBVIOUS
    <2>1. /\ x \in Row /\ KeepsRecords(x, r) /\ (Timed(r) => Timed(x))
          /\ Counts(x) = Counts(r)
      BY <1>1 DEF Row, KeepsRecords, Records, Timed, Counts
    <2>2. Started(r) => ~Counts(x)
      BY <1>1, <1>3, <2>1, IdleUnlessCounting DEF QueryOvertime
    <2>3. Handles(b, r, "write", x, {}, Unset)
      BY <1>1, <2>1, <2>2, WriteHandles DEF Started, Waged
    <2> QED
      BY <1>3, <2>3 DEF Starts, QueryOvertime, Write
  <1> QED
    BY <1>2, <1>3

LEMMA DisputeHandles ==
    ASSUME row \in [Bookings -> Row], NEW h \in Handlers, NEW b \in Bookings,
           DisputePayout(h, b)
    PROVE  Starts(h, b)
  <1> PICK r : r = row[b]
    OBVIOUS
  <1> PICK x : x = [r EXCEPT !.disputed = TRUE]
    OBVIOUS
  <1>1. r \in Row /\ Unset \in Amount
    BY AmountsTyped DEF Amount, Unset
  <1>2. x \in Row /\ KeepsRecords(x, r) /\ (Timed(r) => Timed(x)) /\ (Started(r) => Started(x))
    BY <1>1 DEF Row, KeepsRecords, Records, Timed, Started, Counts, Confirmed
  <1>3. Waged(r) => Waged(x)
    BY <1>1 DEF Row, Waged, Counts, Billable
  <1>4. Handles(b, r, "write", x, {}, Unset)
    BY <1>1, <1>2, <1>3, WriteHandles
  <1> QED
    BY <1>4 DEF Starts, DisputePayout, Write

LEMMA CancelHandles ==
    ASSUME row \in [Bookings -> Row], NEW h \in Handlers, NEW b \in Bookings,
           NannyCancel(h, b) \/ ParentCancel(h, b) \/ MarkNannyNoShow(h, b)
    PROVE  Starts(h, b)
  <1> PICK r : r = row[b]
    OBVIOUS
  <1>1. r \in Row /\ {0, LateShare} \subseteq Amount
    BY AmountsTyped DEF Amount, Unset
  <1>2. PICK keep \in {0, LateShare}, x \in {r, AsCancelled(r)} :
           Work(h, b, "write", x, {}, keep)
    BY DEF NannyCancel, ParentCancel, MarkNannyNoShow
  <1>3. x \in Row /\ KeepsRecords(x, r) /\ (Timed(r) => Timed(x)) /\ (Started(r) => Started(x))
    BY <1>1 DEF AsCancelled, Row, KeepsRecords, Records, Timed, Started, Counts, Confirmed
  <1>4. Waged(r) => Waged(x)
    BY <1>1 DEF AsCancelled, Row, Waged, Counts, Billable
  <1>5. Handles(b, r, "write", x, {}, keep)
    BY <1>1, <1>3, <1>4, WriteHandles
  <1> QED
    BY <1>2, <1>5 DEF Starts

LEMMA NoShowHandles ==
    ASSUME row \in [Bookings -> Row], NEW h \in Handlers, NEW b \in Bookings,
           MarkParentNoShow(h, b)
    PROVE  Starts(h, b)
  <1> PICK r : r = row[b]
    OBVIOUS
  <1> PICK x : x = [r EXCEPT !.status = "completed", !.hold = "running", !.parentNoShow = TRUE]
    OBVIOUS
  <1>1. r \in Row /\ Rate(b) * Scheduled \in Amount
    BY AmountsTyped DEF Amount, Unset, Rate
  <1>2. x \in Row
    BY ZenonT(30), <1>1 DEF Row, Hold
  <1>3. KeepsRecords(x, r) /\ (Timed(r) => Timed(x)) /\ x.parentNoShow = TRUE
    BY <1>1 DEF Row, KeepsRecords, Records, Timed
  <1>4. Handles(b, r, "write", x, {"hold"}, Rate(b) * Scheduled)
    BY <1>1, <1>2, <1>3, WriteHandles DEF Started, Waged, Counts, Stamps
  <1> QED
    BY <1>4 DEF Starts, MarkParentNoShow

LEMMA StatusHandles ==
    ASSUME row \in [Bookings -> Row], NEW h \in Handlers, NEW b \in Bookings,
           UpdateStatus(h, b)
    PROVE  Starts(h, b)
  <1> PICK r : r = row[b]
    OBVIOUS
  <1> PICK target \in {"completed", "cancelled"} : Write(h, b, [r EXCEPT !.status = target])
    BY DEF UpdateStatus
  <1> PICK x : x = [r EXCEPT !.status = target]
    OBVIOUS
  <1>1. r \in Row /\ Unset \in Amount
    BY AmountsTyped DEF Amount, Unset
  <1>2. x \in Row /\ KeepsRecords(x, r) /\ (Timed(r) => Timed(x)) /\ Counts(x) = Counts(r)
    BY <1>1 DEF Row, KeepsRecords, Records, Timed, Counts
  <1>3. Started(r) => ~Counts(x)
    BY <1>1, <1>2, IdleUnlessCounting DEF UpdateStatus
  <1>4. Handles(b, r, "write", x, {}, Unset)
    BY <1>1, <1>2, <1>3, WriteHandles DEF Started, Waged
  <1> QED
    BY <1>4 DEF Starts, Write

(* Whatever a user asks for, the session starts from the committed row.       *)
LEMMA ReceiveHandles ==
    ASSUME row \in [Bookings -> Row], NEW h \in Handlers, NEW b \in Bookings, Receive(h, b)
    PROVE  Starts(h, b)
  <1>1. CheckIn(h, b) \/ CheckOut(h, b) => Starts(h, b)
    BY CheckInHandles, CheckOutHandles DEF Starts, Write
  <1> QED
    BY <1>1, ConfirmHandles, DenyHandles, OvertimeHandles, DisputeHandles, CancelHandles,
       NoShowHandles, StatusHandles DEF Receive

----------------------------------------------------------------------------
(* Types                                                                     *)

LedgerFits(l) ==
    /\ l \in Ledger
    /\ l.refunded <= l.refunds * Scheduled /\ l.sent <= l.transfers * Scheduled

(* Columns of a session that only runs and queries change.                   *)
Apart == {"released", "overrunReleased", "deducted", "queryHold"}

SessionFits(s) ==
    s # Idle =>
        /\ \E b \in Bookings : s \in Session(b)
        /\ s.stamped \subseteq Stamps
        /\ \A c \in Apart : s.new[c] = s.seen[c]
        /\ s.phase = "refund" => NeedsRefund(s.booking, s.new)

RunFits(r) ==
    r # NoRun =>
        /\ r \in Run
        /\ r.read \in [DOMAIN r.read -> Row] /\ r.view \in [DOMAIN r.read -> Row]
        /\ DOMAIN r.read \subseteq Bookings
        /\ r.todo \cup r.booking \cup r.written \subseteq DOMAIN r.read
        /\ r.phase = "base" /\ r.step # "next" =>
              \A b \in r.booking : /\ r.view[b].payout \in 0..Scheduled
                                   /\ r.view[b].deducted \in 0..r.balance

RowsTyped == row \in [Bookings -> Row] /\ keeps \in [Bookings -> 0..Scheduled]
DebtTyped == debt \in 0..InitialDebt
LedgerTyped == ledger \in [Bookings -> Ledger] /\ \A b \in Bookings : LedgerFits(ledger[b])
SessionsTyped == DOMAIN sess = Handlers /\ \A h \in Handlers : SessionFits(sess[h])
RunsTyped == DOMAIN run = Runners /\ \A k \in Runners : RunFits(run[k])

TypeInv == RowsTyped /\ DebtTyped /\ LedgerTyped /\ SessionsTyped /\ RunsTyped

LEMMA OneMore ==
    ASSUME NEW m \in Nat, NEW n \in Nat, NEW d \in 0..Scheduled,
           n < MaxCalls, m <= n * Scheduled
    PROVE  m + d <= (n + 1) * Scheduled /\ m + d \in 0..(MaxCalls * Scheduled)
  <1>1. Scheduled \in Nat /\ MaxCalls \in Nat
    BY AmountsTyped
  <1>2. (n + 1) * Scheduled = n * Scheduled + Scheduled
    BY <1>1
  <1>3. (n + 1) * Scheduled + (MaxCalls - (n + 1)) * Scheduled = MaxCalls * Scheduled
    BY <1>1
  <1>4. MaxCalls - (n + 1) \in Nat
    BY <1>1
  <1>5. (MaxCalls - (n + 1)) * Scheduled \in Nat
    BY <1>1, <1>4
  <1>6. n * Scheduled \in Nat /\ MaxCalls * Scheduled \in Nat
    BY <1>1
  <1> QED
    BY <1>1, <1>2, <1>3, <1>5, <1>6

(* Paystack refunds at most what was paid for the duty.                       *)
LEMMA RefundWithin ==
    ASSUME NEW b \in Bookings, NEW x \in Row, NeedsRefund(b, x)
    PROVE  RefundDue(b, x) \in 0..Scheduled
  <1>1. Billable(x) \in Nat /\ Scheduled \in Nat
    BY BillableFits, AmountsTyped
  <1>2. CASE Rate(b) = 0
    <2>1. RefundDue(b, x) = 0
      BY <1>1, <1>2 DEF RefundDue
    <2> QED
      BY <1>1, <2>1
  <1>3. CASE Rate(b) = 1
    <2>1. RefundDue(b, x) = Scheduled - Billable(x)
      BY <1>1, <1>3 DEF RefundDue
    <2>2. RefundDue(b, x) > 0
      BY DEF NeedsRefund
    <2> QED
      BY <1>1, <2>1, <2>2
  <1> QED
    BY <1>2, <1>3, RateFits

LEMMA SessionParts ==
    ASSUME NEW s, SessionFits(s), s.phase # "idle"
    PROVE  /\ s.booking \in Bookings /\ s \in Session(s.booking)
           /\ s.seen \in Row /\ s.new \in Row /\ s.keep \in Amount
           /\ s.phase \in {"write", "refund", "charge"} /\ s.stamped \subseteq Stamps
           /\ \A c \in Apart : s.new[c] = s.seen[c]
           /\ s.phase = "refund" => NeedsRefund(s.booking, s.new)
  BY DEF SessionFits, Session, Idle

LEMMA LedgerParts ==
    ASSUME NEW l, LedgerFits(l)
    PROVE  /\ l.charges \in 0..MaxCalls /\ l.refunds \in 0..MaxCalls
           /\ l.transfers \in 0..MaxCalls /\ l.overtimes \in 0..MaxCalls
           /\ l.refunded \in Nat /\ l.sent \in Nat
           /\ l.refunded <= l.refunds * Scheduled /\ l.sent <= l.transfers * Scheduled
  BY AmountsTyped DEF LedgerFits, Ledger

LEMMA RunParts ==
    ASSUME NEW r, RunFits(r), r.phase # "idle"
    PROVE  /\ r # NoRun /\ r \in Run
           /\ r.phase \in {"base", "overtime"} /\ r.step \in {"next", "send", "record"}
           /\ r.balance \in 0..InitialDebt /\ r.debt \in Unset..InitialDebt
           /\ r.read \in [DOMAIN r.read -> Row] /\ r.view \in [DOMAIN r.read -> Row]
           /\ DOMAIN r.read \subseteq Bookings
           /\ r.todo \cup r.booking \cup r.written \subseteq DOMAIN r.read
           /\ r.phase = "base" /\ r.step # "next" =>
                 \A b \in r.booking : /\ r.view[b].payout \in 0..Scheduled
                                      /\ r.view[b].deducted \in 0..r.balance
  BY DEF RunFits, Run, NoRun

LEMMA RefundLedger ==
    ASSUME TypeInv, NEW h \in Handlers, Refund(h)
    PROVE  LedgerTyped'
  <1> PICK s : s = sess[h]
    OBVIOUS
  <1> PICK b : b = s.booking
    OBVIOUS
  <1> PICK d : d = RefundDue(b, s.new)
    OBVIOUS
  <1>1. b \in Bookings /\ d \in 0..Scheduled
    BY SessionParts, RefundWithin DEF Refund, TypeInv, SessionsTyped
  <1>2. CASE ledger' = ledger
    BY <1>2 DEF TypeInv, LedgerTyped
  <1>3. CASE /\ ledger[b].refunds < MaxCalls
             /\ ledger' = [ledger EXCEPT ![b].refunds = @ + 1, ![b].refunded = @ + d]
    <2> PICK l : l = ledger[b]
      OBVIOUS
    <2> PICK m : m = [l EXCEPT !.refunds = @ + 1, !.refunded = @ + d]
      OBVIOUS
    <2>1. l \in Ledger /\ LedgerFits(l)
      BY <1>1 DEF TypeInv, LedgerTyped
    <2>2. /\ l.refunded + d <= (l.refunds + 1) * Scheduled
          /\ l.refunded + d \in 0..(MaxCalls * Scheduled)
          /\ l.refunds + 1 \in 0..MaxCalls
      BY <1>1, <1>3, <2>1, LedgerParts, OneMore, AmountsTyped
    <2>3. m \in Ledger
      BY ZenonT(30), <2>1, <2>2 DEF Ledger
    <2>4. LedgerFits(m)
      BY <2>1, <2>2, <2>3 DEF LedgerFits, Ledger
    <2>5. ledger' = [ledger EXCEPT ![b] = m]
      BY <1>1, <1>3 DEF TypeInv, LedgerTyped
    <2> QED
      BY <1>1, <2>3, <2>4, <2>5 DEF TypeInv, LedgerTyped
  <1> QED
    BY <1>2, <1>3 DEF Refund

LEMMA ChargeLedger ==
    ASSUME TypeInv, NEW h \in Handlers, ChargeOvertime(h)
    PROVE  LedgerTyped'
  <1> PICK b : b = sess[h].booking
    OBVIOUS
  <1>1. b \in Bookings
    BY SessionParts DEF ChargeOvertime, TypeInv, SessionsTyped
  <1>2. CASE ledger' = ledger
    BY <1>2 DEF TypeInv, LedgerTyped
  <1>3. CASE /\ ledger[b].charges < MaxCalls
             /\ ledger' = [ledger EXCEPT ![b].charges = @ + 1]
    <2> PICK l : l = ledger[b]
      OBVIOUS
    <2> PICK m : m = [l EXCEPT !.charges = @ + 1]
      OBVIOUS
    <2>1. l \in Ledger /\ LedgerFits(l)
      BY <1>1 DEF TypeInv, LedgerTyped
    <2>2. l.charges + 1 \in 0..MaxCalls
      BY <1>3, <2>1, LedgerParts, AmountsTyped
    <2>3. m \in Ledger /\ LedgerFits(m)
      BY <2>1, <2>2 DEF LedgerFits, Ledger
    <2>4. ledger' = [ledger EXCEPT ![b] = m]
      BY <1>1, <1>3 DEF TypeInv, LedgerTyped
    <2> QED
      BY <1>1, <2>3, <2>4 DEF TypeInv, LedgerTyped
  <1> QED
    BY <1>2, <1>3 DEF ChargeOvertime

LEMMA TransferLedger ==
    ASSUME TypeInv, NEW k \in Runners, NEW b \in Bookings, Transfer(k, b)
    PROVE  LedgerTyped'
  <1> PICK r : r = run[k]
    OBVIOUS
  <1> PICK l : l = ledger[b]
    OBVIOUS
  <1>1. l \in Ledger /\ LedgerFits(l)
    BY DEF TypeInv, LedgerTyped
  <1>2. CASE ledger' = ledger
    BY <1>2 DEF TypeInv, LedgerTyped
  <1>3. CASE /\ l.transfers < MaxCalls /\ r.phase = "base"
             /\ ledger' = [ledger EXCEPT ![b].transfers = @ + 1,
                                         ![b].sent = @ + r.view[b].payout]
    <2> PICK d : d = r.view[b].payout
      OBVIOUS
    <2> PICK m : m = [l EXCEPT !.transfers = @ + 1, !.sent = @ + d]
      OBVIOUS
    <2>1. d \in 0..Scheduled
      BY <1>3, RunParts DEF Transfer, TypeInv, RunsTyped
    <2>2. /\ l.sent + d <= (l.transfers + 1) * Scheduled
          /\ l.sent + d \in 0..(MaxCalls * Scheduled)
          /\ l.transfers + 1 \in 0..MaxCalls
      BY <1>1, <1>3, <2>1, LedgerParts, OneMore, AmountsTyped
    <2>3. m \in Ledger
      BY <1>1, <2>2 DEF Ledger
    <2>4. LedgerFits(m)
      BY <1>1, <2>2, <2>3 DEF LedgerFits, Ledger
    <2>5. ledger' = [ledger EXCEPT ![b] = m]
      BY <1>3 DEF TypeInv, LedgerTyped
    <2> QED
      BY <2>3, <2>4, <2>5 DEF TypeInv, LedgerTyped
  <1>4. CASE /\ l.overtimes < MaxCalls
             /\ ledger' = [ledger EXCEPT ![b].overtimes = @ + 1]
    <2> PICK m : m = [l EXCEPT !.overtimes = @ + 1]
      OBVIOUS
    <2>1. l.overtimes + 1 \in 0..MaxCalls
      BY <1>1, <1>4, LedgerParts, AmountsTyped
    <2>2. m \in Ledger /\ LedgerFits(m)
      BY <1>1, <2>1 DEF LedgerFits, Ledger
    <2>3. ledger' = [ledger EXCEPT ![b] = m]
      BY <1>4 DEF TypeInv, LedgerTyped
    <2> QED
      BY <2>2, <2>3 DEF TypeInv, LedgerTyped
  <1> QED
    BY <1>2, <1>3, <1>4 DEF Transfer

----------------------------------------------------------------------------
(* The types of the sessions                                                 *)

(* The session s after Paystack's answer, with y for the booking's row.       *)
Answered(s, y) ==
    [s EXCEPT !.phase = "write", !.new = Finalized(s.booking, y),
              !.stamped = @ \cup (IF Completes(s.booking, y) THEN {"hold"} ELSE {})]

(* Paystack's answers to the refund of a row x.                               *)
Refunds(x, taken, ok) ==
    IF ok THEN [x EXCEPT !.refundRef = TRUE] ELSE [x EXCEPT !.status = "admin_review"]

LEMMA RefundAnswers ==
    ASSUME SessionsTyped, NEW h \in Handlers, Refund(h)
    PROVE  \E o \in Outcomes :
              /\ sess' = [sess EXCEPT ![h] =
                            Answered(sess[h], Refunds(sess[h].new, o.taken, Succeeded(o)))]
              /\ o.taken => ledger[sess[h].booking].refunds < MaxCalls
              /\ ledger' = IF o.taken
                           THEN [ledger EXCEPT
                                   ![sess[h].booking].refunds = @ + 1,
                                   ![sess[h].booking].refunded =
                                       @ + RefundDue(sess[h].booking, sess[h].new)]
                           ELSE ledger
  <1> PICK s : s = sess[h]
    OBVIOUS
  <1>1. s \in Session(s.booking)
    BY SessionParts DEF SessionsTyped, Refund
  <1> PICK o \in Outcomes :
        /\ o.taken => ledger[s.booking].refunds < MaxCalls
        /\ ledger' = IF o.taken
                     THEN [ledger EXCEPT ![s.booking].refunds = @ + 1,
                                         ![s.booking].refunded =
                                             @ + RefundDue(s.booking, s.new)]
                     ELSE ledger
        /\ LET y == IF Succeeded(o) THEN [s.new EXCEPT !.refundRef = TRUE]
                    ELSE [s.new EXCEPT !.status = "admin_review"]
           IN sess' = [sess EXCEPT ![h].phase = "write",
                                   ![h].new = Finalized(s.booking, y),
                                   ![h].stamped = @ \cup
                                      (IF Completes(s.booking, y) THEN {"hold"} ELSE {})]
    BY DEF Refund
  <1> PICK y : y = Refunds(s.new, o.taken, Succeeded(o))
    OBVIOUS
  <1>2. sess' = [sess EXCEPT ![h].phase = "write",
                             ![h].new = Finalized(s.booking, y),
                             ![h].stamped = @ \cup
                                (IF Completes(s.booking, y) THEN {"hold"} ELSE {})]
    BY DEF Refunds
  <1>3. sess' = [sess EXCEPT ![h] = Answered(s, y)]
    BY <1>1, <1>2 DEF Answered, SessionsTyped, Session
  <1> WITNESS o \in Outcomes
  <1> QED
    BY <1>3

LEMMA RefundsFit ==
    ASSUME NEW x \in Row, NEW t, NEW ok \in BOOLEAN, NEW y, y = Refunds(x, t, ok)
    PROVE  /\ y \in Row /\ \A c \in Apart : y[c] = x[c]
           /\ y.overrunHold = x.overrunHold /\ y.refundRef = (ok \/ x.refundRef)
           /\ Timed(x) => Timed(y)
           /\ Started(x) => Started(y)
  <1>1. y \in Row
    BY DEF Refunds, Row
  <1>2. /\ \A c \in Apart : y[c] = x[c]
        /\ y.overrunHold = x.overrunHold /\ y.refundRef = (ok \/ x.refundRef)
        /\ Timed(x) => Timed(y)
        /\ Started(x) => Started(y)
    BY DEF Refunds, Row, Apart, Timed, Started, Counts, Confirmed
  <1> QED
    BY <1>1, <1>2

LEMMA AnsweredFits ==
    ASSUME NEW s, SessionFits(s), s.phase = "refund", NEW y \in Row,
           \A c \in Apart : y[c] = s.new[c]
    PROVE  /\ SessionFits(Answered(s, y))
           /\ Answered(s, y).phase = "write" /\ Answered(s, y).booking = s.booking
           /\ Answered(s, y).seen = s.seen /\ Answered(s, y).new = Finalized(s.booking, y)
           /\ Answered(s, y).keep = s.keep
           /\ s.stamped \subseteq Answered(s, y).stamped
  <1> PICK b : b = s.booking
    OBVIOUS
  <1> PICK z : z = Finalized(b, y)
    OBVIOUS
  <1> PICK st : st = s.stamped \cup (IF Completes(b, y) THEN {"hold"} ELSE {})
    OBVIOUS
  <1>1. /\ b \in Bookings /\ s \in Session(b) /\ s.stamped \subseteq Stamps
        /\ \A c \in Apart : s.new[c] = s.seen[c]
    BY SessionParts
  <1>2. z \in Row /\ KeepsRecords(z, y)
    BY <1>1, FinalizedServes
  <1>3. \A c \in Apart : z[c] = s.seen[c]
    BY <1>1, <1>2 DEF KeepsRecords, Records, Apart
  <1>4. st \subseteq Stamps /\ st \subseteq Columns
    BY <1>1 DEF Stamps, Columns, NewRow
  <1> PICK a : a = [s EXCEPT !.phase = "write", !.new = z, !.stamped = st]
    OBVIOUS
  <1>5. a = Answered(s, y)
    BY <1>1 DEF Answered, Session
  <1>6. /\ a.phase = "write" /\ a.booking = b /\ a.seen = s.seen /\ a.new = z
        /\ a.stamped = st /\ a.keep = s.keep
    BY <1>1 DEF Session
  <1>7. a \in Session(b)
    BY <1>1, <1>2, <1>4 DEF Session
  <1> QED
    BY <1>1, <1>3, <1>4, <1>5, <1>6, <1>7 DEF SessionFits

(* The session s after its charge.                                            *)
Charged(s) ==
    [s EXCEPT !.phase = "write", !.new = AsCharged(@), !.stamped = {"hold", "overrunHold"}]

LEMMA ChargeAnswers ==
    ASSUME SessionsTyped, NEW h \in Handlers, ChargeOvertime(h)
    PROVE  \E o \in Outcomes :
              /\ sess' = [sess EXCEPT ![h] =
                            IF Succeeded(o) /\ sess[h].booking \notin Requested
                            THEN Charged(sess[h])
                            ELSE Idle]
              /\ ledger' = IF o.taken THEN [ledger EXCEPT ![sess[h].booking].charges = @ + 1]
                           ELSE ledger
  BY DEF ChargeOvertime, SessionsTyped, Charged

LEMMA ChargedFits ==
    ASSUME NEW s, SessionFits(s), s.phase = "charge", NEW a, a = Charged(s)
    PROVE  /\ SessionFits(a)
           /\ a.phase = "write" /\ a.booking = s.booking /\ a.seen = s.seen
           /\ a.new = AsCharged(s.new) /\ a.keep = s.keep
           /\ Timed(s.new) => Timed(a.new)
           /\ a.new.refundRef = s.new.refundRef
  <1> PICK z : z = AsCharged(s.new)
    OBVIOUS
  <1>1. /\ s.booking \in Bookings /\ s \in Session(s.booking) /\ s.new \in Row
        /\ \A c \in Apart : s.new[c] = s.seen[c]
    BY SessionParts
  <1>2. z \in Row
    <2>1. \A w \in Row : [w EXCEPT !.overrun = "charged"] \in Row
      BY DEF Row
    <2>2. \A w \in Row : [w EXCEPT !.status = "completed"] \in Row
      BY DEF Row
    <2>3. \A w \in Row : /\ [w EXCEPT !.overrunHold = "running"] \in Row
                         /\ [w EXCEPT !.hold = "running"] \in Row
      <3>1. \A w \in Row : [w EXCEPT !.overrunHold = "running"] \in Row
        BY DEF Row, Hold
      <3>2. \A w \in Row : [w EXCEPT !.hold = "running"] \in Row
        BY DEF Row, Hold
      <3> QED
        BY <3>1, <3>2
    <2> QED
      BY <1>1, <2>1, <2>2, <2>3 DEF AsCharged
  <1>3. /\ \A c \in Apart : z[c] = s.seen[c]
        /\ Timed(s.new) => Timed(z)
        /\ z.refundRef = s.new.refundRef
    BY <1>1 DEF AsCharged, Row, Apart, Timed
  <1>4. {"hold", "overrunHold"} \subseteq Stamps /\ {"hold", "overrunHold"} \subseteq Columns
    BY DEF Stamps, Columns, NewRow
  <1>5. a = [s EXCEPT !.phase = "write", !.new = z, !.stamped = {"hold", "overrunHold"}]
    BY <1>1 DEF Session, Charged
  <1>6. /\ a.phase = "write" /\ a.booking = s.booking /\ a.seen = s.seen /\ a.new = z
        /\ a.stamped = {"hold", "overrunHold"} /\ a.keep = s.keep
    BY <1>1, <1>5 DEF Session
  <1>7. a \in Session(s.booking)
    BY <1>1, <1>2, <1>4, <1>5 DEF Session
  <1> QED
    BY <1>1, <1>3, <1>4, <1>6, <1>7 DEF SessionFits

LEMMA WorkFits ==
    ASSUME NEW b \in Bookings, NEW r \in Row, NEW phase, NEW new, NEW stamped, NEW keep,
           Handles(b, r, phase, new, stamped, keep)
    PROVE  SessionFits([phase |-> phase, booking |-> b, seen |-> r, new |-> new,
                        stamped |-> stamped, keep |-> keep])
  <1>1. Stamps \subseteq Columns /\ Apart \subseteq Records
    BY DEF Stamps, Columns, NewRow, Apart, Records
  <1>2. [phase |-> phase, booking |-> b, seen |-> r, new |-> new,
         stamped |-> stamped, keep |-> keep] \in Session(b)
    BY <1>1 DEF Handles, Session
  <1> QED
    BY <1>1, <1>2 DEF Handles, SessionFits, KeepsRecords

LEMMA IdleFits == SessionFits(Idle)
  BY DEF SessionFits

LEMMA SessionsUpdated ==
    ASSUME SessionsTyped, NEW h \in Handlers, NEW s, sess' = [sess EXCEPT ![h] = s],
           SessionFits(s)
    PROVE  SessionsTyped'
  BY DEF SessionsTyped

LEMMA ServeSessions ==
    ASSUME TypeInv, NEW h \in Handlers, Serve(h) \/ \E b \in Bookings : Receive(h, b)
    PROVE  SessionsTyped'
  <1> USE DEF TypeInv
  <1> PICK s : s = sess[h]
    OBVIOUS
  <1>0. SessionFits(s)
    BY DEF SessionsTyped
  <1>1. ASSUME NEW b \in Bookings, Receive(h, b) PROVE SessionsTyped'
    <2> PICK phase, new, stamped, keep :
          /\ Handles(b, row[b], phase, new, stamped, keep)
          /\ Work(h, b, phase, new, stamped, keep)
      BY <1>1, ReceiveHandles DEF Starts, RowsTyped
    <2> QED
      BY WorkFits, SessionsUpdated DEF Work, RowsTyped
  <1>2. ASSUME Refund(h) PROVE SessionsTyped'
    <2> PICK o \in Outcomes :
          sess' = [sess EXCEPT ![h] = Answered(s, Refunds(s.new, o.taken, Succeeded(o)))]
      BY <1>2, RefundAnswers
    <2> PICK y : y = Refunds(s.new, o.taken, Succeeded(o))
      OBVIOUS
    <2>1. s.phase = "refund" /\ s.new \in Row /\ Succeeded(o) \in BOOLEAN
      BY <1>0, <1>2, SessionParts DEF Refund, Outcomes, Succeeded
    <2>2. y \in Row /\ \A c \in Apart : y[c] = s.new[c]
      BY <2>1, RefundsFit
    <2> QED
      BY <1>0, <2>1, <2>2, AnsweredFits, SessionsUpdated
  <1>3. ASSUME ChargeOvertime(h) PROVE SessionsTyped'
    <2> PICK a : a = Charged(s)
      OBVIOUS
    <2>1. sess' = [sess EXCEPT ![h] = a] \/ sess' = [sess EXCEPT ![h] = Idle]
      BY <1>3, ChargeAnswers
    <2>2. s.phase = "charge"
      BY <1>3 DEF ChargeOvertime
    <2> QED
      BY <1>0, <2>1, <2>2, ChargedFits, IdleFits, SessionsUpdated
  <1>4. ASSUME Commit(h) PROVE SessionsTyped'
    BY <1>4, IdleFits, SessionsUpdated DEF Commit
  <1> QED
    BY <1>1, <1>2, <1>3, <1>4 DEF Serve

----------------------------------------------------------------------------
(* The types of the runs                                                     *)

LEMMA LoadedFits == \A D \in SUBSET Bookings : [D -> Row] \subseteq Loaded
  BY DEF Loaded

LEMMA RunsUpdated ==
    ASSUME RunsTyped, NEW k \in Runners, NEW r, run' = [run EXCEPT ![k] = r], RunFits(r)
    PROVE  RunsTyped'
  BY DEF RunsTyped

LEMMA NoRunFits == RunFits(NoRun)
  BY DEF RunFits

LEMMA RunMade ==
    ASSUME NEW r, NEW D \in SUBSET Bookings,
           r \in [phase : {"base", "overtime"}, step : {"next", "send", "record"},
                  todo : SUBSET D, read : [D -> Row], view : [D -> Row],
                  booking : SUBSET D, written : SUBSET D,
                  balance : 0..InitialDebt, debt : Unset..InitialDebt],
           r.phase = "base" /\ r.step # "next" =>
              \A b \in r.booking : /\ r.view[b].payout \in 0..Scheduled
                                   /\ r.view[b].deducted \in 0..r.balance
    PROVE  RunFits(r)
  <1>1. r.read \in Loaded /\ r.view \in Loaded
    BY LoadedFits
  <1>2. /\ r.todo \in SUBSET Bookings /\ r.booking \in SUBSET Bookings
        /\ r.written \in SUBSET Bookings
    OBVIOUS
  <1>3. r \in Run
    BY <1>1, <1>2 DEF Run
  <1>4. DOMAIN r.read = D
    OBVIOUS
  <1> QED
    BY <1>3, <1>4 DEF RunFits

LEMMA RunTaken ==
    ASSUME NEW r, RunFits(r), r.phase # "idle", NEW D, D = DOMAIN r.read
    PROVE  /\ D \in SUBSET Bookings
           /\ r \in [phase : {"base", "overtime"}, step : {"next", "send", "record"},
                     todo : SUBSET D, read : [D -> Row], view : [D -> Row],
                     booking : SUBSET D, written : SUBSET D,
                     balance : 0..InitialDebt, debt : Unset..InitialDebt]
           /\ r.phase = "base" /\ r.step # "next" =>
                 \A b \in r.booking : /\ r.view[b].payout \in 0..Scheduled
                                      /\ r.view[b].deducted \in 0..r.balance
  <1>1. /\ r \in Run /\ D \in SUBSET Bookings
        /\ r.read \in [D -> Row] /\ r.view \in [D -> Row]
        /\ r.todo \in SUBSET D /\ r.booking \in SUBSET D /\ r.written \in SUBSET D
    BY RunParts
  <1>2. r \in [phase : {"base", "overtime"}, step : {"next", "send", "record"},
               todo : SUBSET D, read : [D -> Row], view : [D -> Row],
               booking : SUBSET D, written : SUBSET D,
               balance : 0..InitialDebt, debt : Unset..InitialDebt]
    BY <1>1 DEF Run
  <1> QED
    BY <1>1, <1>2, RunParts

LEMMA BalanceFits ==
    ASSUME TypeInv, NEW k \in Runners, run[k].phase # "idle"
    PROVE  Balance(k) \in 0..InitialDebt
  <1>1. run[k].debt \in Unset..InitialDebt
    BY RunParts DEF TypeInv, RunsTyped
  <1> QED
    BY <1>1, AmountsTyped DEF Balance, TypeInv, DebtTyped, Unset

LEMMA GrossFits ==
    ASSUME TypeInv, NEW b \in Bookings, NEW x \in Row
    PROVE  Gross(b, x) \in 0..Scheduled
  BY AmountsTyped DEF Gross, TypeInv, RowsTyped, Row, Amount, Unset

(* The runs that a step of runner k may lead to.                              *)
ReadRun(due) ==
    [phase |-> "base", step |-> "next", todo |-> due,
     read |-> [b \in due |-> row[b]], view |-> [b \in due |-> row[b]],
     booking |-> {}, written |-> {}, balance |-> 0, debt |-> Unset]

Known(old, due) == [b \in DOMAIN old \cup due |-> IF b \in DOMAIN old THEN old[b] ELSE row[b]]

OvertimeRun(r, due) ==
    [r EXCEPT !.phase = "overtime", !.todo = due, !.read = Known(@, due), !.view = Known(@, due)]

Withheld(x, gross, cut) == [x EXCEPT !.payout = gross - cut, !.deducted = cut]

DeductRun(r, b, x, balance) ==
    [r EXCEPT !.todo = @ \ {b}, !.booking = {b}, !.step = "send", !.balance = balance,
              !.view[b] = x]

RecordRun(r) ==
    [r EXCEPT !.written = @ \cup r.booking, !.step = "next", !.booking = {}, !.balance = 0]

LEMMA PayoutReadRun ==
    ASSUME NEW k \in Runners, PayoutRead(k)
    PROVE  run[k] = NoRun /\ run' = [run EXCEPT ![k] = ReadRun({b \in Bookings : Due(row[b])})]
  BY DEF PayoutRead, ReadRun, Restrict

LEMMA OvertimeReadRun ==
    ASSUME RunsTyped, NEW k \in Runners, OvertimeRead(k)
    PROVE  /\ run[k].phase = "base" /\ run[k].step = "next" /\ run[k].todo = {}
           /\ run' = [run EXCEPT ![k] =
                        OvertimeRun(run[k], {b \in Bookings : OvertimeDue(row[b])})]
  BY DEF OvertimeRead, OvertimeRun, Known, RunsTyped

LEMMA DeductRuns ==
    ASSUME TypeInv, NEW k \in Runners, NEW b \in Bookings, Deduct(k, b)
    PROVE  /\ run[k].phase = "base" /\ run[k].step = "next" /\ b \in run[k].todo
           /\ \E gross \in 0..Scheduled, cut \in 0..Balance(k) :
                 /\ gross = Gross(b, run[k].view[b]) /\ gross > 0 /\ cut <= gross
                 /\ run' = [run EXCEPT ![k] =
                       DeductRun(run[k], b, Withheld(run[k].view[b], gross, cut), Balance(k))]
  <1> PICK r : r = run[k]
    OBVIOUS
  <1> PICK gross : gross = Gross(b, r.view[b])
    OBVIOUS
  <1> PICK cut : cut = LeastOf(Balance(k), gross)
    OBVIOUS
  <1>1. r.phase = "base" /\ r.step = "next" /\ b \in r.todo /\ gross > 0
    BY DEF Deduct
  <1>2. r.view[b] \in Row /\ b \in DOMAIN r.view
    BY <1>1, RunParts DEF TypeInv, RunsTyped
  <1>3. Balance(k) \in 0..InitialDebt /\ gross \in 0..Scheduled
    BY <1>1, <1>2, BalanceFits, GrossFits
  <1>4. cut \in 0..Balance(k) /\ cut <= gross
    BY <1>3, AmountsTyped DEF LeastOf
  <1>5. run' = [run EXCEPT ![k].todo = @ \ {b}, ![k].booking = {b},
                           ![k].step = "send", ![k].balance = Balance(k),
                           ![k].view[b].payout = gross - cut,
                           ![k].view[b].deducted = cut]
    BY DEF Deduct
  <1>6. r \in Run
    BY <1>1, RunParts DEF TypeInv, RunsTyped
  <1>7. run' = [run EXCEPT ![k] = DeductRun(r, b, Withheld(r.view[b], gross, cut), Balance(k))]
    <2> DEFINE g == Gross(b, run[k].view[b])
               c == LeastOf(Balance(k), g)
               x == [run[k].view[b] EXCEPT !.payout = g - c, !.deducted = c]
               a == [run[k] EXCEPT !.todo = @ \ {b}, !.booking = {b}, !.step = "send",
                                   !.balance = Balance(k), !.view[b] = x]
    <2>1. /\ {"todo", "booking", "step", "balance", "view"} \subseteq DOMAIN run[k]
          /\ DOMAIN run = Runners /\ b \in DOMAIN run[k].view
      BY <1>2, <1>6 DEF Run, TypeInv, RunsTyped
    <2>2. run' = [run EXCEPT ![k] = a]
      BY <2>1 DEF Deduct
    <2>3. a = DeductRun(r, b, Withheld(r.view[b], gross, cut), Balance(k))
      BY DEF DeductRun, Withheld
    <2> HIDE DEF a
    <2> QED
      BY <2>2, <2>3
  <1> QED
    BY <1>1, <1>3, <1>4, <1>7

LEMMA TransferRuns ==
    ASSUME NEW k \in Runners, NEW b \in Bookings, Transfer(k, b)
    PROVE  /\ run[k].phase # "idle" /\ run[k].step = "send" /\ b \in run[k].booking
           /\ MayFlush(k, b)
           /\ \E o \in Outcomes :
                 /\ ledger' = IF ~o.taken THEN ledger
                              ELSE IF run[k].phase = "base"
                              THEN [ledger EXCEPT ![b].transfers = @ + 1,
                                                  ![b].sent = @ + run[k].view[b].payout]
                              ELSE [ledger EXCEPT ![b].overtimes = @ + 1]
                 /\ run' = [run EXCEPT ![k] = IF Succeeded(o) THEN Transferred(k, b)
                                              ELSE RolledBack(k, b)]
  BY DEF Transfer

LEMMA RecordRuns ==
    ASSUME RunsTyped, NEW k \in Runners, Record(k)
    PROVE  /\ run[k].phase # "idle" /\ run[k].step = "record"
           /\ run' = [run EXCEPT ![k] = RecordRun(run[k])]
  BY DEF Record, RecordRun, RunsTyped

LEMMA ReadRunFits ==
    ASSUME RowsTyped, NEW due \in SUBSET Bookings
    PROVE  RunFits(ReadRun(due))
  <1> PICK r : r = ReadRun(due)
    OBVIOUS
  <1>1. 0 \in 0..InitialDebt /\ Unset \in Unset..InitialDebt
    BY AmountsTyped DEF Unset
  <1>2. [b \in due |-> row[b]] \in [due -> Row]
    BY DEF RowsTyped
  <1>3. r \in [phase : {"base", "overtime"}, step : {"next", "send", "record"},
               todo : SUBSET due, read : [due -> Row], view : [due -> Row],
               booking : SUBSET due, written : SUBSET due,
               balance : 0..InitialDebt, debt : Unset..InitialDebt]
    BY <1>1, <1>2 DEF ReadRun
  <1>4. r.step = "next"
    BY DEF ReadRun
  <1> QED
    BY <1>3, <1>4, RunMade

LEMMA OvertimeRunFits ==
    ASSUME RowsTyped, NEW r, RunFits(r), r.phase = "base", r.step = "next",
           NEW due \in SUBSET Bookings
    PROVE  RunFits(OvertimeRun(r, due))
  <1> PICK D : D = DOMAIN r.read
    OBVIOUS
  <1> PICK E : E = D \cup due
    OBVIOUS
  <1> PICK a : a = OvertimeRun(r, due)
    OBVIOUS
  <1>1. /\ D \in SUBSET Bookings
        /\ r \in [phase : {"base", "overtime"}, step : {"next", "send", "record"},
                  todo : SUBSET D, read : [D -> Row], view : [D -> Row],
                  booking : SUBSET D, written : SUBSET D,
                  balance : 0..InitialDebt, debt : Unset..InitialDebt]
    BY RunTaken
  <1>2. Known(r.read, due) \in [E -> Row] /\ Known(r.view, due) \in [E -> Row]
    BY <1>1 DEF Known, RowsTyped
  <1>3. r.booking \in SUBSET E /\ r.written \in SUBSET E /\ due \in SUBSET E
    BY <1>1
  <1>4. a \in [phase : {"base", "overtime"}, step : {"next", "send", "record"},
               todo : SUBSET E, read : [E -> Row], view : [E -> Row],
               booking : SUBSET E, written : SUBSET E,
               balance : 0..InitialDebt, debt : Unset..InitialDebt]
    BY <1>1, <1>2, <1>3 DEF OvertimeRun
  <1>5. a.phase = "overtime" /\ E \in SUBSET Bookings
    BY <1>1 DEF OvertimeRun
  <1> QED
    BY <1>4, <1>5, RunMade

LEMMA TodoRunFits ==
    ASSUME NEW r, RunFits(r), r.phase # "idle", r.step = "next", NEW b
    PROVE  RunFits([r EXCEPT !.todo = @ \ {b}])
  <1> PICK D : D = DOMAIN r.read
    OBVIOUS
  <1> PICK a : a = [r EXCEPT !.todo = @ \ {b}]
    OBVIOUS
  <1>1. /\ D \in SUBSET Bookings
        /\ r \in [phase : {"base", "overtime"}, step : {"next", "send", "record"},
                  todo : SUBSET D, read : [D -> Row], view : [D -> Row],
                  booking : SUBSET D, written : SUBSET D,
                  balance : 0..InitialDebt, debt : Unset..InitialDebt]
    BY RunTaken
  <1>2. a \in [phase : {"base", "overtime"}, step : {"next", "send", "record"},
               todo : SUBSET D, read : [D -> Row], view : [D -> Row],
               booking : SUBSET D, written : SUBSET D,
               balance : 0..InitialDebt, debt : Unset..InitialDebt]
    BY <1>1
  <1>3. a.step = "next"
    BY <1>1
  <1> QED
    BY <1>1, <1>2, <1>3, RunMade

LEMMA TakeRunFits ==
    ASSUME NEW r, RunFits(r), r.phase = "overtime", NEW b \in r.todo
    PROVE  RunFits([r EXCEPT !.todo = @ \ {b}, !.booking = {b}, !.step = "send"])
  <1> PICK D : D = DOMAIN r.read
    OBVIOUS
  <1> PICK a : a = [r EXCEPT !.todo = @ \ {b}, !.booking = {b}, !.step = "send"]
    OBVIOUS
  <1>1. /\ D \in SUBSET Bookings
        /\ r \in [phase : {"base", "overtime"}, step : {"next", "send", "record"},
                  todo : SUBSET D, read : [D -> Row], view : [D -> Row],
                  booking : SUBSET D, written : SUBSET D,
                  balance : 0..InitialDebt, debt : Unset..InitialDebt]
    BY RunTaken
  <1>2. a \in [phase : {"base", "overtime"}, step : {"next", "send", "record"},
               todo : SUBSET D, read : [D -> Row], view : [D -> Row],
               booking : SUBSET D, written : SUBSET D,
               balance : 0..InitialDebt, debt : Unset..InitialDebt]
    BY <1>1
  <1>3. a.phase = "overtime"
    BY <1>1
  <1> QED
    BY <1>1, <1>2, <1>3, RunMade

LEMMA WithheldFits ==
    ASSUME NEW x \in Row, NEW gross \in 0..Scheduled, NEW cut \in 0..InitialDebt, cut <= gross
    PROVE  /\ Withheld(x, gross, cut) \in Row
           /\ Withheld(x, gross, cut).payout \in 0..Scheduled
           /\ Withheld(x, gross, cut).payout = gross - cut
           /\ Withheld(x, gross, cut).deducted = cut
  <1>1. gross - cut \in 0..Scheduled /\ gross - cut \in Amount /\ cut \in Amount
    BY AmountsTyped DEF Amount, Unset
  <1>2. \A p, d \in Amount : [x EXCEPT !.payout = p, !.deducted = d] \in Row
    BY DEF Row
  <1>3. Withheld(x, gross, cut) \in Row
    BY <1>1, <1>2 DEF Withheld
  <1> QED
    BY <1>1, <1>3 DEF Withheld, Row

LEMMA DeductRunFits ==
    ASSUME NEW r, RunFits(r), r.phase = "base", NEW b \in r.todo,
           NEW gross \in 0..Scheduled, NEW balance \in 0..InitialDebt, NEW cut \in 0..balance,
           cut <= gross
    PROVE  RunFits(DeductRun(r, b, Withheld(r.view[b], gross, cut), balance))
  <1> PICK D : D = DOMAIN r.read
    OBVIOUS
  <1> PICK x : x = Withheld(r.view[b], gross, cut)
    OBVIOUS
  <1> PICK a : a = DeductRun(r, b, x, balance)
    OBVIOUS
  <1>1. /\ D \in SUBSET Bookings
        /\ r \in [phase : {"base", "overtime"}, step : {"next", "send", "record"},
                  todo : SUBSET D, read : [D -> Row], view : [D -> Row],
                  booking : SUBSET D, written : SUBSET D,
                  balance : 0..InitialDebt, debt : Unset..InitialDebt]
    BY RunTaken
  <1>2. b \in D /\ r.view[b] \in Row /\ cut \in 0..InitialDebt
    BY <1>1, AmountsTyped
  <1>3. x \in Row /\ x.payout \in 0..Scheduled /\ x.deducted = cut
    BY <1>2, WithheldFits
  <1>4. [r.view EXCEPT ![b] = x] \in [D -> Row] /\ {b} \in SUBSET D /\ r.todo \ {b} \in SUBSET D
    BY <1>1, <1>2, <1>3
  <1>5. a = [r EXCEPT !.todo = r.todo \ {b}, !.booking = {b}, !.step = "send",
                      !.balance = balance, !.view = [r.view EXCEPT ![b] = x]]
    BY <1>1 DEF DeductRun
  <1>6. a \in [phase : {"base", "overtime"}, step : {"next", "send", "record"},
               todo : SUBSET D, read : [D -> Row], view : [D -> Row],
               booking : SUBSET D, written : SUBSET D,
               balance : 0..InitialDebt, debt : Unset..InitialDebt]
    BY <1>1, <1>4, <1>5
  <1>7. a.booking = {b} /\ a.view[b] = x /\ a.balance = balance
    BY <1>1, <1>2, <1>4, <1>5
  <1>8. \A c \in a.booking : a.view[c].payout \in 0..Scheduled /\ a.view[c].deducted \in 0..a.balance
    BY <1>3, <1>7
  <1> QED
    BY <1>1, <1>6, <1>8, RunMade

LEMMA RecordRunFits ==
    ASSUME NEW r, RunFits(r), r.phase # "idle"
    PROVE  RunFits(RecordRun(r))
  <1> PICK D : D = DOMAIN r.read
    OBVIOUS
  <1> PICK a : a = RecordRun(r)
    OBVIOUS
  <1>1. /\ D \in SUBSET Bookings
        /\ r \in [phase : {"base", "overtime"}, step : {"next", "send", "record"},
                  todo : SUBSET D, read : [D -> Row], view : [D -> Row],
                  booking : SUBSET D, written : SUBSET D,
                  balance : 0..InitialDebt, debt : Unset..InitialDebt]
    BY RunTaken
  <1>2. 0 \in 0..InitialDebt /\ r.written \cup r.booking \in SUBSET D
    BY <1>1, AmountsTyped
  <1>3. a \in [phase : {"base", "overtime"}, step : {"next", "send", "record"},
               todo : SUBSET D, read : [D -> Row], view : [D -> Row],
               booking : SUBSET D, written : SUBSET D,
               balance : 0..InitialDebt, debt : Unset..InitialDebt]
    BY <1>1, <1>2 DEF RecordRun
  <1>4. a.step = "next"
    BY <1>1 DEF RecordRun
  <1> QED
    BY <1>1, <1>3, <1>4, RunMade

(* The run a is r after its transfer of b, and after a failed one.            *)
Sent(a, r, b, deducts) ==
    /\ a.phase = r.phase /\ a.step = "record" /\ a.todo = r.todo
    /\ a.read = r.read /\ a.booking = r.booking /\ a.balance = r.balance
    /\ a.written = IF r.view[b] # r.read[b] THEN r.written \cup {b} ELSE r.written
    /\ a.debt = IF deducts THEN r.balance - r.view[b].deducted ELSE r.debt
    /\ a.view = [r.view EXCEPT ![b] = IF r.phase = "base"
                                      THEN [@ EXCEPT !.released = TRUE]
                                      ELSE [@ EXCEPT !.overrunReleased = TRUE]]
    /\ a = [r EXCEPT !.step = "record", !.view = a.view, !.written = a.written,
                     !.debt = a.debt]

Unsent(a, r, b) ==
    /\ a.phase = r.phase /\ a.step = "next" /\ a.todo = r.todo
    /\ a.read = r.read /\ a.booking = {} /\ a.balance = 0
    /\ a.written = r.written /\ a.debt = r.debt
    /\ a.view = [r.view EXCEPT ![b] = IF r.phase = "base" THEN r.read[b] ELSE @]
    /\ a = [r EXCEPT !.step = "next", !.booking = {}, !.balance = 0, !.view = a.view]

LEMMA TransferParts ==
    ASSUME RunsTyped, NEW k \in Runners, run[k].phase # "idle", run[k].step = "send", NEW b
    PROVE  /\ Sent(Transferred(k, b), run[k], b, Deducts(k, b))
           /\ Unsent(RolledBack(k, b), run[k], b)
  <1>1. run[k] \in Run
    BY RunParts DEF RunsTyped
  <1>2. Sent(Transferred(k, b), run[k], b, Deducts(k, b))
    BY <1>1 DEF Transferred, Run, Sent
  <1>3. Unsent(RolledBack(k, b), run[k], b)
    BY <1>1 DEF RolledBack, Run, Unsent
  <1> QED
    BY <1>2, <1>3

LEMMA TransferredFits ==
    ASSUME RunsTyped, NEW k \in Runners, run[k].phase # "idle", run[k].step = "send",
           NEW b \in run[k].booking
    PROVE  RunFits(Transferred(k, b)) /\ RunFits(RolledBack(k, b))
  <1> PICK r : r = run[k]
    OBVIOUS
  <1> PICK D : D = DOMAIN r.read
    OBVIOUS
  <1>1. /\ D \in SUBSET Bookings
        /\ r \in [phase : {"base", "overtime"}, step : {"next", "send", "record"},
                  todo : SUBSET D, read : [D -> Row], view : [D -> Row],
                  booking : SUBSET D, written : SUBSET D,
                  balance : 0..InitialDebt, debt : Unset..InitialDebt]
        /\ r.phase = "base" /\ r.step # "next" =>
              \A c \in r.booking : /\ r.view[c].payout \in 0..Scheduled
                                   /\ r.view[c].deducted \in 0..r.balance
    BY RunTaken DEF RunsTyped
  <1>2. b \in D /\ r.view[b] \in Row /\ r.read[b] \in Row
    BY <1>1
  <1>3. RunFits(Transferred(k, b))
    <2> PICK a : a = Transferred(k, b)
      OBVIOUS
    <2>0. Sent(a, r, b, Deducts(k, b))
      BY TransferParts
    <2> PICK x : x = IF r.phase = "base" THEN [r.view[b] EXCEPT !.released = TRUE]
                     ELSE [r.view[b] EXCEPT !.overrunReleased = TRUE]
      OBVIOUS
    <2>1. x \in Row /\ x.payout = r.view[b].payout /\ x.deducted = r.view[b].deducted
      BY <1>2 DEF Row
    <2>2. a.view = [r.view EXCEPT ![b] = x]
      BY <1>1, <1>2, <2>0 DEF Sent
    <2>3. a.view \in [D -> Row]
      BY <1>1, <2>1, <2>2
    <2>4. a.written \in SUBSET D
      BY <1>1, <1>2, <2>0 DEF Sent
    <2>5. a.debt \in Unset..InitialDebt
      <3>1. CASE Deducts(k, b)
        <4>1. r.view[b].deducted \in 0..r.balance /\ a.debt = r.balance - r.view[b].deducted
          BY <1>1, <3>1, <2>0 DEF Sent, Deducts
        <4>2. r.balance \in 0..InitialDebt
          BY <1>1
        <4> QED
          BY <4>1, <4>2, AmountsTyped DEF Unset
      <3>2. CASE ~Deducts(k, b)
        BY <1>1, <3>2, <2>0 DEF Sent
      <3> QED
        BY <3>1, <3>2
    <2>6. a \in [phase : {"base", "overtime"}, step : {"next", "send", "record"},
                 todo : SUBSET D, read : [D -> Row], view : [D -> Row],
                 booking : SUBSET D, written : SUBSET D,
                 balance : 0..InitialDebt, debt : Unset..InitialDebt]
      BY <1>1, <2>3, <2>4, <2>5, <2>0 DEF Sent
    <2>7. a.phase = r.phase /\ a.booking = r.booking /\ a.balance = r.balance
      BY <2>0 DEF Sent
    <2>8. \A c \in D : /\ a.view[c].payout = r.view[c].payout
                       /\ a.view[c].deducted = r.view[c].deducted
      BY <1>1, <2>1, <2>2
    <2>9. a.phase = "base" => \A c \in a.booking : /\ a.view[c].payout \in 0..Scheduled
                                                   /\ a.view[c].deducted \in 0..a.balance
      BY <1>1, <2>7, <2>8
    <2> QED
      BY <1>1, <2>6, <2>9, RunMade
  <1>4. RunFits(RolledBack(k, b))
    <2> PICK a : a = RolledBack(k, b)
      OBVIOUS
    <2>0. Unsent(a, r, b)
      BY TransferParts
    <2>1. a.view \in [D -> Row]
      BY <1>1, <1>2, <2>0 DEF Unsent
    <2>2. 0 \in 0..InitialDebt /\ {} \in SUBSET D
      BY AmountsTyped
    <2>3. a \in [phase : {"base", "overtime"}, step : {"next", "send", "record"},
                 todo : SUBSET D, read : [D -> Row], view : [D -> Row],
                 booking : SUBSET D, written : SUBSET D,
                 balance : 0..InitialDebt, debt : Unset..InitialDebt]
      BY <1>1, <2>1, <2>2, <2>0 DEF Unsent
    <2>4. a.step = "next"
      BY <2>0 DEF Unsent
    <2> QED
      BY <1>1, <2>3, <2>4, RunMade
  <1> QED
    BY <1>3, <1>4

----------------------------------------------------------------------------
(* Type correctness                                                          *)

LEMMA StepRuns ==
    ASSUME TypeInv, NEW k \in Runners, PayoutStep(k)
    PROVE  RunsTyped'
  <1> USE DEF TypeInv
  <1> PICK r : r = run[k]
    OBVIOUS
  <1>0. RunFits(r)
    BY DEF RunsTyped
  <1>1. ASSUME PayoutRead(k) PROVE RunsTyped'
    <2> PICK due : due = {b \in Bookings : Due(row[b])}
      OBVIOUS
    <2>1. due \in SUBSET Bookings
      OBVIOUS
    <2>2. run' = [run EXCEPT ![k] = ReadRun(due)]
      BY <1>1, PayoutReadRun
    <2> QED
      BY <2>1, <2>2, ReadRunFits, RunsUpdated
  <1>2. ASSUME OvertimeRead(k) PROVE RunsTyped'
    <2> PICK due : due = {b \in Bookings : OvertimeDue(row[b])}
      OBVIOUS
    <2>1. due \in SUBSET Bookings
      OBVIOUS
    <2>2. /\ r.phase = "base" /\ r.step = "next"
          /\ run' = [run EXCEPT ![k] = OvertimeRun(r, due)]
      BY <1>2, OvertimeReadRun
    <2> QED
      BY <1>0, <2>1, <2>2, OvertimeRunFits, RunsUpdated
  <1>3. ASSUME NEW b \in Bookings, PassOver(k, b) PROVE RunsTyped'
    <2>1. /\ r.phase = "base" /\ r.step = "next"
          /\ run' = [run EXCEPT ![k] = [r EXCEPT !.todo = @ \ {b}]]
      BY <1>3 DEF PassOver, RunsTyped
    <2> QED
      BY <1>0, <2>1, TodoRunFits, RunsUpdated
  <1>4. ASSUME NEW b \in Bookings, Deduct(k, b) PROVE RunsTyped'
    <2>1. r.phase = "base" /\ r.step = "next" /\ b \in r.todo
      BY <1>4, DeductRuns
    <2> PICK gross \in 0..Scheduled, cut \in 0..Balance(k) :
          /\ cut <= gross
          /\ run' = [run EXCEPT ![k] = DeductRun(r, b, Withheld(r.view[b], gross, cut), Balance(k))]
      BY <1>4, DeductRuns
    <2>2. Balance(k) \in 0..InitialDebt
      BY <2>1, BalanceFits
    <2> QED
      BY <1>0, <2>1, <2>2, DeductRunFits, RunsUpdated
  <1>5. ASSUME NEW b \in Bookings, TakeOvertime(k, b) PROVE RunsTyped'
    <2>1. /\ r.phase = "overtime" /\ b \in r.todo
          /\ run' = [run EXCEPT ![k] = [r EXCEPT !.todo = @ \ {b}, !.booking = {b},
                                                 !.step = "send"]]
      BY <1>5 DEF TakeOvertime, RunsTyped
    <2> QED
      BY <1>0, <2>1, TakeRunFits, RunsUpdated
  <1>6. ASSUME NEW b \in Bookings, Transfer(k, b) PROVE RunsTyped'
    <2>1. r.phase # "idle" /\ r.step = "send" /\ b \in r.booking
      BY <1>6, TransferRuns
    <2>2. \/ run' = [run EXCEPT ![k] = Transferred(k, b)]
          \/ run' = [run EXCEPT ![k] = RolledBack(k, b)]
      BY <1>6, TransferRuns
    <2> QED
      BY <2>1, <2>2, TransferredFits, RunsUpdated
  <1>7. ASSUME Record(k) PROVE RunsTyped'
    <2>1. r.phase # "idle" /\ run' = [run EXCEPT ![k] = RecordRun(r)]
      BY <1>7, RecordRuns
    <2> QED
      BY <1>0, <2>1, RecordRunFits, RunsUpdated
  <1>8. ASSUME PayoutCommit(k) PROVE RunsTyped'
    BY <1>8, NoRunFits, RunsUpdated DEF PayoutCommit
  <1> QED
    BY <1>1, <1>2, <1>3, <1>4, <1>5, <1>6, <1>7, <1>8 DEF PayoutStep

LEMMA CommitRows ==
    ASSUME TypeInv, NEW h \in Handlers, Commit(h)
    PROVE  RowsTyped'
  <1> PICK s : s = sess[h]
    OBVIOUS
  <1> PICK b : b = s.booking
    OBVIOUS
  <1> PICK y : y = Flush(s.seen, s.new, s.stamped, row[b])
    OBVIOUS
  <1>1. s.phase = "write" /\ row' = [row EXCEPT ![b] = Flush(s.seen, s.new, s.stamped, @)]
    BY DEF Commit
  <1>2. b \in Bookings /\ s.seen \in Row /\ s.new \in Row /\ s.keep \in Amount /\ row[b] \in Row
    BY <1>1, SessionParts DEF TypeInv, SessionsTyped, RowsTyped
  <1>3. y \in Row
    BY <1>2, FlushFits
  <1>4. row' \in [Bookings -> Row]
    BY <1>1, <1>3 DEF TypeInv, RowsTyped
  <1>5. keeps' = [keeps EXCEPT ![b] = IF s.keep # Unset /\ b \in Requested THEN s.keep ELSE @]
    BY DEF Commit
  <1>6. s.keep # Unset => s.keep \in 0..Scheduled
    BY <1>2, AmountsTyped DEF Amount, Unset
  <1>7. keeps' \in [Bookings -> 0..Scheduled]
    BY <1>5, <1>6 DEF TypeInv, RowsTyped
  <1> QED
    BY <1>4, <1>7 DEF RowsTyped

LEMMA OutsideRows ==
    ASSUME TypeInv, NEW b \in Bookings, HoldElapses(b) \/ \E held \in BOOLEAN : QueryHold(b, held)
    PROVE  RowsTyped'
  <1>1. row[b] \in Row /\ UNCHANGED keeps
    BY DEF TypeInv, RowsTyped, HoldElapses, QueryHold
  <1>2. CASE HoldElapses(b)
    <2> PICK s, t : /\ s = IF row[b].hold = "running" THEN "elapsed" ELSE row[b].hold
                    /\ t = IF row[b].overrunHold = "running" THEN "elapsed"
                           ELSE row[b].overrunHold
      OBVIOUS
    <2>1. row' = [row EXCEPT ![b] = [row[b] EXCEPT !.hold = s, !.overrunHold = t]]
      BY <1>1, <1>2 DEF HoldElapses, TypeInv, RowsTyped, Row
    <2>2. s \in Hold /\ t \in Hold
      BY <1>1 DEF Row, Hold
    <2>3. [row[b] EXCEPT !.hold = s, !.overrunHold = t] \in Row
      BY ZenonT(30), <1>1, <2>2 DEF Row
    <2> QED
      BY <1>1, <2>1, <2>3 DEF TypeInv, RowsTyped
  <1>3. CASE \E held \in BOOLEAN : QueryHold(b, held)
    <2> PICK held \in BOOLEAN : row' = [row EXCEPT ![b].queryHold = held]
      BY <1>3 DEF QueryHold
    <2>1. [row[b] EXCEPT !.queryHold = held] \in Row
      BY <1>1 DEF Row
    <2> QED
      BY <1>1, <2>1 DEF TypeInv, RowsTyped
  <1> QED
    BY <1>2, <1>3

LEMMA PayoutRows ==
    ASSUME TypeInv, NEW k \in Runners, PayoutCommit(k)
    PROVE  RowsTyped' /\ DebtTyped'
  <1> PICK r : r = run[k]
    OBVIOUS
  <1>1. r.phase = "overtime" /\ UNCHANGED keeps /\ debt' = Balance(k)
    BY DEF PayoutCommit
  <1>2. /\ r.read \in [DOMAIN r.read -> Row] /\ r.view \in [DOMAIN r.read -> Row]
        /\ r.written \subseteq DOMAIN r.read
    BY <1>1, RunParts DEF TypeInv, RunsTyped
  <1>3. row' = [b \in Bookings |-> IF b \in r.written
                                   THEN Flush(r.read[b], r.view[b], {}, row[b]) ELSE row[b]]
    BY DEF PayoutCommit
  <1>4. \A b \in Bookings : row[b] \in Row
    BY DEF TypeInv, RowsTyped
  <1>5. ASSUME NEW b \in Bookings, b \in r.written
        PROVE  Flush(r.read[b], r.view[b], {}, row[b]) \in Row
    <2>1. r.read[b] \in Row /\ r.view[b] \in Row
      BY <1>2, <1>5
    <2> QED
      BY <1>4, <2>1, FlushFits
  <1>6. row' \in [Bookings -> Row]
    BY <1>3, <1>4, <1>5
  <1>7. Balance(k) \in 0..InitialDebt
    BY <1>1, BalanceFits
  <1> QED
    BY <1>1, <1>6, <1>7 DEF TypeInv, RowsTyped, DebtTyped

LEMMA TypeInit == Init => TypeInv
  <1> SUFFICES ASSUME Init PROVE TypeInv
    OBVIOUS
  <1>1. ASSUME NEW b \in Bookings PROVE NewRow(b) \in Row
    BY AmountsTyped DEF NewRow, Row, Hold, Amount, Unset
  <1>2. RowsTyped
    BY <1>1, AmountsTyped DEF Init, RowsTyped
  <1>3. DebtTyped
    BY AmountsTyped DEF Init, DebtTyped
  <1>4. LedgerTyped
    <2> PICK l : l = [charges |-> 0, refunds |-> 0, refunded |-> 0,
                      transfers |-> 0, sent |-> 0, overtimes |-> 0]
      OBVIOUS
    <2>1. 0 \in 0..MaxCalls /\ 0 \in 0..(MaxCalls * Scheduled) /\ 0 <= 0 * Scheduled
      BY AmountsTyped
    <2>2. LedgerFits(l)
      BY <2>1 DEF LedgerFits, Ledger
    <2>3. ledger = [b \in Bookings |-> l]
      BY DEF Init
    <2> QED
      BY <2>2, <2>3 DEF LedgerTyped, LedgerFits
  <1>5. SessionsTyped /\ RunsTyped
    BY IdleFits, NoRunFits DEF Init, SessionsTyped, RunsTyped
  <1> QED
    BY <1>2, <1>3, <1>4, <1>5 DEF TypeInv

LEMMA TypeNext == TypeInv /\ [Next]_vars => TypeInv'
  <1> SUFFICES ASSUME TypeInv, [Next]_vars PROVE TypeInv'
    OBVIOUS
  <1>0. /\ UNCHANGED <<row, keeps>> => RowsTyped'
        /\ UNCHANGED debt => DebtTyped'
        /\ UNCHANGED ledger => LedgerTyped'
        /\ UNCHANGED sess => SessionsTyped'
        /\ UNCHANGED run => RunsTyped'
    BY DEF TypeInv, RowsTyped, DebtTyped, LedgerTyped, SessionsTyped, RunsTyped
  <1>1. ASSUME NEW h \in Handlers, Serve(h) \/ \E b \in Bookings : Receive(h, b)
        PROVE  TypeInv'
    <2>1. SessionsTyped'
      BY <1>1, ServeSessions
    <2>2. UNCHANGED <<debt, run>>
      BY <1>1 DEF Serve, Refund, ChargeOvertime, Commit, Receive
    <2>3. LedgerTyped'
      BY <1>0, <1>1, RefundLedger, ChargeLedger DEF Serve, Commit, Receive
    <2>4. RowsTyped'
      BY <1>0, <1>1, CommitRows DEF Serve, Refund, ChargeOvertime, Receive
    <2> QED
      BY <1>0, <2>1, <2>2, <2>3, <2>4 DEF TypeInv
  <1>2. ASSUME NEW k \in Runners, PayoutStep(k) PROVE TypeInv'
    <2>1. RunsTyped'
      BY <1>2, StepRuns
    <2>2. UNCHANGED sess
      BY <1>2 DEF PayoutStep, PayoutRead, OvertimeRead, Record, PayoutCommit, PassOver,
                  Deduct, TakeOvertime, Transfer
    <2>3. LedgerTyped'
      BY <1>0, <1>2, TransferLedger
         DEF PayoutStep, PayoutRead, OvertimeRead, Record, PayoutCommit, PassOver, Deduct,
             TakeOvertime
    <2>4. RowsTyped' /\ DebtTyped'
      BY ZenonT(30), <1>0, <1>2, PayoutRows
         DEF PayoutStep, PayoutRead, OvertimeRead, Record, PassOver, Deduct, TakeOvertime,
             Transfer
    <2> QED
      BY <1>0, <2>1, <2>2, <2>3, <2>4 DEF TypeInv
  <1>3. ASSUME NEW b \in Bookings, HoldElapses(b) \/ \E held \in BOOLEAN : QueryHold(b, held)
        PROVE  TypeInv'
    <2>1. UNCHANGED <<debt, ledger, sess, run>>
      BY <1>3 DEF HoldElapses, QueryHold
    <2> QED
      BY <1>0, <1>3, <2>1, OutsideRows DEF TypeInv
  <1>4. ASSUME NEW w \in Crashing, Crash(w) PROVE TypeInv'
    <2>1. UNCHANGED <<row, keeps, debt, ledger>>
      BY <1>4 DEF Crash
    <2>2. SessionsTyped' /\ RunsTyped'
      BY <1>0, <1>4, IdleFits, NoRunFits, SessionsUpdated, RunsUpdated DEF Crash, TypeInv
    <2> QED
      BY <1>0, <2>1, <2>2 DEF TypeInv
  <1>5. CASE UNCHANGED vars
    BY <1>0, <1>5 DEF TypeInv, vars
  <1> QED
    BY <1>1, <1>2, <1>3, <1>4, <1>5 DEF Next, Environment

(* Every part of the state has its type in every state, and what Paystack     *)
(* has refunded or sent for a booking stays within the price of each call:    *)
(* the invariant behind TypeCorrect.                                          *)
THEOREM TypeInvariance == Spec => []TypeInv
  BY TypeInit, TypeNext, PTL DEF Spec

(* The rows, the ledger, the sessions, the runs and the debt keep their       *)
(* types: the amounts of recalculate_actual_hours and of the deduction stay   *)
(* within the price, and Nanny.pending_demerit_balance never grows nor falls  *)
(* below zero.                                                                *)
THEOREM TypeCorrect == Spec => []TypeOK
  <1>1. TypeInv => TypeOK
    BY SessionParts, RunParts
       DEF TypeInv, TypeOK, RowsTyped, DebtTyped, LedgerTyped, LedgerFits, SessionsTyped,
           SessionFits, RunsTyped, RunFits
  <1> QED
    BY <1>1, TypeInvariance, PTL

----------------------------------------------------------------------------
(* What a run changes                                                        *)

RunColumns == {"payout", "deducted", "released", "overrunReleased"}

(* Bookings whose transfer the run has noted, and those it may still pay.    *)
TakenBy(r) == r.written \cup (IF r.step = "record" THEN r.booking ELSE {})
OpenTo(r) == r.todo \cup (IF r.step = "send" THEN r.booking ELSE {})

(* The copy y of a row read as x keeps what handlers wrote, and its marks.    *)
CopyKept(x, y) ==
    /\ \A c \in Columns \ RunColumns : y[c] = x[c]
    /\ (x.released => y.released) /\ (x.overrunReleased => y.overrunReleased)

SameMarks(x, y) == y.released = x.released /\ y.overrunReleased = x.overrunReleased

SameAmounts(x, y) == y.payout = x.payout /\ y.deducted = x.deducted

(* Wages in hand: deducted from, and not transferred.                         *)
InHand(r) == IF r.phase = "base" /\ r.step = "send" THEN r.booking ELSE {}

RunKept(r) ==
    r.phase # "idle" =>
        /\ \A b \in DOMAIN r.read :
              /\ CopyKept(r.read[b], r.view[b])
              /\ b \notin TakenBy(r) => SameMarks(r.read[b], r.view[b])
              /\ b \notin InHand(r) /\ r.view[b].released = r.read[b].released =>
                    SameAmounts(r.read[b], r.view[b])
        /\ r.todo \cap r.booking = {} /\ (r.step = "next" => r.booking = {})
        /\ \A b, c \in r.booking : b = c
        /\ r.phase = "base" =>
              /\ \A b \in DOMAIN r.read : r.view[b].overrunReleased = r.read[b].overrunReleased
              /\ \A b \in r.todo \cup r.booking : ~r.read[b].released
              /\ OpenTo(r) \cap r.written = {}
        /\ r.phase = "overtime" =>
              \A b \in OpenTo(r) : ~r.view[b].overrunReleased

RunsKept == \A k \in Runners : RunKept(run[k])

(* Marks that a run has read are still there.                                *)
ReadStill(r) ==
    r.phase # "idle" =>
        \A b \in DOMAIN r.read : /\ r.read[b].released => row[b].released
                                 /\ r.read[b].overrunReleased => row[b].overrunReleased

RunsStill == \A k \in Runners : ReadStill(run[k])

LEMMA ColumnNames ==
    Columns = {"status", "checkIn", "checkOut", "inConfirmed", "outConfirmed", "payout",
               "deducted", "refundRef", "overrun", "overrunAmount", "overrunDisputed",
               "overrunHold", "overrunReleased", "hold", "released", "disputed", "queryHold",
               "parentNoShow"}
  BY DEF Columns, NewRow

LEMMA CopySame == \A x : CopyKept(x, x) /\ SameMarks(x, x) /\ SameAmounts(x, x)
  BY DEF CopyKept, SameMarks, SameAmounts

LEMMA ReadRunKept ==
    ASSUME RowsTyped, NEW due, due = {b \in Bookings : Due(row[b])}
    PROVE  RunKept(ReadRun(due))
  BY CopySame DEF RunKept, ReadRun, OpenTo, Due, InHand

LEMMA OvertimeRunKept ==
    ASSUME TypeInv, NEW r, RunFits(r), RunKept(r), ReadStill(r), r.phase = "base",
           r.step = "next", r.todo = {},
           NEW due, due = {b \in Bookings : OvertimeDue(row[b])}
    PROVE  RunKept(OvertimeRun(r, due))
  <1> PICK a : a = OvertimeRun(r, due)
    OBVIOUS
  <1>1. /\ a.phase = "overtime" /\ a.step = "next" /\ a.todo = due /\ a.booking = r.booking
        /\ a.written = r.written /\ a.read = Known(r.read, due) /\ a.view = Known(r.view, due)
    BY RunParts DEF OvertimeRun, Run
  <1>2. r.booking = {} /\ DOMAIN r.view = DOMAIN r.read
    BY RunParts DEF RunKept
  <1>3. TakenBy(a) = TakenBy(r) /\ OpenTo(a) = due /\ InHand(a) = {} /\ InHand(r) = {}
    BY <1>1, <1>2 DEF TakenBy, OpenTo, InHand
  <1>4. ASSUME NEW b \in DOMAIN a.read
        PROVE  /\ CopyKept(a.read[b], a.view[b])
               /\ b \notin TakenBy(a) => SameMarks(a.read[b], a.view[b])
               /\ b \notin InHand(a) /\ a.view[b].released = a.read[b].released =>
                     SameAmounts(a.read[b], a.view[b])
    <2>1. CASE b \in DOMAIN r.read
      BY <1>1, <1>2, <1>3, <2>1 DEF Known, RunKept
    <2>2. CASE b \notin DOMAIN r.read
      BY <1>1, <1>2, <2>2, CopySame DEF Known
    <2> QED
      BY <2>1, <2>2
  <1>5. ASSUME NEW b \in due PROVE ~a.view[b].overrunReleased
    <2>1. ~row[b].overrunReleased
      BY DEF OvertimeDue
    <2>2. CASE b \in DOMAIN r.read
      BY <1>1, <1>2, <2>1, <2>2 DEF Known, RunKept, ReadStill
    <2>3. CASE b \notin DOMAIN r.read
      BY <1>1, <1>2, <2>1, <2>3 DEF Known
    <2> QED
      BY <2>2, <2>3
  <1> QED
    BY <1>1, <1>2, <1>3, <1>4, <1>5 DEF RunKept

LEMMA TodoRunKept ==
    ASSUME NEW r, RunFits(r), RunKept(r), r.phase # "idle", r.step = "next", NEW b
    PROVE  RunKept([r EXCEPT !.todo = @ \ {b}])
  <1> PICK a : a = [r EXCEPT !.todo = @ \ {b}]
    OBVIOUS
  <1>1. /\ a.phase = r.phase /\ a.step = r.step /\ a.todo = r.todo \ {b}
        /\ a.booking = r.booking /\ a.written = r.written /\ a.read = r.read
        /\ a.view = r.view
    BY RunParts DEF Run
  <1> QED
    BY <1>1 DEF RunKept, TakenBy, OpenTo, InHand

LEMMA TakeRunKept ==
    ASSUME NEW r, RunFits(r), RunKept(r), r.phase = "overtime", r.step = "next",
           NEW b \in r.todo
    PROVE  RunKept([r EXCEPT !.todo = @ \ {b}, !.booking = {b}, !.step = "send"])
  <1> PICK a : a = [r EXCEPT !.todo = @ \ {b}, !.booking = {b}, !.step = "send"]
    OBVIOUS
  <1>1. /\ a.phase = r.phase /\ a.step = "send" /\ a.todo = r.todo \ {b}
        /\ a.booking = {b} /\ a.written = r.written /\ a.read = r.read
        /\ a.view = r.view
    BY RunParts DEF Run
  <1>2. TakenBy(a) = TakenBy(r) /\ OpenTo(a) \subseteq OpenTo(r) /\ InHand(a) = InHand(r)
    BY <1>1 DEF TakenBy, OpenTo, InHand
  <1> QED
    BY <1>1, <1>2 DEF RunKept

LEMMA DeductRunKept ==
    ASSUME NEW r, RunFits(r), RunKept(r), r.phase = "base", r.step = "next",
           NEW b \in r.todo, NEW gross, NEW cut, NEW balance
    PROVE  RunKept(DeductRun(r, b, Withheld(r.view[b], gross, cut), balance))
  <1> PICK x : x = Withheld(r.view[b], gross, cut)
    OBVIOUS
  <1> PICK a : a = DeductRun(r, b, x, balance)
    OBVIOUS
  <1>0. r.view[b] \in Row /\ b \in DOMAIN r.view /\ DOMAIN r.view = DOMAIN r.read
    BY RunParts
  <1>1. /\ a.phase = "base" /\ a.step = "send" /\ a.todo = r.todo \ {b}
        /\ a.booking = {b} /\ a.written = r.written /\ a.read = r.read
        /\ a.view = [r.view EXCEPT ![b] = x]
    BY RunParts DEF DeductRun, Run
  <1>2. \A c \in Columns \ {"payout", "deducted"} : x[c] = r.view[b][c]
    BY <1>0, RowColumns DEF Withheld
  <1>3. /\ TakenBy(a) = TakenBy(r) /\ OpenTo(a) \subseteq OpenTo(r) /\ b \notin TakenBy(r)
        /\ InHand(a) = {b} /\ InHand(r) = {}
    BY <1>1 DEF TakenBy, OpenTo, InHand, RunKept
  <1>4. CopyKept(r.read[b], r.view[b]) /\ SameMarks(r.read[b], r.view[b])
    BY <1>0, <1>3 DEF RunKept
  <1>5. /\ \A c \in Columns \ RunColumns : x[c] = r.view[b][c]
        /\ x.released = r.view[b].released /\ x.overrunReleased = r.view[b].overrunReleased
    BY <1>2, ColumnNames DEF RunColumns
  <1>6. CopyKept(r.read[b], x) /\ SameMarks(r.read[b], x)
    BY <1>4, <1>5 DEF CopyKept, SameMarks
  <1>7. ASSUME NEW c \in DOMAIN a.read
        PROVE  /\ CopyKept(a.read[c], a.view[c])
               /\ c \notin TakenBy(a) => SameMarks(a.read[c], a.view[c])
               /\ c \notin InHand(a) /\ a.view[c].released = a.read[c].released =>
                     SameAmounts(a.read[c], a.view[c])
    <2>1. CASE c = b
      BY <1>0, <1>1, <1>3, <1>6, <2>1
    <2>2. CASE c # b
      BY <1>0, <1>1, <1>3, <2>2 DEF RunKept
    <2> QED
      BY <2>1, <2>2
  <1>8. \A c \in DOMAIN a.read : a.view[c].overrunReleased = a.read[c].overrunReleased
    BY <1>0, <1>1, <1>5 DEF RunKept
  <1> QED
    BY <1>1, <1>3, <1>7, <1>8 DEF RunKept

LEMMA SentRunKept ==
    ASSUME NEW r, RunFits(r), RunKept(r), r.phase # "idle", r.step = "send",
           NEW b \in r.booking, NEW a, NEW deducts, Sent(a, r, b, deducts)
    PROVE  RunKept(a)
  <1> PICK x : x = IF r.phase = "base" THEN [r.view[b] EXCEPT !.released = TRUE]
                   ELSE [r.view[b] EXCEPT !.overrunReleased = TRUE]
    OBVIOUS
  <1>0. /\ r.view[b] \in Row /\ b \in DOMAIN r.view /\ DOMAIN r.view = DOMAIN r.read
        /\ r.phase \in {"base", "overtime"}
    BY RunParts
  <1>1. /\ a.phase = r.phase /\ a.step = "record" /\ a.todo = r.todo
        /\ a.booking = r.booking /\ a.read = r.read
        /\ a.view = [r.view EXCEPT ![b] = x]
        /\ a.written \in {r.written, r.written \cup {b}}
    BY <1>0 DEF Sent
  <1>2. /\ \A c \in Columns \ RunColumns : x[c] = r.view[b][c]
        /\ x.payout = r.view[b].payout /\ x.deducted = r.view[b].deducted
        /\ r.phase = "base" => x.released /\ x.overrunReleased = r.view[b].overrunReleased
        /\ r.phase # "base" => x.overrunReleased /\ x.released = r.view[b].released
    BY <1>0, RowColumns, ColumnNames DEF RunColumns
  <1>3. /\ TakenBy(a) = r.written \cup r.booking /\ OpenTo(a) = r.todo /\ TakenBy(r) = r.written
        /\ InHand(a) = {} /\ OpenTo(r) = r.todo \cup r.booking
    BY <1>1 DEF TakenBy, OpenTo, InHand
  <1>4. CopyKept(r.read[b], r.view[b])
    BY <1>0 DEF RunKept
  <1>5. CopyKept(r.read[b], x)
    BY <1>2, <1>4 DEF CopyKept
  <1>6. x.released = r.read[b].released => SameAmounts(r.read[b], x)
    <2>1. CASE r.phase = "base"
      BY <1>2, <2>1 DEF RunKept
    <2>2. CASE r.phase # "base"
      <3>1. b \notin InHand(r)
        BY <2>2 DEF InHand
      <3> QED
        BY <1>0, <1>2, <2>2, <3>1 DEF RunKept, SameAmounts
    <2> QED
      BY <2>1, <2>2
  <1>7. ASSUME NEW c \in DOMAIN a.read
        PROVE  /\ CopyKept(a.read[c], a.view[c])
               /\ c \notin TakenBy(a) => SameMarks(a.read[c], a.view[c])
               /\ c \notin InHand(a) /\ a.view[c].released = a.read[c].released =>
                     SameAmounts(a.read[c], a.view[c])
               /\ a.phase = "base" => a.view[c].overrunReleased = a.read[c].overrunReleased
    <2>1. CASE c = b
      <3>1. a.view[c] = x /\ a.read[c] = r.read[b] /\ c \in TakenBy(a)
        BY <1>0, <1>1, <1>3, <2>1
      <3>2. a.phase = "base" => x.overrunReleased = r.read[b].overrunReleased
        BY <1>0, <1>1, <1>2 DEF RunKept
      <3> QED
        BY <1>5, <1>6, <3>1, <3>2
    <2>2. CASE c # b
      <3>1. c \in TakenBy(r) => c \in TakenBy(a)
        BY <1>3
      <3>2. c \notin InHand(r)
        BY <2>2 DEF InHand, RunKept
      <3>3. a.view[c] = r.view[c] /\ a.read[c] = r.read[c] /\ c \in DOMAIN r.read
        BY <1>0, <1>1, <2>2
      <3> QED
        BY <1>1, <3>1, <3>2, <3>3 DEF RunKept
    <2> QED
      BY <2>1, <2>2
  <1>8. OpenTo(a) \cap a.written = {} \/ a.phase # "base"
    BY <1>1, <1>3 DEF RunKept
  <1>9. a.phase = "overtime" => \A c \in OpenTo(a) : ~a.view[c].overrunReleased
    <2>1. r.todo \subseteq DOMAIN r.view /\ b \notin r.todo
      BY <1>0, RunParts DEF RunKept
    <2> QED
      BY <1>1, <1>3, <2>1 DEF RunKept
  <1> QED
    BY <1>1, <1>3, <1>7, <1>8, <1>9 DEF RunKept

LEMMA UnsentRunKept ==
    ASSUME NEW r, RunFits(r), RunKept(r), r.phase # "idle", r.step = "send",
           NEW b \in r.booking, NEW a, Unsent(a, r, b)
    PROVE  RunKept(a)
  <1>0. /\ b \in DOMAIN r.view /\ DOMAIN r.view = DOMAIN r.read
        /\ r.phase \in {"base", "overtime"}
    BY RunParts
  <1>1. /\ a.phase = r.phase /\ a.step = "next" /\ a.todo = r.todo
        /\ a.booking = {} /\ a.read = r.read /\ a.written = r.written
        /\ a.view = [r.view EXCEPT ![b] = IF r.phase = "base" THEN r.read[b] ELSE @]
    BY DEF Unsent
  <1>2. /\ TakenBy(a) = r.written /\ OpenTo(a) = r.todo /\ TakenBy(r) = r.written
        /\ InHand(a) = {} /\ OpenTo(r) = r.todo \cup r.booking
    BY <1>1 DEF TakenBy, OpenTo, InHand
  <1>3. ASSUME NEW c \in DOMAIN a.read
        PROVE  /\ CopyKept(a.read[c], a.view[c])
               /\ c \notin TakenBy(a) => SameMarks(a.read[c], a.view[c])
               /\ a.view[c].released = a.read[c].released => SameAmounts(a.read[c], a.view[c])
               /\ a.phase = "base" => a.view[c].overrunReleased = a.read[c].overrunReleased
    <2>1. CASE c = b /\ r.phase = "base"
      <3>1. a.view[c] = a.read[c]
        BY <1>0, <1>1, <2>1
      <3> QED
        BY <3>1, CopySame
    <2>2. CASE c # b \/ r.phase # "base"
      <3>1. a.view[c] = r.view[c] /\ a.read[c] = r.read[c] /\ c \in DOMAIN r.read
        BY <1>0, <1>1, <2>2
      <3>2. c \notin InHand(r)
        BY <2>2 DEF InHand, RunKept
      <3> QED
        BY <1>1, <1>2, <3>1, <3>2 DEF RunKept
    <2> QED
      BY <2>1, <2>2
  <1>4. a.phase = "overtime" => \A c \in OpenTo(a) : ~a.view[c].overrunReleased
    BY <1>0, <1>1, <1>2 DEF RunKept
  <1>5. a.phase = "base" => /\ \A c \in a.todo \cup a.booking : ~a.read[c].released
                            /\ OpenTo(a) \cap a.written = {}
    BY <1>1, <1>2 DEF RunKept
  <1> QED
    BY <1>1, <1>2, <1>3, <1>4, <1>5 DEF RunKept

LEMMA RecordRunKept ==
    ASSUME NEW r, RunFits(r), RunKept(r), r.phase # "idle", r.step = "record"
    PROVE  RunKept(RecordRun(r))
  <1> PICK a : a = RecordRun(r)
    OBVIOUS
  <1>1. /\ a.phase = r.phase /\ a.step = "next" /\ a.todo = r.todo
        /\ a.booking = {} /\ a.read = r.read /\ a.view = r.view
        /\ a.written = r.written \cup r.booking
    BY RunParts DEF RecordRun, Run
  <1>2. /\ TakenBy(a) = TakenBy(r) /\ OpenTo(a) = OpenTo(r) /\ OpenTo(r) = r.todo
        /\ InHand(a) = {} /\ InHand(r) = {}
    BY <1>1 DEF TakenBy, OpenTo, InHand
  <1>3. a.phase = "base" => OpenTo(a) \cap a.written = {}
    BY <1>1, <1>2 DEF RunKept
  <1> QED
    BY <1>1, <1>2, <1>3 DEF RunKept

(* A step of a run keeps what it read, and its marks only grow.               *)
LEMMA StepRunKept ==
    ASSUME TypeInv, RunsKept, RunsStill, NEW k \in Runners, PayoutStep(k)
    PROVE  RunKept(run'[k])
  <1> PICK r : r = run[k]
    OBVIOUS
  <1>0. RunFits(r) /\ RunKept(r) /\ ReadStill(r) /\ DOMAIN run = Runners
    BY DEF TypeInv, RunsTyped, RunsKept, RunsStill
  <1>1. ASSUME PayoutRead(k) PROVE RunKept(run'[k])
    <2> PICK due : due = {b \in Bookings : Due(row[b])}
      OBVIOUS
    <2>1. run'[k] = ReadRun(due)
      BY <1>0, <1>1, PayoutReadRun
    <2> QED
      BY <2>1, ReadRunKept DEF TypeInv
  <1>2. ASSUME OvertimeRead(k) PROVE RunKept(run'[k])
    <2> PICK due : due = {b \in Bookings : OvertimeDue(row[b])}
      OBVIOUS
    <2>1. /\ r.phase = "base" /\ r.step = "next" /\ r.todo = {}
          /\ run'[k] = OvertimeRun(r, due)
      BY <1>0, <1>2, OvertimeReadRun DEF TypeInv
    <2> QED
      BY <1>0, <2>1, OvertimeRunKept
  <1>3. ASSUME NEW b \in Bookings, PassOver(k, b) PROVE RunKept(run'[k])
    <2>1. /\ r.phase # "idle" /\ r.step = "next"
          /\ run'[k] = [r EXCEPT !.todo = @ \ {b}]
      BY <1>0, <1>3 DEF PassOver
    <2> QED
      BY <1>0, <2>1, TodoRunKept
  <1>4. ASSUME NEW b \in Bookings, Deduct(k, b) PROVE RunKept(run'[k])
    <2>1. r.phase = "base" /\ r.step = "next" /\ b \in r.todo
      BY <1>4, DeductRuns
    <2> PICK gross, cut :
          run' = [run EXCEPT ![k] = DeductRun(r, b, Withheld(r.view[b], gross, cut), Balance(k))]
      BY <1>4, DeductRuns
    <2> QED
      BY <1>0, <2>1, DeductRunKept
  <1>5. ASSUME NEW b \in Bookings, TakeOvertime(k, b) PROVE RunKept(run'[k])
    <2>1. /\ r.phase = "overtime" /\ r.step = "next" /\ b \in r.todo
          /\ run'[k] = [r EXCEPT !.todo = @ \ {b}, !.booking = {b}, !.step = "send"]
      BY <1>0, <1>5 DEF TakeOvertime
    <2>2. RunKept([r EXCEPT !.todo = @ \ {b}, !.booking = {b}, !.step = "send"])
      BY <1>0, <2>1, TakeRunKept
    <2> QED
      BY <2>1, <2>2
  <1>6. ASSUME NEW b \in Bookings, Transfer(k, b) PROVE RunKept(run'[k])
    <2>1. r.phase # "idle" /\ r.step = "send" /\ b \in r.booking
      BY <1>6, TransferRuns
    <2> PICK o \in Outcomes :
          run' = [run EXCEPT ![k] = IF Succeeded(o) THEN Transferred(k, b) ELSE RolledBack(k, b)]
      BY <1>6, TransferRuns
    <2>2. run'[k] = Transferred(k, b) \/ run'[k] = RolledBack(k, b)
      BY <1>0
    <2>3. Sent(Transferred(k, b), r, b, Deducts(k, b)) /\ Unsent(RolledBack(k, b), r, b)
      BY <2>1, TransferParts DEF TypeInv
    <2> QED
      BY <1>0, <2>1, <2>2, <2>3, SentRunKept, UnsentRunKept
  <1>7. ASSUME Record(k) PROVE RunKept(run'[k])
    <2>1. r.phase # "idle" /\ r.step = "record" /\ run'[k] = RecordRun(r)
      BY <1>0, <1>7, RecordRuns DEF TypeInv
    <2> QED
      BY <1>0, <2>1, RecordRunKept
  <1>8. ASSUME PayoutCommit(k) PROVE RunKept(run'[k])
    BY <1>0, <1>8 DEF PayoutCommit, RunKept, NoRun
  <1> QED
    BY <1>1, <1>2, <1>3, <1>4, <1>5, <1>6, <1>7, <1>8 DEF PayoutStep

----------------------------------------------------------------------------
(* What a step changes of a row                                              *)

LEMMA FlushColumn ==
    ASSUME NEW read \in Row, NEW new \in Row, NEW stamped, NEW db \in Row, NEW c \in Columns
    PROVE  Flush(read, new, stamped, db)[c] =
              IF new[c] = read[c] /\ c \notin stamped THEN db[c] ELSE new[c]
  BY RowColumns DEF Flush

(* Whom a step may belong to.                                                 *)
LEMMA Steps ==
    ASSUME [Next]_vars
    PROVE  \/ \E h \in Handlers : Serve(h) \/ \E b \in Bookings : Receive(h, b)
           \/ \E k \in Runners : PayoutStep(k)
           \/ \E b \in Bookings : HoldElapses(b) \/ \E held \in BOOLEAN : QueryHold(b, held)
           \/ \E w \in Crashing : Crash(w)
           \/ UNCHANGED vars
  BY DEF Next, Environment

Recorded(x, y) == \A c \in RunColumns \ {"payout"} : y[c] = x[c]

(* y is x after the flush of a run's copies.                                  *)
PaidOff(x, y) ==
    /\ \A c \in Columns \ RunColumns : y[c] = x[c]
    /\ (x.released => y.released) /\ (x.overrunReleased => y.overrunReleased)
    /\ y.payout = x.payout \/ y.released

LEMMA CommitRecords ==
    ASSUME TypeInv, NEW h \in Handlers, Commit(h), NEW b \in Bookings
    PROVE  Recorded(row[b], row'[b])
  <1> PICK s : s = sess[h]
    OBVIOUS
  <1>1. s.phase = "write" /\ row' = [row EXCEPT ![s.booking] = Flush(s.seen, s.new, s.stamped, @)]
    BY DEF Commit
  <1>2. /\ s.seen \in Row /\ s.new \in Row /\ s.stamped \subseteq Stamps
        /\ \A c \in Apart : s.new[c] = s.seen[c]
    BY <1>1, SessionParts DEF TypeInv, SessionsTyped
  <1>3. DOMAIN row = Bookings /\ row[b] \in Row
    BY DEF TypeInv, RowsTyped
  <1>4. CASE b # s.booking
    BY <1>1, <1>3, <1>4 DEF Recorded
  <1>5. CASE b = s.booking
    <2>1. row'[b] = Flush(s.seen, s.new, s.stamped, row[b])
      BY <1>1, <1>3, <1>5
    <2>2. \A c \in RunColumns \ {"payout"} : c \in Columns /\ c \in Apart /\ c \notin Stamps
      BY ColumnNames DEF RunColumns, Apart, Stamps
    <2> QED
      BY <1>2, <1>3, <2>1, <2>2, FlushColumn DEF Recorded
  <1> QED
    BY <1>4, <1>5

LEMMA PayoutPaysOff ==
    ASSUME TypeInv, RunsKept, NEW k \in Runners, PayoutCommit(k), NEW b \in Bookings
    PROVE  PaidOff(row[b], row'[b])
  <1> PICK r : r = run[k]
    OBVIOUS
  <1>1. /\ r.phase = "overtime" /\ r.step = "next"
        /\ row'[b] = IF b \in r.written THEN Flush(r.read[b], r.view[b], {}, row[b]) ELSE row[b]
    BY DEF PayoutCommit
  <1>2. CASE b \notin r.written
    BY <1>1, <1>2 DEF PaidOff
  <1>3. CASE b \in r.written
    <2> PICK x, y, z : x = r.read[b] /\ y = r.view[b] /\ z = row[b]
      OBVIOUS
    <2>1. x \in Row /\ y \in Row /\ z \in Row /\ b \in DOMAIN r.read
      BY <1>1, <1>3, RunParts DEF TypeInv, RunsTyped, RowsTyped
    <2>2. CopyKept(x, y) /\ (y.released = x.released => SameAmounts(x, y))
      BY <1>1, <2>1 DEF RunsKept, RunKept, InHand
    <2>3. \A c \in Columns : row'[b][c] = IF y[c] = x[c] THEN z[c] ELSE y[c]
      BY <1>1, <1>3, <2>1, FlushColumn
    <2>4. {"released", "overrunReleased", "payout"} \subseteq Columns
      BY ColumnNames
    <2>5. /\ x.released \in BOOLEAN /\ y.released \in BOOLEAN
          /\ x.overrunReleased \in BOOLEAN /\ y.overrunReleased \in BOOLEAN
      BY <2>1 DEF Row
    <2>6. \A c \in Columns \ RunColumns : row'[b][c] = z[c]
      BY <2>2, <2>3 DEF CopyKept
    <2>7. /\ row'[b].released = IF y.released = x.released THEN z.released ELSE y.released
          /\ row'[b].overrunReleased = IF y.overrunReleased = x.overrunReleased
                                       THEN z.overrunReleased ELSE y.overrunReleased
          /\ row'[b].payout = IF y.payout = x.payout THEN z.payout ELSE y.payout
      BY <2>3, <2>4
    <2> QED
      BY <2>2, <2>5, <2>6, <2>7 DEF PaidOff, CopyKept, SameAmounts
  <1> QED
    BY <1>2, <1>3

LEMMA OutsideRecords ==
    ASSUME TypeInv, NEW a \in Bookings, HoldElapses(a) \/ \E held \in BOOLEAN : QueryHold(a, held),
           NEW b \in Bookings
    PROVE  /\ \A c \in Columns \ {"hold", "overrunHold", "queryHold"} : row'[b][c] = row[b][c]
           /\ row'[b].hold = "none" <=> row[b].hold = "none"
           /\ row'[b].overrunHold = "none" <=> row[b].overrunHold = "none"
  <1>1. DOMAIN row = Bookings /\ row[b] \in Row /\ DOMAIN row[b] = Columns
    BY RowColumns DEF TypeInv, RowsTyped
  <1>2. CASE HoldElapses(a)
    BY <1>1, <1>2, ColumnNames DEF HoldElapses
  <1>3. CASE \E held \in BOOLEAN : QueryHold(a, held)
    BY <1>1, <1>3, ColumnNames DEF QueryHold
  <1> QED
    BY <1>2, <1>3

(* Only a payout run's commit sets or changes a record of it.                 *)
LEMMA RecordsNext ==
    ASSUME TypeInv, [Next]_vars, \A k \in Runners : ~PayoutCommit(k), NEW b \in Bookings
    PROVE  Recorded(row[b], row'[b])
  <1>0. UNCHANGED row => Recorded(row[b], row'[b])
    BY DEF Recorded
  <1>1. ASSUME NEW h \in Handlers, Serve(h) \/ \E a \in Bookings : Receive(h, a)
        PROVE  Recorded(row[b], row'[b])
    BY <1>0, <1>1, CommitRecords DEF Serve, Refund, ChargeOvertime, Receive
  <1>2. ASSUME NEW k \in Runners, PayoutStep(k) PROVE Recorded(row[b], row'[b])
    BY <1>0, <1>2 DEF PayoutStep, PayoutRead, OvertimeRead, Record, PassOver, Deduct,
                      TakeOvertime, Transfer
  <1>3. ASSUME NEW a \in Bookings,
               HoldElapses(a) \/ \E held \in BOOLEAN : QueryHold(a, held)
        PROVE  Recorded(row[b], row'[b])
    <2>1. RunColumns \ {"payout"} \subseteq Columns \ {"hold", "overrunHold", "queryHold"}
      BY ColumnNames DEF RunColumns
    <2> QED
      BY <1>3, <2>1, OutsideRecords DEF Recorded
  <1>4. ASSUME NEW w \in Crashing, Crash(w) PROVE Recorded(row[b], row'[b])
    BY <1>0, <1>4 DEF Crash
  <1>5. CASE UNCHANGED vars
    BY <1>0, <1>5 DEF vars
  <1> QED
    BY <1>1, <1>2, <1>3, <1>4, <1>5, Steps

(* A mark is never taken back.                                                *)
LEMMA MarksGrow ==
    ASSUME TypeInv, RunsKept, [Next]_vars, NEW b \in Bookings
    PROVE  /\ row[b].released => row'[b].released
           /\ row[b].overrunReleased => row'[b].overrunReleased
  <1>1. CASE \E k \in Runners : PayoutCommit(k)
    BY <1>1, PayoutPaysOff DEF PaidOff
  <1>2. CASE \A k \in Runners : ~PayoutCommit(k)
    BY <1>2, RecordsNext DEF Recorded, RunColumns
  <1> QED
    BY <1>1, <1>2

(* The rows that a run has read in a step are the committed ones.             *)
LEMMA StepReads ==
    ASSUME TypeInv, NEW k \in Runners, PayoutStep(k), run'[k].phase # "idle"
    PROVE  /\ UNCHANGED row
           /\ DOMAIN run'[k].read \subseteq Bookings
           /\ \A b \in DOMAIN run'[k].read :
                 \/ run'[k].read[b] = row[b]
                 \/ /\ run[k].phase # "idle" /\ b \in DOMAIN run[k].read
                    /\ run'[k].read[b] = run[k].read[b]
  <1> PICK r : r = run[k]
    OBVIOUS
  <1>0. RunFits(r) /\ DOMAIN run = Runners /\ RunFits(run'[k])
    BY StepRuns DEF TypeInv, RunsTyped
  <1>a. ~PayoutCommit(k)
    BY <1>0 DEF PayoutCommit, NoRun
  <1>b. UNCHANGED row /\ DOMAIN run'[k].read \subseteq Bookings
    BY <1>0, <1>a, RunParts
       DEF PayoutStep, PayoutRead, OvertimeRead, Record, PassOver, Deduct, TakeOvertime, Transfer
  <1> DEFINE Reads == \A b \in DOMAIN run'[k].read :
                         \/ run'[k].read[b] = row[b]
                         \/ /\ r.phase # "idle" /\ b \in DOMAIN r.read
                            /\ run'[k].read[b] = r.read[b]
  <1>1. ASSUME PayoutRead(k) PROVE Reads
    <2> PICK due : due = {b \in Bookings : Due(row[b])}
      OBVIOUS
    <2>1. run'[k] = ReadRun(due)
      BY <1>0, <1>1, PayoutReadRun
    <2> QED
      BY <2>1 DEF ReadRun
  <1>2. ASSUME OvertimeRead(k) PROVE Reads
    <2> PICK due : due = {b \in Bookings : OvertimeDue(row[b])}
      OBVIOUS
    <2>1. r.phase = "base" /\ run'[k] = OvertimeRun(r, due)
      BY <1>0, <1>2, OvertimeReadRun DEF TypeInv
    <2>2. run'[k].read = Known(r.read, due)
      BY <1>0, <2>1, RunParts DEF OvertimeRun, Run
    <2> QED
      BY <2>1, <2>2 DEF Known
  <1>3. ASSUME r.phase # "idle", run'[k].read = r.read PROVE Reads
    BY <1>3
  <1>4. ASSUME NEW b \in Bookings,
               PassOver(k, b) \/ TakeOvertime(k, b)
        PROVE  r.phase # "idle" /\ run'[k].read = r.read
    BY <1>0, <1>4, RunParts DEF PassOver, TakeOvertime, Run
  <1>5. ASSUME NEW b \in Bookings, Deduct(k, b)
        PROVE  r.phase # "idle" /\ run'[k].read = r.read
    <2>1. r.phase = "base"
      BY <1>5, DeductRuns
    <2> PICK x, balance : run' = [run EXCEPT ![k] = DeductRun(r, b, x, balance)]
      BY <1>5, DeductRuns
    <2> QED
      BY <1>0, <2>1, RunParts DEF DeductRun, Run
  <1>6. ASSUME NEW b \in Bookings, Transfer(k, b)
        PROVE  r.phase # "idle" /\ run'[k].read = r.read
    <2> PICK o \in Outcomes :
          run' = [run EXCEPT ![k] = IF Succeeded(o) THEN Transferred(k, b) ELSE RolledBack(k, b)]
      BY <1>6, TransferRuns
    <2>1. /\ r.phase # "idle" /\ r.step = "send"
          /\ run'[k] = Transferred(k, b) \/ run'[k] = RolledBack(k, b)
      BY <1>0, <1>6, TransferRuns
    <2>2. Sent(Transferred(k, b), r, b, Deducts(k, b)) /\ Unsent(RolledBack(k, b), r, b)
      BY <2>1, TransferParts DEF TypeInv
    <2> QED
      BY <2>1, <2>2 DEF Sent, Unsent
  <1>7. ASSUME Record(k) PROVE r.phase # "idle" /\ run'[k].read = r.read
    <2>1. r.phase # "idle" /\ run'[k] = RecordRun(r)
      BY <1>0, <1>7, RecordRuns DEF TypeInv
    <2> QED
      BY <1>0, <2>1, RunParts DEF RecordRun, Run
  <1>8. Reads
    BY <1>1, <1>2, <1>3, <1>4, <1>5, <1>6, <1>7, <1>a DEF PayoutStep
  <1> HIDE DEF Reads
  <1> QED
    BY <1>b, <1>8 DEF Reads

(* Runs keep what they read, and what they read as marked stays marked.       *)
KeptInv == TypeInv /\ RunsKept /\ RunsStill

LEMMA KeptInit == Init => KeptInv
  BY TypeInit DEF Init, KeptInv, RunsKept, RunKept, RunsStill, ReadStill, NoRun

(* Only a run's own steps and its crash change it.                            *)
LEMMA RunChanges ==
    ASSUME TypeInv, [Next]_vars, NEW j \in Runners
    PROVE  run'[j] = run[j] \/ run'[j] = NoRun \/ PayoutStep(j)
  <1>0. DOMAIN run = Runners
    BY DEF TypeInv, RunsTyped
  <1>1. ASSUME NEW h \in Handlers, Serve(h) \/ \E b \in Bookings : Receive(h, b)
        PROVE  run'[j] = run[j]
    BY <1>1 DEF Serve, Refund, ChargeOvertime, Commit, Receive
  <1>2. ASSUME NEW k \in Runners, PayoutStep(k), k # j PROVE run'[j] = run[j]
    BY ZenonT(30), <1>0, <1>2 DEF PayoutStep, PayoutRead, OvertimeRead, Record, PayoutCommit, PassOver,
                      Deduct, TakeOvertime, Transfer
  <1>3. ASSUME NEW b \in Bookings,
               HoldElapses(b) \/ \E held \in BOOLEAN : QueryHold(b, held)
        PROVE  run'[j] = run[j]
    BY <1>3 DEF HoldElapses, QueryHold
  <1>4. ASSUME NEW w \in Crashing, Crash(w) PROVE run'[j] = run[j] \/ run'[j] = NoRun
    BY <1>0, <1>4 DEF Crash
  <1>5. CASE UNCHANGED vars
    BY <1>5 DEF vars
  <1> QED
    BY <1>1, <1>2, <1>3, <1>4, <1>5, Steps

LEMMA KeptNext == KeptInv /\ [Next]_vars => KeptInv'
  <1> SUFFICES ASSUME KeptInv, [Next]_vars PROVE KeptInv'
    OBVIOUS
  <1> USE DEF KeptInv
  <1>1. TypeInv'
    BY TypeNext
  <1>2. ASSUME NEW j \in Runners PROVE RunKept(run'[j])
    <2>1. RunKept(run[j]) /\ RunKept(NoRun)
      BY DEF RunsKept, RunKept, NoRun
    <2> QED
      BY <2>1, RunChanges, StepRunKept
  <1>3. ASSUME NEW j \in Runners PROVE ReadStill(run[j])' 
    <2>1. CASE run'[j] = NoRun
      BY <2>1 DEF ReadStill, NoRun
    <2>2. CASE run'[j] = run[j]
      <3>1. ReadStill(run[j]) /\ (run[j].phase # "idle" => DOMAIN run[j].read \subseteq Bookings)
        BY RunParts DEF RunsStill, TypeInv, RunsTyped
      <3> QED
        BY <2>2, <3>1, MarksGrow DEF ReadStill
    <2>3. CASE PayoutStep(j) /\ run'[j].phase # "idle"
      <3>1. ReadStill(run[j])
        BY DEF RunsStill
      <3> QED
        BY <2>3, <3>1, StepReads DEF ReadStill
    <2>4. CASE run'[j].phase = "idle"
      BY <2>4 DEF ReadStill
    <2> QED
      BY <2>1, <2>2, <2>3, <2>4, RunChanges
  <1> QED
    BY <1>1, <1>2, <1>3 DEF RunsKept, RunsStill

(* While a run works, its list, the bookings in hand and those it has taken   *)
(* stay apart, its view of a booking it has not taken is the row as read,     *)
(* and it changes only the marks and amounts of those it took.                *)
LEMMA KeptInvariance == Spec => []KeptInv
  BY KeptInit, KeptNext, PTL DEF Spec

----------------------------------------------------------------------------
(* Handlers on different bookings                                            *)

(* No two handlers are at work on the same booking.                           *)
BookingsApart ==
    \A g, h \in Handlers :
        g # h /\ sess[g].phase # "idle" /\ sess[h].phase # "idle" => sess[g].booking # sess[h].booking

HandlerColumns ==
    {"status", "checkIn", "checkOut", "inConfirmed", "outConfirmed", "refundRef", "overrun",
     "overrunAmount", "overrunDisputed", "disputed", "parentNoShow"}

(* The row that was x is y, changed by runs, holds and queries alone.         *)
Drifted(x, y) ==
    /\ \A c \in HandlerColumns : y[c] = x[c]
    /\ x.hold = "none" <=> y.hold = "none"
    /\ y.payout = x.payout \/ y.released
    /\ x.released => y.released

(* What the session s will commit is right, given the row x it will meet.     *)
SessionServed(s, x) ==
    s.phase # "idle" =>
        /\ Drifted(s.seen, x) /\ Timed(s.new)
        /\ s.booking \in Requested => Started(s.new) /\ (s.phase = "write" => Waged(s.new))

RowServed(b, x) == Timed(x) /\ (b \in Requested => Started(x) /\ Waged(x))

RowsServed == \A b \in Bookings : RowServed(b, row[b])
SessionsServed == \A h \in Handlers : SessionServed(sess[h], row[sess[h].booking])

ServedInv == KeptInv /\ RowsServed /\ SessionsServed

LEMMA DriftedSame == \A x : Drifted(x, x)
  BY DEF Drifted

LEMMA DriftedOn ==
    ASSUME NEW x, NEW y, NEW z, Drifted(x, y), Drifted(y, z)
    PROVE  Drifted(x, z)
  BY DEF Drifted

LEMMA DriftedServes ==
    ASSUME NEW b, NEW x, NEW y, Drifted(x, y), RowServed(b, x)
    PROVE  RowServed(b, y)
  <1>1. /\ y.status = x.status /\ y.checkIn = x.checkIn /\ y.checkOut = x.checkOut
        /\ y.inConfirmed = x.inConfirmed /\ y.outConfirmed = x.outConfirmed
        /\ y.overrun = x.overrun /\ y.parentNoShow = x.parentNoShow
    BY DEF Drifted, HandlerColumns
  <1>2. Timed(x) => Timed(y)
    BY <1>1 DEF Timed
  <1>3. Counts(y) => Counts(x)
    BY <1>1 DEF Drifted, Counts
  <1>4. Started(x) => Started(y)
    BY <1>1, <1>3 DEF Started, Confirmed
  <1>5. Billable(y) = Billable(x)
    BY <1>1 DEF Billable
  <1>6. Waged(x) => Waged(y)
    BY <1>3, <1>5 DEF Waged, Drifted
  <1> QED
    BY <1>2, <1>4, <1>6 DEF RowServed

(* Whatever is not a handler's commit lets a row drift at most.               *)
LEMMA RowDrifts ==
    ASSUME KeptInv, [Next]_vars, \A h \in Handlers : ~Commit(h), NEW b \in Bookings
    PROVE  Drifted(row[b], row'[b])
  <1> USE DEF KeptInv
  <1>0. UNCHANGED row => Drifted(row[b], row'[b])
    BY DriftedSame
  <1>1. ASSUME NEW h \in Handlers, Serve(h) \/ \E a \in Bookings : Receive(h, a)
        PROVE  Drifted(row[b], row'[b])
    BY <1>0, <1>1 DEF Serve, Refund, ChargeOvertime, Receive
  <1>2. ASSUME NEW k \in Runners, PayoutStep(k) PROVE Drifted(row[b], row'[b])
    <2>1. CASE PayoutCommit(k)
      <3>1. PaidOff(row[b], row'[b])
        BY <2>1, PayoutPaysOff
      <3>2. HandlerColumns \cup {"hold"} \subseteq Columns \ RunColumns
        BY ColumnNames DEF HandlerColumns, RunColumns
      <3> QED
        BY <3>1, <3>2 DEF PaidOff, Drifted
    <2>2. CASE ~PayoutCommit(k)
      BY <1>0, <1>2, <2>2 DEF PayoutStep, PayoutRead, OvertimeRead, Record, PassOver, Deduct,
                              TakeOvertime, Transfer
    <2> QED
      BY <2>1, <2>2
  <1>3. ASSUME NEW a \in Bookings,
               HoldElapses(a) \/ \E held \in BOOLEAN : QueryHold(a, held)
        PROVE  Drifted(row[b], row'[b])
    <2>1. HandlerColumns \cup {"payout", "released"} \subseteq
             Columns \ {"hold", "overrunHold", "queryHold"}
      BY ColumnNames DEF HandlerColumns
    <2>2. /\ \A c \in HandlerColumns \cup {"payout", "released"} : row'[b][c] = row[b][c]
          /\ row'[b].hold = "none" <=> row[b].hold = "none"
      BY <1>3, <2>1, OutsideRecords
    <2> QED
      BY <2>2 DEF Drifted
  <1>4. ASSUME NEW w \in Crashing, Crash(w) PROVE Drifted(row[b], row'[b])
    BY <1>0, <1>4 DEF Crash
  <1>5. CASE UNCHANGED vars
    BY <1>0, <1>5 DEF vars
  <1> QED
    BY <1>1, <1>2, <1>3, <1>4, <1>5, Steps

(* A session's commit over a row that has drifted since is right, too.        *)
LEMMA FlushServes ==
    ASSUME NEW b, NEW x \in Row, NEW new \in Row, NEW stamped, NEW db \in Row,
           stamped \subseteq Stamps, \A c \in Apart : new[c] = x[c], Drifted(x, db),
           Timed(new), b \in Requested => Started(new) /\ Waged(new),
           NEW y, y = Flush(x, new, stamped, db)
    PROVE  RowServed(b, y)
  <1>1. \A c \in Columns : y[c] = IF new[c] = x[c] /\ c \notin stamped THEN db[c] ELSE new[c]
    BY FlushColumn
  <1>2. /\ HandlerColumns \cup {"hold", "released", "payout"} \subseteq Columns
        /\ "released" \in Apart /\ "released" \notin Stamps
        /\ "payout" \notin Stamps
    BY ColumnNames DEF HandlerColumns, Apart, Stamps
  <1>3. \A c \in HandlerColumns : y[c] = new[c]
    BY <1>1, <1>2 DEF Drifted
  <1>4. y.hold = "none" <=> new.hold = "none"
    <2>1. y.hold = IF new.hold = x.hold /\ "hold" \notin stamped THEN db.hold ELSE new.hold
      BY <1>1, <1>2
    <2> QED
      BY <2>1 DEF Drifted
  <1>5. y.released = db.released /\ new.released = x.released
    BY <1>1, <1>2
  <1>6. y.payout = new.payout \/ y.released
    <2>1. y.payout = IF new.payout = x.payout THEN db.payout ELSE new.payout
      BY <1>1, <1>2
    <2> QED
      BY <1>5, <2>1 DEF Drifted
  <1>7. new.released => y.released
    BY <1>5 DEF Drifted
  <1>8. Drifted(new, y)
    BY <1>3, <1>4, <1>6, <1>7 DEF Drifted
  <1> QED
    BY <1>8, DriftedServes DEF RowServed

LEMMA ServedInit == Init => ServedInv
  <1> SUFFICES ASSUME Init PROVE ServedInv
    OBVIOUS
  <1>1. \A b \in Bookings : RowServed(b, NewRow(b))
    BY DEF RowServed, NewRow, Timed, Started, Waged, Counts
  <1>2. RowsServed
    BY <1>1 DEF Init, RowsServed
  <1>3. SessionsServed
    BY DEF Init, SessionsServed, SessionServed, Idle
  <1> QED
    BY <1>2, <1>3, KeptInit DEF ServedInv

LEMMA CommitServed ==
    ASSUME BookingsApart, ServedInv, NEW h \in Handlers, Commit(h)
    PROVE  RowsServed' /\ SessionsServed'
  <1> PICK s : s = sess[h]
    OBVIOUS
  <1> PICK b : b = s.booking
    OBVIOUS
  <1>1. /\ s.phase = "write" /\ row' = [row EXCEPT ![b] = Flush(s.seen, s.new, s.stamped, @)]
        /\ sess' = [sess EXCEPT ![h] = Idle]
    BY DEF Commit
  <1>2. /\ b \in Bookings /\ s.seen \in Row /\ s.new \in Row /\ s.stamped \subseteq Stamps
        /\ \A c \in Apart : s.new[c] = s.seen[c]
        /\ row \in [Bookings -> Row] /\ DOMAIN sess = Handlers
    BY <1>1, SessionParts DEF ServedInv, KeptInv, TypeInv, RowsTyped, SessionsTyped
  <1>3. Drifted(s.seen, row[b]) /\ Timed(s.new) /\ (b \in Requested => Started(s.new) /\ Waged(s.new))
    BY <1>1 DEF ServedInv, SessionsServed, SessionServed
  <1>4. RowServed(b, row'[b])
    <2>1. row[b] \in Row /\ row'[b] = Flush(s.seen, s.new, s.stamped, row[b])
      BY <1>1, <1>2
    <2> PICK x, new, stamped, db, y :
          /\ x = s.seen /\ new = s.new /\ stamped = s.stamped /\ db = row[b]
          /\ y = Flush(x, new, stamped, db)
      OBVIOUS
    <2>2. /\ x \in Row /\ new \in Row /\ stamped \subseteq Stamps /\ db \in Row
          /\ \A c \in Apart : new[c] = x[c]
          /\ Drifted(x, db) /\ Timed(new) /\ (b \in Requested => Started(new) /\ Waged(new))
      BY <1>2, <1>3, <2>1
    <2>3. RowServed(b, y)
      BY <2>2, FlushServes
    <2> QED
      BY <2>1, <2>3
  <1>5. \A a \in Bookings \ {b} : row'[a] = row[a]
    BY <1>1, <1>2
  <1>6. RowsServed'
    BY <1>4, <1>5 DEF ServedInv, RowsServed
  <1>7. ASSUME NEW g \in Handlers
        PROVE  SessionServed(sess'[g], row'[sess'[g].booking])
    <2>1. CASE g = h
      BY <1>1, <1>2, <2>1 DEF SessionServed, Idle
    <2>2. CASE g # h
      <3>1. sess'[g] = sess[g] /\ SessionServed(sess[g], row[sess[g].booking])
        BY <1>1, <1>2, <2>2 DEF ServedInv, SessionsServed
      <3>2. CASE sess[g].phase # "idle"
        <4>1. sess[g].booking \in Bookings \ {b}
          <5>1. SessionFits(sess[g])
            BY DEF ServedInv, KeptInv, TypeInv, SessionsTyped
          <5> QED
            BY <1>1, <2>2, <3>2, <5>1, SessionParts DEF BookingsApart
        <4> QED
          BY <1>5, <3>1, <4>1
      <3>3. CASE sess[g].phase = "idle"
        BY <3>1, <3>3 DEF SessionServed
      <3> QED
        BY <3>2, <3>3
    <2> QED
      BY <2>1, <2>2
  <1> QED
    BY <1>6, <1>7 DEF SessionsServed

LEMMA ServedNext == BookingsApart /\ ServedInv /\ [Next]_vars => ServedInv'
  <1> SUFFICES ASSUME BookingsApart, ServedInv, [Next]_vars PROVE ServedInv'
    OBVIOUS
  <1>1. KeptInv' /\ KeptInv
    BY KeptNext DEF ServedInv
  <1>2. CASE \E h \in Handlers : Commit(h)
    BY <1>1, <1>2, CommitServed DEF ServedInv
  <1>3. CASE \A h \in Handlers : ~Commit(h)
    <2>1. \A b \in Bookings : Drifted(row[b], row'[b])
      BY <1>1, <1>3, RowDrifts
    <2>2. RowsServed'
      BY <2>1, DriftedServes DEF ServedInv, RowsServed
    <2>a. /\ DOMAIN sess = Handlers /\ \A h \in Handlers : SessionFits(sess[h])
          /\ row \in [Bookings -> Row]
      BY <1>1 DEF KeptInv, TypeInv, SessionsTyped, RowsTyped
    <2>b. ASSUME NEW h \in Handlers, sess'[h] = sess[h] \/ sess'[h].phase = "idle"
          PROVE  SessionServed(sess[h], row[sess[h].booking])'
      <3>1. CASE sess'[h].phase = "idle"
        BY <3>1 DEF SessionServed
      <3>2. CASE sess'[h] = sess[h] /\ sess[h].phase # "idle"
        <4>1. sess[h].booking \in Bookings
          BY <2>a, <3>2, SessionParts
        <4>2. SessionServed(sess[h], row[sess[h].booking])
          BY DEF ServedInv, SessionsServed
        <4> QED
          BY <2>1, <3>2, <4>1, <4>2, DriftedOn DEF SessionServed
      <3> QED
        BY <2>b, <3>1, <3>2
    <2>c. ASSUME NEW h \in Handlers, NEW s, sess' = [sess EXCEPT ![h] = s],
                 SessionServed(s, row'[s.booking])
          PROVE  SessionsServed'
      <3>1. /\ sess'[h] = s
            /\ \A g \in Handlers \ {h} : sess'[g] = sess[g]
        BY <2>a, <2>c
      <3>2. \A g \in Handlers \ {h} : SessionServed(sess[g], row[sess[g].booking])'
        BY <2>b, <3>1
      <3> QED
        BY <2>c, <3>1, <3>2 DEF SessionsServed
    <2>3. ASSUME NEW h \in Handlers, NEW b \in Bookings, Receive(h, b) PROVE SessionsServed'
      <3> PICK phase, new, stamped, keep :
            Handles(b, row[b], phase, new, stamped, keep) /\ Work(h, b, phase, new, stamped, keep)
        BY <2>a, <2>3, ReceiveHandles DEF Starts
      <3> PICK s : s = [phase |-> phase, booking |-> b, seen |-> row[b], new |-> new,
                        stamped |-> stamped, keep |-> keep]
        OBVIOUS
      <3>1. sess' = [sess EXCEPT ![h] = s] /\ UNCHANGED row
        BY <2>3 DEF Work, Receive
      <3>2. RowServed(b, row[b])
        BY DEF ServedInv, RowsServed
      <3>3. SessionServed(s, row'[s.booking])
        BY <3>1, <3>2, DriftedSame DEF SessionServed, RowServed, Handles
      <3> QED
        BY <2>c, <3>1, <3>3
    <2>4. ASSUME NEW h \in Handlers, Refund(h) PROVE SessionsServed'
      <3> PICK s : s = sess[h]
        OBVIOUS
      <3> PICK o \in Outcomes :
            sess' = [sess EXCEPT ![h] = Answered(s, Refunds(s.new, o.taken, Succeeded(o)))]
        BY <2>4, RefundAnswers DEF KeptInv, TypeInv, ServedInv
      <3> PICK y : y = Refunds(s.new, o.taken, Succeeded(o))
        OBVIOUS
      <3> PICK a : a = Answered(s, y)
        OBVIOUS
      <3>1. /\ s.phase = "refund" /\ s.new \in Row /\ Succeeded(o) \in BOOLEAN
            /\ s.booking \in Bookings /\ SessionFits(s)
        BY <2>4, <2>a, SessionParts DEF Refund, Outcomes, Succeeded
      <3>2. /\ y \in Row /\ \A c \in Apart : y[c] = s.new[c]
            /\ Timed(s.new) => Timed(y)
            /\ Started(s.new) => Started(y)
        BY <3>1, RefundsFit
      <3>3. /\ a.booking = s.booking /\ a.seen = s.seen /\ a.new = Finalized(s.booking, y)
            /\ a.phase = "write"
        BY <3>1, <3>2, AnsweredFits
      <3>4. SessionServed(s, row[s.booking]) /\ UNCHANGED row
        BY <2>4 DEF ServedInv, SessionsServed, Refund
      <3>5. SessionServed(a, row'[a.booking])
        BY <3>1, <3>2, <3>3, <3>4, FinalizedServes DEF SessionServed
      <3> QED
        BY <2>c, <3>5
    <2>5. ASSUME NEW h \in Handlers, ChargeOvertime(h) PROVE SessionsServed'
      <3> PICK s : s = sess[h]
        OBVIOUS
      <3> PICK a : a = Charged(s)
        OBVIOUS
      <3>1. \/ s.booking \notin Requested /\ sess' = [sess EXCEPT ![h] = a]
            \/ sess' = [sess EXCEPT ![h] = Idle]
        BY <2>5, ChargeAnswers DEF KeptInv, TypeInv, ServedInv
      <3>2. s.phase = "charge" /\ SessionFits(s) /\ UNCHANGED row
        BY <2>5, <2>a DEF ChargeOvertime
      <3>3. /\ a.phase = "write" /\ a.booking = s.booking /\ a.seen = s.seen
            /\ Timed(s.new) => Timed(a.new)
        BY <3>2, ChargedFits
      <3>4. SessionServed(s, row[s.booking])
        BY DEF ServedInv, SessionsServed
      <3>5. s.booking \notin Requested => SessionServed(a, row'[a.booking])
        BY <3>2, <3>3, <3>4 DEF SessionServed
      <3>6. \A x : SessionServed(Idle, x)
        BY DEF SessionServed, Idle
      <3> QED
        BY <2>c, <3>1, <3>5, <3>6
    <2>6. ASSUME UNCHANGED sess PROVE SessionsServed'
      <3>1. \A h \in Handlers : SessionServed(sess[h], row[sess[h].booking])'
        BY <2>b, <2>6
      <3> QED
        BY <3>1 DEF SessionsServed
    <2>7. ASSUME NEW w \in Crashing, Crash(w) PROVE SessionsServed'
      BY <2>7, <2>a, <2>b DEF Crash, SessionsServed, Idle
    <2>8. ASSUME NEW k \in Runners, PayoutStep(k) PROVE UNCHANGED sess
      BY <2>8 DEF PayoutStep, PayoutRead, OvertimeRead, Record, PayoutCommit, PassOver, Deduct,
                  TakeOvertime, Transfer
    <2>9. ASSUME NEW b \in Bookings, HoldElapses(b) \/ \E held \in BOOLEAN : QueryHold(b, held)
          PROVE  UNCHANGED sess
      BY <2>9 DEF HoldElapses, QueryHold
    <2>10. UNCHANGED vars => UNCHANGED sess
      BY DEF vars
    <2>11. SessionsServed'
      <3>1. ASSUME NEW h \in Handlers, Serve(h) \/ \E b \in Bookings : Receive(h, b)
            PROVE  SessionsServed'
        BY <1>3, <2>3, <2>4, <2>5, <3>1 DEF Serve
      <3> QED
        BY <2>6, <2>7, <2>8, <2>9, <2>10, <3>1, Steps
    <2> QED
      BY <1>1, <2>2, <2>11 DEF ServedInv
  <1> QED
    BY <1>2, <1>3

(* While no two handlers are on one booking, what a session read stays the    *)
(* committed row but for what runs and the timer of the hold change, its      *)
(* times are in order, and a booking whose confirmed times were settled       *)
(* carries the amount for its billable hours: the invariant behind            *)
(* PayableAlways.                                                             *)
THEOREM ServedInvariance == []BookingsApart /\ Spec => []ServedInv
  <1> QED
    BY ServedInit, ServedNext, PTL DEF Spec

(* However many handlers work, if no two are on one booking, a completed,     *)
(* paid-for booking whose hold has started and whose parent was not marked    *)
(* absent has both its times                                                 *)
(* confirmed, and until it is released its payout is the amount of its        *)
(* billable hours: no order of check-in, check-out, correction, denial,       *)
(* overtime, dispute, no-show and payout leaves it at the amount of other     *)
(* times (recalculate_actual_hours, _maybe_finalize_booking).                 *)
THEOREM PayableAlways == []BookingsApart /\ Spec => []PayableForService
  <1>1. ServedInv => PayableForService
    <2> SUFFICES ASSUME ServedInv, NEW b \in Requested, row[b].status = "completed",
                        row[b].hold # "none", ~row[b].parentNoShow
                 PROVE  /\ row[b].inConfirmed /\ row[b].outConfirmed
                        /\ \/ row[b].payout = Positive(row[b].checkOut - row[b].checkIn
                                                       - Positive(row[b].checkOut - Scheduled))
                           \/ row[b].released
      BY DEF PayableForService
    <2> PICK x : x = row[b]
      OBVIOUS
    <2>1. b \in Bookings /\ x \in Row
      BY BookingsTyped DEF ServedInv, KeptInv, TypeInv, RowsTyped
    <2>2. Timed(x) /\ Started(x) /\ Waged(x)
      BY <2>1 DEF ServedInv, RowsServed, RowServed
    <2>3. x.inConfirmed /\ x.outConfirmed /\ x.checkIn # Unset /\ x.checkOut # Unset
      BY <2>2 DEF Started, Counts, Confirmed, Timed
    <2>4. x.checkIn \in Int /\ x.checkOut \in Int /\ Scheduled \in Int
      BY <2>1, <2>3, AmountsTyped DEF Row, Times
    <2>5. Billable(x) = Positive(x.checkOut - x.checkIn - Positive(x.checkOut - Scheduled))
      BY <2>4 DEF Billable, Positive
    <2> QED
      BY <2>2, <2>3, <2>5 DEF Waged, Counts
  <1> QED
    BY <1>1, ServedInvariance, PTL

----------------------------------------------------------------------------
(* One refund                                                                *)

(* A handler that neither stops halfway nor misses Paystack's answer.         *)
Reliable(W) == Crashing \cap W = {} /\ ~LostReplies

(* The refund of b is on record, or the one session s is about to record it.  *)
Recording(b, s) == s.phase = "write" /\ s.booking = b /\ s.new.refundRef

RefundKnown(b) == row[b].refundRef \/ \E h \in Handlers : Recording(b, sess[h])

RefundsKnown ==
    \A b \in Bookings : ledger[b].refunds = 0 \/ (ledger[b].refunds = 1 /\ RefundKnown(b))

SessionRefunds(s) == s.phase # "idle" => (s.seen.refundRef => s.new.refundRef)

SessionsRefund == \A h \in Handlers : SessionRefunds(sess[h])

RefundInv == ServedInv /\ RefundsKnown /\ SessionsRefund

LEMMA NothingLost ==
    ASSUME ~LostReplies, NEW o \in Outcomes
    PROVE  o.taken \in BOOLEAN /\ Succeeded(o) = o.taken
  BY DEF Outcomes, Succeeded

LEMMA RefundInit == Init => RefundInv
  <1> SUFFICES ASSUME Init PROVE RefundInv
    OBVIOUS
  <1>1. RefundsKnown /\ SessionsRefund
    BY DEF Init, RefundsKnown, SessionsRefund, SessionRefunds, Idle
  <1> QED
    BY <1>1, ServedInit DEF RefundInv

LEMMA SessionsRefundNext ==
    ASSUME RefundInv, [Next]_vars
    PROVE  SessionsRefund'
  <1>a. /\ DOMAIN sess = Handlers /\ \A h \in Handlers : SessionFits(sess[h])
        /\ row \in [Bookings -> Row] /\ SessionsTyped /\ SessionsRefund /\ SessionRefunds(Idle)
    BY DEF RefundInv, ServedInv, KeptInv, TypeInv, SessionsTyped, RowsTyped, SessionRefunds, Idle
  <1>b. ASSUME NEW h \in Handlers, NEW s, sess' = [sess EXCEPT ![h] = s], SessionRefunds(s)
        PROVE  SessionsRefund'
    BY <1>a, <1>b DEF SessionsRefund
  <1>c. UNCHANGED sess => SessionsRefund'
    BY <1>a DEF SessionsRefund
  <1>1. ASSUME NEW h \in Handlers, NEW b \in Bookings, Receive(h, b) PROVE SessionsRefund'
    <2> PICK phase, new, stamped, keep :
          Handles(b, row[b], phase, new, stamped, keep) /\ Work(h, b, phase, new, stamped, keep)
      BY <1>a, <1>1, ReceiveHandles DEF Starts
    <2> PICK s : s = [phase |-> phase, booking |-> b, seen |-> row[b], new |-> new,
                      stamped |-> stamped, keep |-> keep]
      OBVIOUS
    <2>1. sess' = [sess EXCEPT ![h] = s]
      BY DEF Work
    <2>2. SessionRefunds(s)
      BY DEF SessionRefunds, Handles, KeepsRecords, Records
    <2> QED
      BY <1>b, <2>1, <2>2
  <1>2. ASSUME NEW h \in Handlers, Refund(h) PROVE SessionsRefund'
    <2> PICK s : s = sess[h]
      OBVIOUS
    <2> PICK o \in Outcomes :
          sess' = [sess EXCEPT ![h] = Answered(s, Refunds(s.new, o.taken, Succeeded(o)))]
      BY <1>a, <1>2, RefundAnswers
    <2> PICK y : y = Refunds(s.new, o.taken, Succeeded(o))
      OBVIOUS
    <2> PICK a : a = Answered(s, y)
      OBVIOUS
    <2>1. /\ s.phase = "refund" /\ s.new \in Row /\ Succeeded(o) \in BOOLEAN
          /\ s.booking \in Bookings /\ SessionFits(s) /\ SessionRefunds(s)
      BY <1>2, <1>a, SessionParts DEF Refund, Outcomes, Succeeded, SessionsRefund
    <2>a. y.refundRef = (Succeeded(o) \/ s.new.refundRef)
      BY <2>1, RefundsFit
    <2>b. y \in Row /\ \A c \in Apart : y[c] = s.new[c]
      BY <2>1, RefundsFit
    <2>2. /\ y \in Row /\ \A c \in Apart : y[c] = s.new[c]
          /\ s.new.refundRef => y.refundRef
      BY <2>a, <2>b
    <2>3. /\ a.seen = s.seen /\ a.new = Finalized(s.booking, y) /\ a.phase = "write"
      BY <2>1, <2>2, AnsweredFits
    <2>4. a.new.refundRef = y.refundRef
      BY <2>1, <2>2, <2>3, FinalizedServes DEF KeepsRecords, Records
    <2>5. SessionRefunds(a)
      BY <2>1, <2>2, <2>3, <2>4 DEF SessionRefunds
    <2> QED
      BY <1>b, <2>5
  <1>3. ASSUME NEW h \in Handlers, ChargeOvertime(h) PROVE SessionsRefund'
    <2> PICK s : s = sess[h]
      OBVIOUS
    <2> PICK a : a = Charged(s)
      OBVIOUS
    <2>1. sess' = [sess EXCEPT ![h] = a] \/ sess' = [sess EXCEPT ![h] = Idle]
      BY <1>3, <1>a, ChargeAnswers
    <2>2. s.phase = "charge" /\ SessionFits(s) /\ SessionRefunds(s)
      BY <1>3, <1>a DEF ChargeOvertime, SessionsRefund
    <2>3. a.seen = s.seen /\ a.new.refundRef = s.new.refundRef
      BY <2>2, ChargedFits
    <2>4. SessionRefunds(a)
      BY <2>2, <2>3 DEF SessionRefunds
    <2> QED
      BY <1>a, <1>b, <2>1, <2>4
  <1>4. ASSUME NEW h \in Handlers, Commit(h) PROVE SessionsRefund'
    BY <1>4, <1>a, <1>b DEF Commit
  <1>5. ASSUME NEW k \in Runners, PayoutStep(k) PROVE SessionsRefund'
    BY <1>c, <1>5 DEF PayoutStep, PayoutRead, OvertimeRead, Record, PayoutCommit, PassOver,
                      Deduct, TakeOvertime, Transfer
  <1>6. ASSUME NEW b \in Bookings, HoldElapses(b) \/ \E held \in BOOLEAN : QueryHold(b, held)
        PROVE  SessionsRefund'
    BY <1>c, <1>6 DEF HoldElapses, QueryHold
  <1>7. ASSUME NEW w \in Crashing, Crash(w) PROVE SessionsRefund'
    BY <1>7, <1>a, <1>b, <1>c DEF Crash
  <1>8. CASE UNCHANGED vars
    BY <1>c, <1>8 DEF vars
  <1> QED
    BY <1>1, <1>2, <1>3, <1>4, <1>5, <1>6, <1>7, <1>8, Steps DEF Serve

(* A step outside the sessions leaves what is known of a refund.              *)
LEMMA RefundStays ==
    ASSUME RefundInv, [Next]_vars, UNCHANGED sess, NEW b \in Bookings,
           ledger'[b].refunds = ledger[b].refunds
    PROVE  ledger'[b].refunds = 0 \/ (ledger'[b].refunds = 1 /\ RefundKnown(b)')
  <1>1. \A h \in Handlers : ~Commit(h)
    BY DEF Commit, RefundInv, ServedInv, KeptInv, TypeInv, SessionsTyped, Idle
  <1>2. Drifted(row[b], row'[b])
    BY <1>1, RowDrifts DEF RefundInv, ServedInv
  <1>3. row'[b].refundRef = row[b].refundRef
    BY <1>2 DEF Drifted, HandlerColumns
  <1> QED
    BY <1>3 DEF RefundInv, RefundsKnown, RefundKnown

LEMMA RefundsKnownNext ==
    ASSUME BookingsApart, Reliable(Handlers), RefundInv, [Next]_vars
    PROVE  RefundsKnown'
  <1>a. /\ DOMAIN sess = Handlers /\ \A h \in Handlers : SessionFits(sess[h])
        /\ row \in [Bookings -> Row] /\ SessionsTyped
        /\ DOMAIN ledger = Bookings
    BY DEF RefundInv, ServedInv, KeptInv, TypeInv, SessionsTyped, RowsTyped, LedgerTyped
  <1>0. TypeInv /\ RefundsKnown
    BY DEF RefundInv, ServedInv, KeptInv
  <1>b. ASSUME NEW h \in Handlers, NEW t, sess' = [sess EXCEPT ![h] = t], NEW a \in Bookings,
               ~Recording(a, sess[h]) \/ row'[a].refundRef, row[a].refundRef => row'[a].refundRef,
               RefundKnown(a)
        PROVE  RefundKnown(a)'
    <2>1. CASE row[a].refundRef
      BY <1>b, <2>1 DEF RefundKnown
    <2>2. CASE \E g \in Handlers : Recording(a, sess[g])
      <3>1. PICK g \in Handlers : Recording(a, sess[g])
        BY <2>2
      <3>2. g # h => sess'[g] = sess[g]
        BY <1>a, <1>b
      <3> QED
        BY <1>b, <3>1, <3>2 DEF RefundKnown, Recording
    <2> QED
      BY <1>b, <2>1, <2>2 DEF RefundKnown
  <1>1. ASSUME NEW h \in Handlers, NEW b \in Bookings, Receive(h, b) PROVE RefundsKnown'
    <2>1. sess[h] = Idle /\ UNCHANGED <<row, ledger>>
      BY <1>1 DEF Receive
    <2>2. \A a \in Bookings : ~Recording(a, sess[h])
      BY <2>1 DEF Recording, Idle
    <2>3. PICK t : sess' = [sess EXCEPT ![h] = t]
      BY <1>a, <1>1, ReceiveHandles DEF Starts, Work
    <2>4. \A a \in Bookings : RefundKnown(a) => RefundKnown(a)'
      BY <1>b, <2>1, <2>2, <2>3
    <2> QED
      BY <1>0, <2>1, <2>4 DEF RefundsKnown
  <1>2. ASSUME NEW h \in Handlers, Refund(h) PROVE RefundsKnown'
    <2> PICK s : s = sess[h]
      OBVIOUS
    <2> PICK b : b = s.booking
      OBVIOUS
    <2> PICK o \in Outcomes :
          /\ sess' = [sess EXCEPT ![h] = Answered(s, Refunds(s.new, o.taken, Succeeded(o)))]
          /\ ledger' = IF o.taken
                       THEN [ledger EXCEPT ![b].refunds = @ + 1,
                                           ![b].refunded = @ + RefundDue(b, s.new)]
                       ELSE ledger
      BY <1>a, <1>2, RefundAnswers
    <2> PICK y : y = Refunds(s.new, o.taken, Succeeded(o))
      OBVIOUS
    <2> PICK z : z = Answered(s, y)
      OBVIOUS
    <2>1. /\ s.phase = "refund" /\ s.new \in Row /\ Succeeded(o) \in BOOLEAN
          /\ b \in Bookings /\ SessionFits(s) /\ NeedsRefund(b, s.new)
      BY <1>2, <1>a, SessionParts DEF Refund, Outcomes, Succeeded
    <2>2. SessionServed(s, row[b]) /\ SessionRefunds(s) /\ UNCHANGED row
      BY <1>2 DEF RefundInv, ServedInv, SessionsServed, SessionsRefund, Refund
    <2>3. ~row[b].refundRef /\ ~s.new.refundRef
      BY <2>1, <2>2 DEF NeedsRefund, SessionServed, SessionRefunds, Drifted, HandlerColumns
    <2>4. ~RefundKnown(b)
      BY <2>1, <2>3 DEF RefundKnown, Recording, BookingsApart
    <2>5. ledger[b].refunds = 0
      BY <1>0, <2>1, <2>3, <2>4 DEF RefundsKnown
    <2>6. \A a \in Bookings \ {b} : ledger'[a] = ledger[a] /\ (RefundKnown(a) => RefundKnown(a)')
      <3>1. \A a \in Bookings : ~Recording(a, sess[h])
        BY <2>1 DEF Recording
      <3> QED
        BY <1>a, <1>b, <2>2, <3>1
    <2>7. CASE ~o.taken
      BY <1>0, <2>1, <2>5, <2>6, <2>7 DEF RefundsKnown
    <2>8. CASE o.taken
      <3>a. y.refundRef = (Succeeded(o) \/ s.new.refundRef)
        BY <2>1, RefundsFit
      <3>b. Succeeded(o)
        BY <2>8, NothingLost DEF Reliable
      <3>c. y \in Row /\ \A c \in Apart : y[c] = s.new[c]
        BY <2>1, RefundsFit
      <3>1. /\ y \in Row /\ \A c \in Apart : y[c] = s.new[c]
            /\ y.refundRef
        BY <3>a, <3>b, <3>c
      <3>2. z.new = Finalized(b, y) /\ z.phase = "write" /\ z.booking = b
        BY <2>1, <3>1, AnsweredFits
      <3>3. z.new.refundRef
        BY <2>1, <3>1, <3>2, FinalizedServes DEF KeepsRecords, Records
      <3>4. RefundKnown(b)'
        BY <1>a, <3>2, <3>3 DEF RefundKnown, Recording
      <3>5. ledger'[b].refunds = 1
        <4>1. ledger[b] \in Ledger
          BY <1>0, <2>1 DEF TypeInv, LedgerTyped
        <4> QED
          BY <1>a, <2>1, <2>5, <2>8, <4>1 DEF Ledger
      <3> QED
        BY <1>0, <2>6, <3>4, <3>5 DEF RefundsKnown
    <2> QED
      BY <2>7, <2>8
  <1>3. ASSUME NEW h \in Handlers, ChargeOvertime(h) PROVE RefundsKnown'
    <2>1. sess[h].phase = "charge" /\ UNCHANGED row
      BY <1>3 DEF ChargeOvertime
    <2>a. \A a \in Bookings : ~Recording(a, sess[h])
      BY <2>1 DEF Recording
    <2>b. PICK t : sess' = [sess EXCEPT ![h] = t]
      BY <1>3, <1>a, ChargeAnswers
    <2>2. \A a \in Bookings : RefundKnown(a) => RefundKnown(a)'
      BY <1>b, <2>1, <2>a, <2>b
    <2>3. \A a \in Bookings : ledger'[a].refunds = ledger[a].refunds
      <3>1. \A a \in Bookings : ledger[a] \in Ledger
        BY <1>0 DEF TypeInv, LedgerTyped
      <3> QED
        BY <1>3, <1>a, <3>1 DEF ChargeOvertime, Ledger
    <2> QED
      BY <1>0, <2>2, <2>3 DEF RefundsKnown
  <1>4. ASSUME NEW h \in Handlers, Commit(h) PROVE RefundsKnown'
    <2> PICK s : s = sess[h]
      OBVIOUS
    <2> PICK b : b = s.booking
      OBVIOUS
    <2>1. /\ s.phase = "write" /\ row' = [row EXCEPT ![b] = Flush(s.seen, s.new, s.stamped, @)]
          /\ UNCHANGED ledger
      BY <1>4 DEF Commit
    <2>2. b \in Bookings /\ s.seen \in Row /\ s.new \in Row /\ s.stamped \subseteq Stamps
      BY <1>a, <2>1, SessionParts
    <2>3. s.seen.refundRef = row[b].refundRef /\ (s.seen.refundRef => s.new.refundRef)
      BY <2>1 DEF RefundInv, ServedInv, SessionsServed, SessionServed, Drifted, HandlerColumns,
                  SessionsRefund, SessionRefunds
    <2>4. row'[b].refundRef = IF s.new.refundRef = s.seen.refundRef THEN row[b].refundRef
                              ELSE s.new.refundRef
      <3>1. row[b] \in Row /\ row'[b] = Flush(s.seen, s.new, s.stamped, row[b])
        BY <1>a, <2>1, <2>2
      <3>2. "refundRef" \in Columns /\ "refundRef" \notin Stamps
        BY ColumnNames DEF Stamps
      <3> QED
        BY <2>2, <3>1, <3>2, FlushColumn
    <2>5. row[b].refundRef \/ s.new.refundRef => row'[b].refundRef
      BY <2>3, <2>4
    <2>6. \A a \in Bookings \ {b} : row'[a] = row[a]
      BY <1>a, <2>1
    <2>7. \A a \in Bookings : ~Recording(a, sess[h]) \/ row'[a].refundRef
      BY <2>2, <2>5 DEF Recording
    <2>8. \A a \in Bookings : row[a].refundRef => row'[a].refundRef
      BY <2>2, <2>5, <2>6
    <2>9. \A a \in Bookings : RefundKnown(a) => RefundKnown(a)'
      <3>1. sess' = [sess EXCEPT ![h] = Idle]
        BY <1>4 DEF Commit
      <3> QED
        BY <1>b, <2>7, <2>8, <3>1
    <2> QED
      BY <1>0, <2>1, <2>9 DEF RefundsKnown
  <1>5. ASSUME NEW k \in Runners, PayoutStep(k) PROVE RefundsKnown'
    <2>1. UNCHANGED sess
      BY <1>5 DEF PayoutStep, PayoutRead, OvertimeRead, Record, PayoutCommit, PassOver, Deduct,
                  TakeOvertime, Transfer
    <2>2. \A b \in Bookings : ledger'[b].refunds = ledger[b].refunds
      <3>1. \A b \in Bookings : ledger[b] \in Ledger
        BY <1>0 DEF TypeInv, LedgerTyped
      <3>2. ASSUME NEW b \in Bookings, Transfer(k, b)
            PROVE  \A c \in Bookings : ledger'[c].refunds = ledger[c].refunds
        <4> PICK o \in Outcomes :
              ledger' = IF ~o.taken THEN ledger
                        ELSE IF run[k].phase = "base"
                        THEN [ledger EXCEPT ![b].transfers = @ + 1,
                                            ![b].sent = @ + run[k].view[b].payout]
                        ELSE [ledger EXCEPT ![b].overtimes = @ + 1]
          BY <3>2, TransferRuns
        <4> QED
          BY <1>a, <3>1 DEF Ledger
      <3> QED
        BY <1>5, <3>2 DEF PayoutStep, PayoutRead, OvertimeRead, Record, PayoutCommit, PassOver,
                          Deduct, TakeOvertime
    <2> QED
      BY <2>1, <2>2, RefundStays DEF RefundsKnown
  <1>6. ASSUME NEW b \in Bookings, HoldElapses(b) \/ \E held \in BOOLEAN : QueryHold(b, held)
        PROVE  RefundsKnown'
    BY <1>6, RefundStays DEF HoldElapses, QueryHold, RefundsKnown
  <1>7. ASSUME NEW w \in Crashing, Crash(w) PROVE RefundsKnown'
    BY <1>7, RefundStays DEF Crash, Reliable, RefundsKnown
  <1>8. CASE UNCHANGED vars
    BY <1>8, RefundStays DEF vars, RefundsKnown
  <1> QED
    BY <1>1, <1>2, <1>3, <1>4, <1>5, <1>6, <1>7, <1>8, Steps DEF Serve

(* However many handlers work, if no two are on one booking and none crashes  *)
(* or loses an answer of Paystack, a booking is refunded at most once: the    *)
(* refund's reference that a handler commits closes every later way to it.    *)
THEOREM RefundsOnce ==
    []BookingsApart /\ Reliable(Handlers) /\ Spec => []RefundedOnce
  <1>1. BookingsApart /\ Reliable(Handlers) /\ RefundInv /\ [Next]_vars => RefundInv'
    <2>1. BookingsApart /\ RefundInv /\ [Next]_vars => ServedInv'
      BY ServedNext DEF RefundInv
    <2> QED
      BY <2>1, SessionsRefundNext, RefundsKnownNext DEF RefundInv
  <1>2. RefundInv => RefundedOnce
    BY DEF RefundInv, RefundsKnown, RefundedOnce
  <1>3. Reliable(Handlers) => []Reliable(Handlers)
    OBVIOUS
  <1> QED
    BY <1>1, <1>2, <1>3, RefundInit, PTL DEF Spec

----------------------------------------------------------------------------
(* Overtime is paid after its charge                                         *)

(* The row x waits for its overtime's payout only if the ledger l has a       *)
(* charge.                                                                    *)
WaitsCharged(l, x) == x.overrunHold # "none" => l.charges > 0

(* A run's list of overtime is of charged bookings, and so are its rows.      *)
RunCharged(l, r) ==
    r.phase # "idle" =>
        /\ \A b \in DOMAIN r.read : WaitsCharged(l[b], r.read[b])
        /\ r.phase = "overtime" => \A b \in r.todo \cup r.booking : l[b].charges > 0

RowsCharged ==
    \A b \in Bookings : /\ WaitsCharged(ledger[b], row[b])
                        /\ ledger[b].overtimes > 0 => ledger[b].charges > 0
SessionsCharged ==
    \A h \in Handlers : sess[h].phase # "idle" => WaitsCharged(ledger[sess[h].booking], sess[h].new)
RunsCharged == \A k \in Runners : RunCharged(ledger, run[k])

ChargedInv == KeptInv /\ RowsCharged /\ SessionsCharged /\ RunsCharged

(* Calls on record stay on record.                                            *)
Charges(old, new) ==
    /\ old.charges \in Nat /\ new.charges \in Nat /\ new.charges >= old.charges
    /\ old.overtimes \in Nat /\ new.overtimes \in Nat

LEMMA ChargesStay ==
    ASSUME NEW old, NEW new, Charges(old, new), NEW x, WaitsCharged(old, x)
    PROVE  WaitsCharged(new, x)
  BY DEF Charges, WaitsCharged

LEMMA LedgerTypes ==
    ASSUME LedgerTyped, NEW b \in Bookings
    PROVE  /\ ledger[b] \in Ledger /\ ledger[b].charges \in Nat /\ ledger[b].overtimes \in Nat
           /\ ledger[b].transfers \in Nat /\ ledger[b].refunds \in Nat
  BY AmountsTyped DEF LedgerTyped, Ledger

(* What one transfer adds to the ledger.                                      *)
LEMMA TransferAdds ==
    ASSUME TypeInv, NEW k \in Runners, NEW b \in Bookings, Transfer(k, b), NEW c \in Bookings
    PROVE  /\ ledger'[c].charges = ledger[c].charges
           /\ ledger'[c].overtimes = ledger[c].overtimes
              \/ (c = b /\ run[k].phase # "base" /\ ledger'[c].overtimes = ledger[c].overtimes + 1)
           /\ ledger'[c].transfers = ledger[c].transfers
              \/ (c = b /\ run[k].phase = "base" /\ ledger'[c].transfers = ledger[c].transfers + 1)
  <1> PICK o \in Outcomes :
        ledger' = IF ~o.taken THEN ledger
                  ELSE IF run[k].phase = "base"
                  THEN [ledger EXCEPT ![b].transfers = @ + 1,
                                      ![b].sent = @ + run[k].view[b].payout]
                  ELSE [ledger EXCEPT ![b].overtimes = @ + 1]
    BY TransferRuns
  <1>1. DOMAIN ledger = Bookings /\ \A a \in Bookings : ledger[a] \in Ledger
    BY DEF TypeInv, LedgerTyped
  <1>2. CASE ~o.taken
    BY <1>2
  <1>3. CASE o.taken /\ run[k].phase = "base"
    <2> PICK l : l = [ledger[b] EXCEPT !.transfers = @ + 1, !.sent = @ + run[k].view[b].payout]
      OBVIOUS
    <2>1. ledger' = [ledger EXCEPT ![b] = l]
      BY <1>1, <1>3
    <2>2. /\ l.charges = ledger[b].charges /\ l.overtimes = ledger[b].overtimes
          /\ l.transfers = ledger[b].transfers + 1
      BY <1>1 DEF Ledger
    <2> QED
      BY <1>1, <1>3, <2>1, <2>2
  <1>4. CASE o.taken /\ run[k].phase # "base"
    <2> PICK l : l = [ledger[b] EXCEPT !.overtimes = @ + 1]
      OBVIOUS
    <2>1. ledger' = [ledger EXCEPT ![b] = l]
      BY <1>1, <1>4
    <2>2. /\ l.charges = ledger[b].charges /\ l.transfers = ledger[b].transfers
          /\ l.overtimes = ledger[b].overtimes + 1
      BY <1>1 DEF Ledger
    <2> QED
      BY <1>1, <1>4, <2>1, <2>2
  <1> QED
    BY <1>2, <1>3, <1>4

LEMMA ServeAdds ==
    ASSUME TypeInv, NEW h \in Handlers, Serve(h) \/ \E a \in Bookings : Receive(h, a),
           NEW c \in Bookings
    PROVE  /\ ledger'[c].charges = ledger[c].charges \/ ledger'[c].charges = ledger[c].charges + 1
           /\ ledger'[c].overtimes = ledger[c].overtimes
           /\ ledger'[c].transfers = ledger[c].transfers
  <1>1. DOMAIN ledger = Bookings /\ \A a \in Bookings : ledger[a] \in Ledger
    BY DEF TypeInv, LedgerTyped
  <1>2. CASE UNCHANGED ledger
    BY <1>2
  <1>3. ASSUME Refund(h)
        PROVE  /\ ledger'[c].charges = ledger[c].charges
               /\ ledger'[c].overtimes = ledger[c].overtimes
               /\ ledger'[c].transfers = ledger[c].transfers
    BY <1>1, <1>3 DEF Refund, Ledger
  <1>4. ASSUME ChargeOvertime(h)
        PROVE  /\ ledger'[c].charges = ledger[c].charges \/ ledger'[c].charges = ledger[c].charges + 1
               /\ ledger'[c].overtimes = ledger[c].overtimes
               /\ ledger'[c].transfers = ledger[c].transfers
    BY <1>1, <1>4 DEF ChargeOvertime, Ledger
  <1> QED
    BY <1>2, <1>3, <1>4 DEF Serve, Commit, Receive

LEMMA ChargesNext ==
    ASSUME TypeInv, [Next]_vars, NEW c \in Bookings
    PROVE  Charges(ledger[c], ledger'[c])
  <1>0. TypeInv'
    BY TypeNext
  <1>a. /\ ledger[c].charges \in Nat /\ ledger[c].overtimes \in Nat
        /\ ledger'[c].charges \in Nat /\ ledger'[c].overtimes \in Nat
    <2>1. LedgerTyped /\ LedgerTyped'
      BY <1>0 DEF TypeInv
    <2>2. ledger'[c] \in Ledger
      BY <2>1 DEF LedgerTyped
    <2> QED
      BY <2>1, <2>2, LedgerTypes, AmountsTyped DEF Ledger
  <1>b. UNCHANGED ledger => Charges(ledger[c], ledger'[c])
    BY <1>a DEF Charges
  <1>1. ASSUME NEW h \in Handlers, Serve(h) \/ \E b \in Bookings : Receive(h, b)
        PROVE  Charges(ledger[c], ledger'[c])
    BY <1>1, <1>a, ServeAdds DEF Charges
  <1>2. ASSUME NEW k \in Runners, PayoutStep(k) PROVE Charges(ledger[c], ledger'[c])
    <2>1. ASSUME NEW b \in Bookings, Transfer(k, b) PROVE Charges(ledger[c], ledger'[c])
      BY <1>a, <2>1, TransferAdds DEF Charges
    <2> QED
      BY <1>2, <1>b, <2>1 DEF PayoutStep, PayoutRead, OvertimeRead, Record, PayoutCommit,
                              PassOver, Deduct, TakeOvertime
  <1>3. ASSUME NEW b \in Bookings, HoldElapses(b) \/ \E held \in BOOLEAN : QueryHold(b, held)
        PROVE  UNCHANGED ledger
    BY <1>3 DEF HoldElapses, QueryHold
  <1>4. ASSUME NEW w \in Crashing, Crash(w) PROVE UNCHANGED ledger
    BY <1>4 DEF Crash
  <1>5. CASE UNCHANGED vars
    BY <1>b, <1>5 DEF vars
  <1> QED
    BY <1>1, <1>2, <1>3, <1>4, <1>5, <1>b, Steps

LEMMA ChargedInit == Init => ChargedInv
  <1> SUFFICES ASSUME Init PROVE ChargedInv
    OBVIOUS
  <1>1. \A b \in Bookings : NewRow(b).overrunHold = "none"
    BY DEF NewRow
  <1>2. RowsCharged
    BY <1>1 DEF Init, RowsCharged, WaitsCharged
  <1>3. SessionsCharged /\ RunsCharged
    BY DEF Init, SessionsCharged, Idle, RunsCharged, RunCharged, NoRun
  <1> QED
    BY <1>2, <1>3, KeptInit DEF ChargedInv

LEMMA RowsChargedNext == ChargedInv /\ [Next]_vars => RowsCharged'
  <1> SUFFICES ASSUME ChargedInv, [Next]_vars, NEW b \in Bookings
               PROVE  /\ WaitsCharged(ledger'[b], row'[b])
                      /\ ledger'[b].overtimes > 0 => ledger'[b].charges > 0
    BY DEF RowsCharged
  <1>0. KeptInv /\ TypeInv /\ RunsKept
    BY DEF ChargedInv, KeptInv
  <1>1. Charges(ledger[b], ledger'[b])
    BY <1>0, ChargesNext
  <1>2. WaitsCharged(ledger[b], row'[b])
    <2>0. WaitsCharged(ledger[b], row[b]) /\ (UNCHANGED row => WaitsCharged(ledger[b], row'[b]))
      BY DEF ChargedInv, RowsCharged
    <2>1. ASSUME NEW h \in Handlers, Commit(h) PROVE WaitsCharged(ledger[b], row'[b])
      <3> PICK s : s = sess[h]
        OBVIOUS
      <3>1. /\ s.phase = "write"
            /\ row' = [row EXCEPT ![s.booking] = Flush(s.seen, s.new, s.stamped, @)]
        BY <2>1 DEF Commit
      <3>2. /\ s.booking \in Bookings /\ s.seen \in Row /\ s.new \in Row
            /\ WaitsCharged(ledger[s.booking], s.new)
            /\ row \in [Bookings -> Row]
        BY <1>0, <3>1, SessionParts
           DEF TypeInv, SessionsTyped, RowsTyped, ChargedInv, SessionsCharged
      <3>3. CASE b = s.booking
        <4>1. row[b] \in Row /\ row'[b] = Flush(s.seen, s.new, s.stamped, row[b])
          BY <3>1, <3>2, <3>3
        <4>2. "overrunHold" \in Columns
          BY ColumnNames
        <4>3. row'[b].overrunHold \in {row[b].overrunHold, s.new.overrunHold}
          BY <3>2, <4>1, <4>2, FlushColumn
        <4> QED
          BY <2>0, <3>2, <3>3, <4>3 DEF WaitsCharged
      <3>4. CASE b # s.booking
        BY <2>0, <3>1, <3>2, <3>4
      <3> QED
        BY <3>3, <3>4
    <2>2. ASSUME NEW k \in Runners, PayoutCommit(k) PROVE WaitsCharged(ledger[b], row'[b])
      <3>1. PaidOff(row[b], row'[b])
        BY <1>0, <2>2, PayoutPaysOff
      <3>2. "overrunHold" \in Columns \ RunColumns
        BY ColumnNames DEF RunColumns
      <3>3. row'[b].overrunHold = row[b].overrunHold
        BY <3>1, <3>2 DEF PaidOff
      <3> QED
        BY <2>0, <3>3 DEF WaitsCharged
    <2>3. ASSUME NEW a \in Bookings, HoldElapses(a) \/ \E held \in BOOLEAN : QueryHold(a, held)
          PROVE  WaitsCharged(ledger[b], row'[b])
      BY <1>0, <2>0, <2>3, OutsideRecords DEF WaitsCharged
    <2>4. ASSUME NEW h \in Handlers, \/ Refund(h) \/ ChargeOvertime(h)
                                     \/ \E a \in Bookings : Receive(h, a)
          PROVE  UNCHANGED row
      BY <2>4 DEF Refund, ChargeOvertime, Receive
    <2>5. ASSUME NEW k \in Runners, PayoutStep(k), ~PayoutCommit(k) PROVE UNCHANGED row
      BY <2>5 DEF PayoutStep, PayoutRead, OvertimeRead, Record, PassOver, Deduct, TakeOvertime,
                  Transfer
    <2>6. ASSUME NEW w \in Crashing, Crash(w) PROVE UNCHANGED row
      BY <2>6 DEF Crash
    <2>7. UNCHANGED vars => UNCHANGED row
      BY DEF vars
    <2>8. ASSUME NEW k \in Runners, PayoutStep(k) PROVE WaitsCharged(ledger[b], row'[b])
      BY <2>0, <2>2, <2>5, <2>8
    <2>9. ASSUME NEW h \in Handlers, Serve(h) \/ \E a \in Bookings : Receive(h, a)
          PROVE  WaitsCharged(ledger[b], row'[b])
      BY <2>0, <2>1, <2>4, <2>9 DEF Serve
    <2> QED
      BY <2>0, <2>3, <2>6, <2>7, <2>8, <2>9, Steps
  <1>3. ledger'[b].overtimes > 0 => ledger'[b].charges > 0
    <2>1. CASE ledger'[b].overtimes = ledger[b].overtimes
      BY <1>1, <2>1 DEF ChargedInv, RowsCharged, Charges
    <2>2. ASSUME NEW k \in Runners, NEW c \in Bookings, Transfer(k, c)
          PROVE  ledger'[b].overtimes > 0 => ledger'[b].charges > 0
      <3>1. CASE c = b /\ run[k].phase # "base"
        <4>1. run[k].phase = "overtime" /\ b \in run[k].booking
          BY <1>0, <2>2, <3>1, TransferRuns, RunParts DEF TypeInv, RunsTyped
        <4>2. ledger[b].charges > 0
          BY <4>1 DEF ChargedInv, RunsCharged, RunCharged
        <4> QED
          BY <1>1, <4>2 DEF Charges
      <3>2. CASE ~(c = b /\ run[k].phase # "base")
        BY <1>0, <2>1, <2>2, <3>2, TransferAdds
      <3> QED
        BY <3>1, <3>2
    <2>3. ASSUME NEW h \in Handlers, Serve(h) \/ \E a \in Bookings : Receive(h, a)
          PROVE  ledger'[b].overtimes = ledger[b].overtimes
      BY <1>0, <2>3, ServeAdds
    <2>4. ASSUME NEW a \in Bookings, HoldElapses(a) \/ \E held \in BOOLEAN : QueryHold(a, held)
          PROVE  ledger'[b].overtimes = ledger[b].overtimes
      BY <2>4 DEF HoldElapses, QueryHold
    <2>5. ASSUME NEW k \in Runners, PayoutStep(k)
          PROVE  \/ \E c \in Bookings : Transfer(k, c)
                 \/ ledger'[b].overtimes = ledger[b].overtimes
      BY <2>5 DEF PayoutStep, PayoutRead, OvertimeRead, Record, PassOver, Deduct, TakeOvertime,
                  PayoutCommit
    <2>6. ASSUME NEW w \in Crashing, Crash(w) PROVE ledger'[b].overtimes = ledger[b].overtimes
      BY <2>6 DEF Crash
    <2>7. UNCHANGED vars => ledger'[b].overtimes = ledger[b].overtimes
      BY DEF vars
    <2> QED
      BY <2>1, <2>2, <2>3, <2>4, <2>5, <2>6, <2>7, Steps
  <1> QED
    BY <1>1, <1>2, <1>3, ChargesStay

LEMMA SessionsChargedNext == ChargedInv /\ [Next]_vars => SessionsCharged'
  <1> SUFFICES ASSUME ChargedInv, [Next]_vars PROVE SessionsCharged'
    OBVIOUS
  <1> DEFINE Fine(s) == s.phase # "idle" => WaitsCharged(ledger'[s.booking], s.new)
  <1>0. /\ TypeInv /\ SessionsTyped /\ DOMAIN sess = Handlers
        /\ \A h \in Handlers : SessionFits(sess[h])
        /\ row \in [Bookings -> Row] /\ DOMAIN ledger = Bookings
    BY DEF ChargedInv, KeptInv, TypeInv, SessionsTyped, RowsTyped, LedgerTyped
  <1>a. \A c \in Bookings : Charges(ledger[c], ledger'[c])
    BY <1>0, ChargesNext
  <1>b. ASSUME NEW h \in Handlers PROVE Fine(sess[h])
    <2>1. CASE sess[h].phase # "idle"
      <3>1. sess[h].booking \in Bookings
        BY <1>0, <2>1, SessionParts
      <3>2. WaitsCharged(ledger[sess[h].booking], sess[h].new)
        BY <2>1 DEF ChargedInv, SessionsCharged
      <3> QED
        BY <1>a, <3>1, <3>2, ChargesStay
    <2> QED
      BY <2>1
  <1>c. Fine(Idle)
    BY DEF Idle
  <1>d. ASSUME NEW h \in Handlers, NEW s, sess' = [sess EXCEPT ![h] = s], Fine(s)
        PROVE  SessionsCharged'
    BY <1>0, <1>b, <1>d DEF SessionsCharged
  <1>e. UNCHANGED sess => SessionsCharged'
    BY <1>b DEF SessionsCharged
  <1> HIDE DEF Fine
  <1>1. ASSUME NEW h \in Handlers, NEW b \in Bookings, Receive(h, b) PROVE SessionsCharged'
    <2> PICK phase, new, stamped, keep :
          Handles(b, row[b], phase, new, stamped, keep) /\ Work(h, b, phase, new, stamped, keep)
      BY <1>0, <1>1, ReceiveHandles DEF Starts
    <2> PICK s : s = [phase |-> phase, booking |-> b, seen |-> row[b], new |-> new,
                      stamped |-> stamped, keep |-> keep]
      OBVIOUS
    <2>1. sess' = [sess EXCEPT ![h] = s]
      BY DEF Work
    <2>2. new.overrunHold = row[b].overrunHold
      BY DEF Handles, KeepsRecords, Records
    <2>3. WaitsCharged(ledger[b], row[b])
      BY DEF ChargedInv, RowsCharged
    <2>4. Fine(s)
      BY <1>a, <2>2, <2>3 DEF Fine, WaitsCharged, Charges
    <2> QED
      BY <1>d, <2>1, <2>4
  <1>2. ASSUME NEW h \in Handlers, Refund(h) PROVE SessionsCharged'
    <2> PICK s : s = sess[h]
      OBVIOUS
    <2> PICK o \in Outcomes :
          sess' = [sess EXCEPT ![h] = Answered(s, Refunds(s.new, o.taken, Succeeded(o)))]
      BY <1>0, <1>2, RefundAnswers
    <2> PICK y : y = Refunds(s.new, o.taken, Succeeded(o))
      OBVIOUS
    <2> PICK a : a = Answered(s, y)
      OBVIOUS
    <2>1. /\ s.phase = "refund" /\ s.new \in Row /\ Succeeded(o) \in BOOLEAN
          /\ s.booking \in Bookings /\ SessionFits(s) /\ Fine(s)
      BY <1>0, <1>2, <1>b, SessionParts DEF Refund, Outcomes, Succeeded
    <2>2. /\ y \in Row /\ \A c \in Apart : y[c] = s.new[c]
          /\ y.overrunHold = s.new.overrunHold
      BY <2>1, RefundsFit
    <2>3. a.new = Finalized(s.booking, y) /\ a.phase = "write" /\ a.booking = s.booking
      BY <2>1, <2>2, AnsweredFits
    <2>4. a.new.overrunHold = y.overrunHold
      BY <2>1, <2>2, <2>3, FinalizedServes DEF KeepsRecords, Records
    <2>5. Fine(a)
      BY <2>1, <2>2, <2>3, <2>4 DEF Fine, WaitsCharged
    <2> QED
      BY <1>d, <2>5
  <1>3. ASSUME NEW h \in Handlers, ChargeOvertime(h) PROVE SessionsCharged'
    <2> PICK s : s = sess[h]
      OBVIOUS
    <2> PICK a : a = Charged(s)
      OBVIOUS
    <2> PICK o \in Outcomes :
          /\ sess' = [sess EXCEPT ![h] = IF Succeeded(o) /\ s.booking \notin Requested
                                         THEN a ELSE Idle]
          /\ ledger' = IF o.taken THEN [ledger EXCEPT ![s.booking].charges = @ + 1]
                       ELSE ledger
      BY <1>0, <1>3, ChargeAnswers
    <2>1. s.phase = "charge" /\ SessionFits(s) /\ s.booking \in Bookings
      BY <1>0, <1>3, SessionParts DEF ChargeOvertime
    <2>2. a.booking = s.booking
      BY <2>1, ChargedFits
    <2>3. Succeeded(o) => ledger'[s.booking].charges > 0
      <3>1. ledger[s.booking] \in Ledger /\ ledger[s.booking].charges \in Nat
        BY <1>0, <2>1, LedgerTypes DEF TypeInv
      <3> QED
        BY <1>0, <2>1, <3>1 DEF Succeeded, Ledger
    <2>4. Succeeded(o) => Fine(a)
      BY <2>2, <2>3 DEF Fine, WaitsCharged
    <2> QED
      BY <1>c, <1>d, <2>4
  <1>4. ASSUME NEW h \in Handlers, Commit(h) PROVE SessionsCharged'
    BY <1>4, <1>c, <1>d DEF Commit
  <1>5. ASSUME NEW k \in Runners, PayoutStep(k) PROVE SessionsCharged'
    BY <1>e, <1>5 DEF PayoutStep, PayoutRead, OvertimeRead, Record, PayoutCommit, PassOver,
                      Deduct, TakeOvertime, Transfer
  <1>6. ASSUME NEW b \in Bookings, HoldElapses(b) \/ \E held \in BOOLEAN : QueryHold(b, held)
        PROVE  SessionsCharged'
    BY <1>e, <1>6 DEF HoldElapses, QueryHold
  <1>7. ASSUME NEW w \in Crashing, Crash(w) PROVE SessionsCharged'
    BY <1>7, <1>c, <1>d, <1>e DEF Crash
  <1>8. CASE UNCHANGED vars
    BY <1>e, <1>8 DEF vars
  <1> QED
    BY <1>1, <1>2, <1>3, <1>4, <1>5, <1>6, <1>7, <1>8, Steps DEF Serve

(* What a run may take up: the rows due and those it had.                     *)
LEMMA StepTakes ==
    ASSUME TypeInv, NEW k \in Runners, PayoutStep(k), run'[k].phase = "overtime",
           NEW b \in run'[k].todo \cup run'[k].booking
    PROVE  \/ b \in Bookings /\ OvertimeDue(row[b])
           \/ run[k].phase = "overtime" /\ b \in run[k].todo \cup run[k].booking
           \/ run[k].phase = "base" /\ run[k].step = "next" /\ b \in run[k].booking
  <1> PICK r : r = run[k]
    OBVIOUS
  <1>0. RunFits(r) /\ DOMAIN run = Runners
    BY DEF TypeInv, RunsTyped
  <1> DEFINE Goal == \/ b \in Bookings /\ OvertimeDue(row[b])
                     \/ r.phase = "overtime" /\ b \in r.todo \cup r.booking
                     \/ r.phase = "base" /\ r.step = "next" /\ b \in r.booking
  <1>1. ASSUME PayoutRead(k) PROVE FALSE
    <2> PICK due : due = {a \in Bookings : Due(row[a])}
      OBVIOUS
    <2>1. run'[k] = ReadRun(due)
      BY <1>0, <1>1, PayoutReadRun
    <2> QED
      BY <2>1 DEF ReadRun
  <1>2. ASSUME OvertimeRead(k) PROVE Goal
    <2> PICK due : due = {a \in Bookings : OvertimeDue(row[a])}
      OBVIOUS
    <2>1. r.phase = "base" /\ r.step = "next" /\ run'[k] = OvertimeRun(r, due)
      BY <1>0, <1>2, OvertimeReadRun DEF TypeInv
    <2>2. run'[k].todo = due /\ run'[k].booking = r.booking
      BY <1>0, <2>1, RunParts DEF OvertimeRun, Run
    <2> QED
      BY <2>1, <2>2
  <1>3. ASSUME NEW c \in Bookings, PassOver(k, c) \/ TakeOvertime(k, c) PROVE Goal
    BY <1>0, <1>3, RunParts DEF PassOver, TakeOvertime, Run
  <1>4. ASSUME NEW c \in Bookings, Deduct(k, c) PROVE FALSE
    <2>1. r.phase = "base"
      BY <1>4, DeductRuns
    <2> PICK x, balance : run' = [run EXCEPT ![k] = DeductRun(r, c, x, balance)]
      BY <1>4, DeductRuns
    <2> QED
      BY <1>0, <2>1, RunParts DEF DeductRun, Run
  <1>5. ASSUME NEW c \in Bookings, Transfer(k, c) PROVE Goal
    <2> PICK o \in Outcomes :
          run' = [run EXCEPT ![k] = IF Succeeded(o) THEN Transferred(k, c) ELSE RolledBack(k, c)]
      BY <1>5, TransferRuns
    <2>1. /\ r.phase # "idle" /\ r.step = "send"
          /\ run'[k] = Transferred(k, c) \/ run'[k] = RolledBack(k, c)
      BY <1>0, <1>5, TransferRuns
    <2>2. Sent(Transferred(k, c), r, c, Deducts(k, c)) /\ Unsent(RolledBack(k, c), r, c)
      BY <2>1, TransferParts DEF TypeInv
    <2>3. /\ run'[k].phase = r.phase /\ run'[k].todo = r.todo
          /\ run'[k].booking \in {r.booking, {}}
      BY <2>1, <2>2 DEF Sent, Unsent
    <2> QED
      BY <2>3
  <1>6. ASSUME Record(k) PROVE Goal
    <2>1. r.phase # "idle" /\ run'[k] = RecordRun(r)
      BY <1>0, <1>6, RecordRuns DEF TypeInv
    <2> QED
      BY <1>0, <2>1, RunParts DEF RecordRun, Run
  <1>7. ~PayoutCommit(k)
    BY <1>0 DEF PayoutCommit, NoRun
  <1> HIDE DEF Goal
  <1>8. Goal
    BY <1>1, <1>2, <1>3, <1>4, <1>5, <1>6, <1>7 DEF PayoutStep
  <1> QED
    BY <1>8 DEF Goal

LEMMA RunsChargedNext == ChargedInv /\ [Next]_vars => RunsCharged'
  <1> SUFFICES ASSUME ChargedInv, [Next]_vars, NEW k \in Runners
               PROVE  RunCharged(ledger', run'[k])
    BY DEF RunsCharged
  <1>0. TypeInv /\ RunFits(run[k]) /\ RunKept(run[k]) /\ RunCharged(ledger, run[k])
    BY DEF ChargedInv, KeptInv, TypeInv, RunsTyped, RunsKept, RunsCharged
  <1>a. \A c \in Bookings : Charges(ledger[c], ledger'[c])
    BY <1>0, ChargesNext
  <1>b. run[k].phase # "idle" => /\ DOMAIN run[k].read \subseteq Bookings
                                 /\ run[k].todo \cup run[k].booking \subseteq Bookings
    BY <1>0, RunParts
  <1>1. CASE run'[k] = NoRun \/ run'[k].phase = "idle"
    BY <1>1 DEF RunCharged, NoRun
  <1>2. CASE run'[k] = run[k]
    BY <1>0, <1>2, <1>a, <1>b, ChargesStay DEF RunCharged, Charges
  <1>3. CASE PayoutStep(k) /\ run'[k].phase # "idle"
    <2>1. \A b \in DOMAIN run'[k].read :
             b \in Bookings /\ WaitsCharged(ledger[b], run'[k].read[b])
      BY <1>0, <1>3, StepReads DEF ChargedInv, RowsCharged, RunCharged
    <2>2. ASSUME run'[k].phase = "overtime", NEW b \in run'[k].todo \cup run'[k].booking
          PROVE  b \in Bookings /\ ledger[b].charges > 0
      <3>1. \/ b \in Bookings /\ OvertimeDue(row[b])
            \/ run[k].phase = "overtime" /\ b \in run[k].todo \cup run[k].booking
        BY <1>0, <1>3, <2>2, StepTakes DEF RunKept
      <3> QED
        BY <1>0, <1>b, <3>1 DEF ChargedInv, RowsCharged, WaitsCharged, OvertimeDue, RunCharged
    <2> QED
      BY <1>a, <2>1, <2>2, ChargesStay DEF RunCharged, Charges
  <1> QED
    BY <1>0, <1>1, <1>2, <1>3, RunChanges

LEMMA ChargedInvariance == Spec => []ChargedInv
  <1>1. ChargedInv /\ [Next]_vars => ChargedInv'
    BY KeptNext, RowsChargedNext, SessionsChargedNext, RunsChargedNext DEF ChargedInv
  <1> QED
    BY <1>1, ChargedInit, PTL DEF Spec

----------------------------------------------------------------------------
(* Payout runs that do not overlap                                           *)

(* No two payout runs are at work.                                            *)
RunsApart ==
    \A j, k \in Runners : run[j].phase # "idle" /\ run[k].phase # "idle" => j = k

(* What the run has read of a booking's records is what is committed.         *)
ReadsCurrent(r) ==
    r.phase # "idle" => \A b \in DOMAIN r.read : b \in Bookings /\ Recorded(r.read[b], row[b])

RunsCurrent == \A k \in Runners : ReadsCurrent(run[k])

LEMMA RunsCurrentNext ==
    ASSUME RunsApart, KeptInv, RunsCurrent, [Next]_vars
    PROVE  RunsCurrent'
  <1> SUFFICES ASSUME NEW k \in Runners, run'[k].phase # "idle",
                      NEW b \in DOMAIN run'[k].read
               PROVE  b \in Bookings /\ Recorded(run'[k].read[b], row'[b])
    BY DEF RunsCurrent, ReadsCurrent
  <1>0. TypeInv /\ ReadsCurrent(run[k]) /\ DOMAIN run = Runners
    BY DEF KeptInv, RunsCurrent, TypeInv, RunsTyped
  <1>1. CASE PayoutStep(k)
    <2>1. /\ UNCHANGED row /\ b \in Bookings
          /\ \/ run'[k].read[b] = row[b]
             \/ /\ run[k].phase # "idle" /\ b \in DOMAIN run[k].read
                /\ run'[k].read[b] = run[k].read[b]
      BY <1>0, <1>1, StepReads
    <2> QED
      BY <1>0, <2>1 DEF ReadsCurrent, Recorded
  <1>2. CASE run'[k] = run[k]
    <2>1. \A j \in Runners : ~PayoutCommit(j)
      BY <1>0, <1>2 DEF RunsApart, PayoutCommit, NoRun
    <2>2. b \in Bookings /\ Recorded(run[k].read[b], row[b])
      BY <1>0, <1>2 DEF ReadsCurrent
    <2>3. Recorded(row[b], row'[b])
      BY <1>0, <2>1, <2>2, RecordsNext
    <2> QED
      BY <1>2, <2>2, <2>3 DEF Recorded
  <1> QED
    BY <1>0, <1>1, <1>2, RunChanges DEF NoRun

(* A step of a run forgets no transfer it has noted.                          *)
LEMMA StepNotes ==
    ASSUME KeptInv, NEW k \in Runners, PayoutStep(k), run[k].phase # "idle", ~PayoutCommit(k),
           NEW b \in TakenBy(run[k])
    PROVE  /\ run'[k].phase # "idle" /\ b \in TakenBy(run'[k])
           /\ b \in DOMAIN run[k].read /\ run'[k].read[b] = run[k].read[b]
           /\ run'[k].view[b] = run[k].view[b]
              \/ \E c \in Bookings : Transfer(k, c) /\ CopyKept(run[k].view[b], run'[k].view[b])
  <1> PICK r : r = run[k]
    OBVIOUS
  <1> PICK a : a = run'[k]
    OBVIOUS
  <1> DEFINE Goal == /\ a.phase # "idle" /\ b \in TakenBy(a)
                     /\ a.read[b] = r.read[b]
                     /\ a.view[b] = r.view[b]
                        \/ \E c \in Bookings : Transfer(k, c) /\ CopyKept(r.view[b], a.view[b])
  <1>0. /\ TypeInv /\ RunFits(r) /\ RunKept(r) /\ DOMAIN run = Runners
        /\ r.phase # "idle" /\ b \in TakenBy(r)
    BY DEF KeptInv, TypeInv, RunsTyped, RunsKept
  <1>a. /\ DOMAIN r.view = DOMAIN r.read /\ b \in DOMAIN r.read /\ r \in Run
        /\ r.phase \in {"base", "overtime"}
    BY <1>0, RunParts DEF TakenBy
  <1>1. ASSUME PayoutRead(k) PROVE FALSE
    <2>1. r = NoRun
      BY <1>1, PayoutReadRun
    <2> QED
      BY <1>0, <2>1 DEF NoRun
  <1>2. ASSUME OvertimeRead(k) PROVE Goal
    <2> PICK due : due = {c \in Bookings : OvertimeDue(row[c])}
      OBVIOUS
    <2>1. r.phase = "base" /\ r.step = "next" /\ a = OvertimeRun(r, due)
      BY <1>0, <1>2, OvertimeReadRun DEF TypeInv
    <2>2. /\ a.phase = "overtime" /\ a.step = "next" /\ a.written = r.written
          /\ a.read = Known(r.read, due) /\ a.view = Known(r.view, due)
      BY <1>a, <2>1 DEF OvertimeRun, Run
    <2> QED
      BY <1>0, <1>a, <2>1, <2>2 DEF Known, TakenBy
  <1>3. ASSUME NEW c \in Bookings, PassOver(k, c) \/ TakeOvertime(k, c) PROVE Goal
    <2>1. /\ a.phase = r.phase /\ a.step \in {"next", "send"} /\ a.written = r.written
          /\ a.read = r.read /\ a.view = r.view /\ r.step = "next"
      BY <1>0, <1>3, <1>a DEF PassOver, TakeOvertime, Run
    <2> QED
      BY <1>0, <2>1 DEF TakenBy
  <1>4. ASSUME NEW c \in Bookings, Deduct(k, c) PROVE Goal
    <2>1. r.phase = "base" /\ r.step = "next" /\ c \in r.todo
      BY <1>0, <1>4, DeductRuns
    <2> PICK x, balance : run' = [run EXCEPT ![k] = DeductRun(r, c, x, balance)]
      BY <1>0, <1>4, DeductRuns
    <2>2. /\ a.phase = r.phase /\ a.step = "send" /\ a.written = r.written
          /\ a.read = r.read /\ a.view = [r.view EXCEPT ![c] = x]
      BY <1>0, <1>a DEF DeductRun, Run
    <2>3. b \in r.written /\ b # c
      BY <1>0, <2>1 DEF TakenBy, RunKept, OpenTo
    <2> QED
      BY <1>0, <1>a, <2>2, <2>3 DEF TakenBy
  <1>5. ASSUME NEW c \in Bookings, Transfer(k, c) PROVE Goal
    <2> PICK o \in Outcomes :
          run' = [run EXCEPT ![k] = IF Succeeded(o) THEN Transferred(k, c) ELSE RolledBack(k, c)]
      BY <1>5, TransferRuns
    <2>1. /\ r.step = "send" /\ c \in r.booking
          /\ a = Transferred(k, c) \/ a = RolledBack(k, c)
      BY <1>0, <1>5, TransferRuns
    <2>2. b \in r.written
      BY <1>0, <2>1 DEF TakenBy
    <2>3. Sent(Transferred(k, c), r, c, Deducts(k, c)) /\ Unsent(RolledBack(k, c), r, c)
      BY <1>0, <2>1, TransferParts DEF TypeInv
    <2>4. /\ a.phase = r.phase /\ a.read = r.read /\ r.written \subseteq a.written
      BY ZenonT(30), <2>1, <2>3 DEF Sent, Unsent
    <2>a. c \in DOMAIN r.view
      BY <1>0, <1>a, <2>1, RunParts
    <2>b. \/ a.view = [r.view EXCEPT ![c] = IF r.phase = "base"
                                           THEN [@ EXCEPT !.released = TRUE]
                                           ELSE [@ EXCEPT !.overrunReleased = TRUE]]
          \/ a.view = [r.view EXCEPT ![c] = IF r.phase = "base" THEN r.read[c] ELSE @]
      BY <2>1, <2>3 DEF Sent, Unsent
    <2>5. CopyKept(r.view[b], a.view[b])
      <3>1. CASE b # c
        <4>1. a.view[b] = r.view[b]
          BY <1>a, <2>b, <3>1
        <4> QED
          BY <4>1, CopySame
      <3>2. CASE b = c
        <4>1. r.phase = "overtime"
          BY <1>0, <1>a, <2>1, <2>2, <3>2 DEF RunKept, OpenTo
        <4>2. a.view[b] = r.view[b] \/ a.view[b] = [r.view[b] EXCEPT !.overrunReleased = TRUE]
          <5>1. r.phase # "base"
            BY <4>1
          <5>2. \/ a.view[c] = IF r.phase = "base"
                               THEN [r.view[c] EXCEPT !.released = TRUE]
                               ELSE [r.view[c] EXCEPT !.overrunReleased = TRUE]
                \/ a.view[c] = IF r.phase = "base" THEN r.read[c] ELSE r.view[c]
            BY <2>a, <2>b
          <5> QED
            BY <3>2, <5>1, <5>2
        <4>3. r.view[b] \in Row
          BY <1>0, <1>a, RunParts
        <4>4. CopyKept(r.view[b], [r.view[b] EXCEPT !.overrunReleased = TRUE])
          BY <4>3, RowColumns, ColumnNames DEF CopyKept, RunColumns
        <4> QED
          BY <4>2, <4>4, CopySame
      <3> QED
        BY <3>1, <3>2
    <2> QED
      BY <1>5, <1>0, <2>2, <2>4, <2>5 DEF TakenBy
  <1>6. ASSUME Record(k) PROVE Goal
    <2>1. r.step = "record" /\ a = RecordRun(r)
      BY <1>0, <1>6, RecordRuns DEF TypeInv
    <2>2. /\ a.phase = r.phase /\ a.written = r.written \cup r.booking
          /\ a.read = r.read /\ a.view = r.view
      BY <1>a, <2>1 DEF RecordRun, Run
    <2> QED
      BY <1>0, <2>1, <2>2 DEF TakenBy
  <1> HIDE DEF Goal
  <1>7. Goal
    BY <1>1, <1>2, <1>3, <1>4, <1>5, <1>6 DEF PayoutStep
  <1> QED
    BY <1>a, <1>7 DEF Goal

(* What a run commits of a booking's records is what its copy says.           *)
LEMMA CommitNotes ==
    ASSUME KeptInv, RunsCurrent, NEW k \in Runners, PayoutCommit(k), NEW b \in run[k].written
    PROVE  b \in Bookings /\ Recorded(run[k].view[b], row'[b])
  <1> PICK r : r = run[k]
    OBVIOUS
  <1>1. /\ r.phase = "overtime"
        /\ row' = [c \in Bookings |-> IF c \in r.written
                                      THEN Flush(r.read[c], r.view[c], {}, row[c]) ELSE row[c]]
    BY DEF PayoutCommit
  <1> PICK x, y : x = r.read[b] /\ y = r.view[b]
    OBVIOUS
  <1>2. b \in DOMAIN r.read /\ b \in Bookings /\ x \in Row /\ y \in Row /\ row[b] \in Row
    BY <1>1, RunParts DEF KeptInv, TypeInv, RunsTyped, RowsTyped
  <1>3. Recorded(x, row[b])
    BY <1>1, <1>2 DEF RunsCurrent, ReadsCurrent
  <1>4. row'[b] = Flush(x, y, {}, row[b])
    BY <1>1, <1>2
  <1>5. \A c \in Columns : row'[b][c] = IF y[c] = x[c] THEN row[b][c] ELSE y[c]
    BY <1>2, <1>4, FlushColumn
  <1>6. RunColumns \subseteq Columns
    BY ColumnNames DEF RunColumns
  <1> QED
    BY <1>2, <1>3, <1>5, <1>6 DEF Recorded

----------------------------------------------------------------------------
(* One transfer                                                              *)

(* The transfer that sets the mark m of b is on record, or in a run that will *)
(* commit it.                                                                 *)
Noted(b, m) ==
    \/ row[b][m]
    \/ \E k \in Runners : run[k].phase # "idle" /\ b \in TakenBy(run[k]) /\ run[k].view[b][m]

OnceNoted ==
    \A b \in Bookings :
        /\ ledger[b].transfers = 0 \/ (ledger[b].transfers = 1 /\ Noted(b, "released"))
        /\ ledger[b].overtimes = 0 \/ (ledger[b].overtimes = 1 /\ Noted(b, "overrunReleased"))

OnceInv == KeptInv /\ RunsCurrent /\ OnceNoted

LEMMA OnceInit == Init => OnceInv
  <1> SUFFICES ASSUME Init PROVE OnceInv
    OBVIOUS
  <1>1. RunsCurrent /\ OnceNoted
    BY DEF Init, RunsCurrent, ReadsCurrent, NoRun, OnceNoted
  <1> QED
    BY <1>1, KeptInit DEF OnceInv

LEMMA NotedStays ==
    ASSUME Reliable(Runners), KeptInv, RunsCurrent, [Next]_vars, NEW b \in Bookings,
           NEW m \in Marks, Noted(b, m)
    PROVE  Noted(b, m)'
  <1>0. TypeInv /\ RunsKept /\ DOMAIN run = Runners
    BY DEF KeptInv, TypeInv, RunsTyped
  <1>1. CASE row[b][m]
    BY <1>0, <1>1, MarksGrow DEF Noted, Marks
  <1>2. ASSUME NEW k \in Runners, run[k].phase # "idle", b \in TakenBy(run[k]), run[k].view[b][m]
        PROVE  Noted(b, m)'
    <2>1. CASE run'[k] = run[k]
      BY <1>2, <2>1 DEF Noted
    <2>2. CASE PayoutCommit(k)
      <3>1. b \in run[k].written
        BY <1>2, <2>2 DEF PayoutCommit, TakenBy
      <3>2. row'[b][m] = run[k].view[b][m]
        BY <2>2, <3>1, CommitNotes DEF Recorded, RunColumns, Marks
      <3> QED
        BY <1>2, <3>2 DEF Noted
    <2>3. CASE PayoutStep(k) /\ ~PayoutCommit(k)
      <3>1. run'[k].phase # "idle" /\ b \in TakenBy(run'[k])
        BY <1>2, <2>3, StepNotes
      <3>2. run'[k].view[b] = run[k].view[b] \/ CopyKept(run[k].view[b], run'[k].view[b])
        BY <1>2, <2>3, StepNotes
      <3>3. run'[k].view[b][m]
        BY <1>2, <3>2 DEF CopyKept, Marks
      <3> QED
        BY <3>1, <3>3 DEF Noted
    <2>4. ASSUME NEW w \in Crashing, Crash(w) PROVE run'[k] = run[k]
      BY <2>4 DEF Crash, Reliable
    <2>5. run'[k] = run[k] \/ PayoutStep(k)
      <3>1. ASSUME NEW h \in Handlers, Serve(h) \/ \E c \in Bookings : Receive(h, c)
            PROVE  run'[k] = run[k]
        BY <3>1 DEF Serve, Refund, ChargeOvertime, Commit, Receive
      <3>2. ASSUME NEW j \in Runners, PayoutStep(j), j # k PROVE run'[k] = run[k]
        BY ZenonT(30), <1>0, <3>2 DEF PayoutStep, PayoutRead, OvertimeRead, Record, PayoutCommit, PassOver,
                          Deduct, TakeOvertime, Transfer
      <3>3. ASSUME NEW c \in Bookings,
                   HoldElapses(c) \/ \E held \in BOOLEAN : QueryHold(c, held)
            PROVE  run'[k] = run[k]
        BY <3>3 DEF HoldElapses, QueryHold
      <3>4. UNCHANGED vars => run'[k] = run[k]
        BY DEF vars
      <3> QED
        BY <2>4, <3>1, <3>2, <3>3, <3>4, Steps
    <2> QED
      BY <2>1, <2>2, <2>3, <2>5
  <1> QED
    BY <1>1, <1>2 DEF Noted

(* A run transfers only what has not been transferred, and notes it.         *)
LEMMA TransferNotes ==
    ASSUME RunsApart, Reliable(Runners), KeptInv, RunsCurrent,
           NEW k \in Runners, NEW b \in Bookings, Transfer(k, b), NEW m,
           m = IF run[k].phase = "base" THEN "released" ELSE "overrunReleased"
    PROVE  /\ ~Noted(b, m)
           /\ UNCHANGED ledger \/ Noted(b, m)'
  <1> PICK r : r = run[k]
    OBVIOUS
  <1> PICK o \in Outcomes :
        /\ ledger' = IF ~o.taken THEN ledger
                     ELSE IF run[k].phase = "base"
                     THEN [ledger EXCEPT ![b].transfers = @ + 1,
                                         ![b].sent = @ + run[k].view[b].payout]
                     ELSE [ledger EXCEPT ![b].overtimes = @ + 1]
        /\ run' = [run EXCEPT ![k] = IF Succeeded(o) THEN Transferred(k, b) ELSE RolledBack(k, b)]
    BY TransferRuns
  <1>1. /\ r.phase # "idle" /\ r.step = "send" /\ b \in r.booking
        /\ TypeInv /\ RunFits(r) /\ RunKept(r) /\ DOMAIN run = Runners
    BY TransferRuns DEF KeptInv, TypeInv, RunsTyped, RunsKept
  <1>2. /\ b \in DOMAIN r.read /\ DOMAIN r.view = DOMAIN r.read /\ r.view[b] \in Row
        /\ r.phase \in {"base", "overtime"}
    BY <1>1, RunParts
  <1>3. b \in OpenTo(r) /\ TakenBy(r) = r.written
    BY <1>1 DEF OpenTo, TakenBy
  <1>4. Recorded(r.read[b], row[b]) /\ CopyKept(r.read[b], r.view[b])
    BY <1>1, <1>2 DEF RunsCurrent, ReadsCurrent, RunKept
  <1>5. ~row[b][m] /\ (b \in TakenBy(r) => ~r.view[b][m])
    <2>1. CASE r.phase = "base"
      BY <1>1, <1>3, <1>4, <2>1 DEF RunKept, Recorded, RunColumns
    <2>2. CASE r.phase = "overtime"
      BY <1>1, <1>3, <1>4, <2>2 DEF RunKept, Recorded, RunColumns, CopyKept
    <2> QED
      BY <1>2, <2>1, <2>2
  <1>6. \A j \in Runners : run[j].phase # "idle" => j = k
    BY <1>1 DEF RunsApart
  <1>7. ~Noted(b, m)
    BY <1>5, <1>6 DEF Noted
  <1>8. ASSUME o.taken PROVE Noted(b, m)'
    <2>1. Succeeded(o)
      BY <1>8, NothingLost DEF Reliable
    <2> PICK a : a = Transferred(k, b)
      OBVIOUS
    <2>2. Sent(a, r, b, Deducts(k, b)) /\ run'[k] = a
      BY <1>1, <2>1, TransferParts DEF TypeInv
    <2>3. a.phase # "idle" /\ b \in TakenBy(a)
      BY <1>1, <2>2 DEF Sent, TakenBy
    <2>4. a.view[b][m]
      <3>1. a.view[b] = IF r.phase = "base" THEN [r.view[b] EXCEPT !.released = TRUE]
                        ELSE [r.view[b] EXCEPT !.overrunReleased = TRUE]
        BY <1>2, <2>2 DEF Sent
      <3>2. DOMAIN r.view[b] = Columns
        BY <1>2, RowColumns
      <3> QED
        BY <3>1, <3>2, ColumnNames
    <2> QED
      BY <2>2, <2>3, <2>4 DEF Noted
  <1> QED
    BY <1>7, <1>8

LEMMA OnceNext ==
    RunsApart /\ Reliable(Runners) /\ OnceInv /\ [Next]_vars => OnceInv'
  <1> SUFFICES ASSUME RunsApart, Reliable(Runners), OnceInv, [Next]_vars PROVE OnceInv'
    OBVIOUS
  <1>0. KeptInv /\ TypeInv /\ RunsCurrent /\ OnceNoted
    BY DEF OnceInv, KeptInv
  <1>1. KeptInv' /\ RunsCurrent'
    BY <1>0, KeptNext, RunsCurrentNext
  <1>2. ASSUME NEW b \in Bookings
        PROVE  /\ Noted(b, "released") => Noted(b, "released")'
               /\ Noted(b, "overrunReleased") => Noted(b, "overrunReleased")'
    BY <1>0, NotedStays DEF Marks
  <1> DEFINE Fine(b) ==
        /\ ledger'[b].transfers = 0 \/ (ledger'[b].transfers = 1 /\ Noted(b, "released")')
        /\ ledger'[b].overtimes = 0 \/ (ledger'[b].overtimes = 1 /\ Noted(b, "overrunReleased")')
  <1>3. ASSUME NEW b \in Bookings,
               ledger'[b].transfers = ledger[b].transfers,
               ledger'[b].overtimes = ledger[b].overtimes
        PROVE  Fine(b)
    BY <1>0, <1>2, <1>3 DEF OnceNoted
  <1>4. ASSUME NEW k \in Runners, NEW c \in Bookings, Transfer(k, c), NEW b \in Bookings
        PROVE  Fine(b)
    <2> PICK m : m = IF run[k].phase = "base" THEN "released" ELSE "overrunReleased"
      OBVIOUS
    <2>1. ~Noted(c, m) /\ (UNCHANGED ledger \/ Noted(c, m)')
      BY <1>0, <1>4, TransferNotes
    <2>2. CASE UNCHANGED ledger
      BY <1>3, <2>2
    <2>3. CASE c # b
      BY <1>0, <1>3, <1>4, <2>3, TransferAdds
    <2>4. CASE c = b /\ run[k].phase = "base" /\ Noted(c, m)'
      <3>1. ledger[b].transfers = 0 /\ ledger'[b].overtimes = ledger[b].overtimes
        BY <1>0, <1>4, <2>1, <2>4, TransferAdds DEF OnceNoted
      <3>2. ledger'[b].transfers \in {0, 1}
        BY <1>0, <1>4, <3>1, TransferAdds
      <3> QED
        BY <1>0, <1>2, <2>4, <3>1, <3>2 DEF OnceNoted
    <2>5. CASE c = b /\ run[k].phase # "base" /\ Noted(c, m)'
      <3>1. ledger[b].overtimes = 0 /\ ledger'[b].transfers = ledger[b].transfers
        BY <1>0, <1>4, <2>1, <2>5, TransferAdds DEF OnceNoted
      <3>2. ledger'[b].overtimes \in {0, 1}
        BY <1>0, <1>4, <3>1, TransferAdds
      <3> QED
        BY <1>0, <1>2, <2>5, <3>1, <3>2 DEF OnceNoted
    <2> QED
      BY <2>1, <2>2, <2>3, <2>4, <2>5
  <1>5. ASSUME NEW h \in Handlers, Serve(h) \/ \E a \in Bookings : Receive(h, a),
               NEW b \in Bookings
        PROVE  Fine(b)
    BY <1>0, <1>3, <1>5, ServeAdds
  <1>6. ASSUME NEW k \in Runners, PayoutStep(k), \A b \in Bookings : ~Transfer(k, b)
        PROVE  UNCHANGED ledger
    BY <1>6 DEF PayoutStep, PayoutRead, OvertimeRead, Record, PassOver, Deduct, TakeOvertime,
                PayoutCommit
  <1>7. ASSUME NEW a \in Bookings, HoldElapses(a) \/ \E held \in BOOLEAN : QueryHold(a, held)
        PROVE  UNCHANGED ledger
    BY <1>7 DEF HoldElapses, QueryHold
  <1>8. ASSUME NEW w \in Crashing, Crash(w) PROVE UNCHANGED ledger
    BY <1>8 DEF Crash
  <1>9. UNCHANGED vars => UNCHANGED ledger
    BY DEF vars
  <1>10. UNCHANGED ledger => \A b \in Bookings : Fine(b)
    BY <1>3
  <1> HIDE DEF Fine
  <1>11. \A b \in Bookings : Fine(b)
    BY <1>4, <1>5, <1>6, <1>7, <1>8, <1>9, <1>10, Steps
  <1>12. OnceNoted'
    BY <1>11 DEF OnceNoted, Fine
  <1> QED
    BY <1>1, <1>12 DEF OnceInv

(* While no two payout runs overlap (the scheduler's lease keeps scheduled    *)
(* runs apart, SchedulerLeases; nothing keeps an administrator's POST         *)
(* /internal/run-payouts from running beside one), none of which stops        *)
(* halfway and no answer of Paystack lost, run_scheduled_payouts transfers a  *)
(* booking's payout at most once and its overtime at most once, and overtime  *)
(* only after its charge; handlers may overlap and crash.                     *)
THEOREM PaysOnce ==
    []RunsApart /\ Reliable(Runners) /\ Spec => []PaidOnce
  <1>1. Reliable(Runners) => []Reliable(Runners)
    OBVIOUS
  <1>2. OnceInv /\ ChargedInv => PaidOnce
    BY DEF OnceInv, OnceNoted, ChargedInv, RowsCharged, PaidOnce
  <1> QED
    BY <1>1, <1>2, OnceInit, OnceNext, ChargedInvariance, PTL DEF Spec

----------------------------------------------------------------------------
(* The debt                                                                  *)

Repaid(x) == IF x.released THEN x.deducted ELSE 0

(* What each booking has repaid of the debt, and what it will have when the   *)
(* run r has committed.                                                       *)
OnRecord == [b \in Bookings |-> Repaid(row[b])]
After(r) == [b \in Bookings |-> IF b \in TakenBy(r) THEN Repaid(r.view[b]) ELSE Repaid(row[b])]

Remaining(r) == IF r.debt = Unset THEN debt ELSE r.debt

RunOwes(r) ==
    r.phase # "idle" =>
        /\ Remaining(r) + SumOver(After(r), Bookings) = InitialDebt
        /\ r.phase = "base" /\ r.step = "send" => r.balance = Remaining(r)

Owing ==
    /\ debt + SumOver(OnRecord, Bookings) = InitialDebt
    /\ \A k \in Runners : RunOwes(run[k])

DebtInv == KeptInv /\ RunsCurrent /\ Owing

LEMMA RepaidFits == \A x \in Row : Repaid(x) \in Int
  BY AmountsTyped DEF Repaid, Row, Amount, Unset

LEMMA OnRecordFits ==
    ASSUME RowsTyped
    PROVE  Counted(OnRecord, Bookings) /\ SumOver(OnRecord, Bookings) \in Int
  <1>1. Counted(OnRecord, Bookings)
    BY RepaidFits DEF Counted, OnRecord, RowsTyped
  <1> QED
    BY <1>1, BookingsTyped, SumOverFits

LEMMA AfterFits ==
    ASSUME RowsTyped, NEW r, RunFits(r), r.phase # "idle"
    PROVE  /\ Counted(After(r), Bookings) /\ SumOver(After(r), Bookings) \in Int
           /\ TakenBy(r) \subseteq DOMAIN r.view
           /\ DOMAIN r.view = DOMAIN r.read /\ DOMAIN r.read \subseteq Bookings
  <1>1. /\ TakenBy(r) \subseteq DOMAIN r.view /\ r.view \in [DOMAIN r.read -> Row]
        /\ DOMAIN r.view = DOMAIN r.read /\ DOMAIN r.read \subseteq Bookings
    BY RunParts DEF TakenBy
  <1>2. Counted(After(r), Bookings)
    <2> SUFFICES ASSUME NEW b \in Bookings PROVE After(r)[b] \in Int
      BY DEF Counted
    <2>1. row[b] \in Row /\ (b \in TakenBy(r) => r.view[b] \in Row)
      BY <1>1 DEF RowsTyped
    <2> QED
      BY <2>1, RepaidFits DEF After
  <1> QED
    BY <1>1, <1>2, BookingsTyped, SumOverFits

LEMMA RecordedRepays == \A x, y : Recorded(x, y) => Repaid(y) = Repaid(x)
  BY DEF Recorded, Repaid, RunColumns

(* A run that takes and returns nothing owes what it owed.                    *)
LEMMA OwesStill ==
    ASSUME NEW r, r.phase # "idle", RunOwes(r), NEW a, a.phase # "idle",
           TakenBy(a) = TakenBy(r), a.debt = r.debt, debt' = debt,
           \A b \in TakenBy(r) : a.view[b] = r.view[b],
           \A b \in Bookings : Recorded(row[b], row'[b]),
           a.phase = "base" /\ a.step = "send" => a.balance = Remaining(r)
    PROVE  RunOwes(a)'
  <1>1. After(a)' = After(r)
    <2>1. \A b \in Bookings : Repaid(row'[b]) = Repaid(row[b])
      BY RecordedRepays
    <2> QED
      BY <2>1 DEF After
  <1>2. Remaining(a)' = Remaining(r)
    BY DEF Remaining
  <1> QED
    BY <1>1, <1>2 DEF RunOwes

(* The transfer of a payout takes its deduction from the debt.                *)
LEMMA OwesTransferred ==
    ASSUME KeptInv, RunsCurrent, NEW k \in Runners, RunOwes(run[k]),
           NEW b \in Bookings, Transfer(k, b), run[k].phase = "base",
           run'[k] = Transferred(k, b)
    PROVE  RunOwes(run[k])'
  <1> PICK r : r = run[k]
    OBVIOUS
  <1> PICK a : a = run'[k]
    OBVIOUS
  <1>0. /\ TypeInv /\ RowsTyped /\ RunFits(r) /\ RunKept(r) /\ RunFits(a) /\ RunOwes(r)
        /\ r.phase = "base" /\ r.step = "send" /\ b \in r.booking /\ ReadsCurrent(r)
    <2>1. RunsTyped'
      BY StepRuns DEF KeptInv, PayoutStep
    <2> QED
      BY <2>1, TransferRuns DEF KeptInv, TypeInv, RunsTyped, RunsKept, RunsCurrent
  <1>a. UNCHANGED <<row, debt>>
    BY DEF Transfer
  <1>1. Sent(a, r, b, Deducts(k, b))
    BY <1>0, TransferParts DEF TypeInv
  <1>2. /\ b \in DOMAIN r.view /\ DOMAIN r.view = DOMAIN r.read /\ r.view[b] \in Row
        /\ r.view[b].deducted \in 0..r.balance /\ r.balance \in Nat
    BY <1>0, RunParts, AmountsTyped
  <1>3. TakenBy(r) = r.written /\ b \notin r.written
    BY <1>0 DEF TakenBy, RunKept, OpenTo
  <1>4. /\ a.phase = "base" /\ a.step = "record" /\ a.booking = r.booking
        /\ a.written \subseteq r.written \cup {b} /\ r.written \subseteq a.written
        /\ a.view = [r.view EXCEPT ![b] = [@ EXCEPT !.released = TRUE]]
        /\ a.debt = IF Deducts(k, b) THEN r.balance - r.view[b].deducted ELSE r.debt
    BY <1>0, <1>1 DEF Sent
  <1>5. r.booking = {b}
    BY <1>0 DEF RunKept
  <1>6. TakenBy(a) = r.written \cup {b}
    BY <1>4, <1>5 DEF TakenBy
  <1>7. a.view[b] = [r.view[b] EXCEPT !.released = TRUE] /\ \A c \in r.written : a.view[c] = r.view[c]
    BY <1>0, <1>2, <1>3, <1>4, RunParts
  <1>8. Repaid(a.view[b]) = r.view[b].deducted
    BY <1>2, <1>7, RowColumns, ColumnNames DEF Repaid
  <1>9. Repaid(row[b]) = 0
    <2>1. ~r.read[b].released
      BY <1>0 DEF RunKept
    <2>2. Recorded(r.read[b], row[b])
      BY <1>0, <1>2 DEF ReadsCurrent
    <2>3. row[b].released = r.read[b].released
      BY <2>2 DEF Recorded, RunColumns
    <2> QED
      BY <2>1, <2>3 DEF Repaid
  <1> PICK g, h : g = After(r) /\ h = After(a)'
    OBVIOUS
  <1>10. g[b] = 0 /\ h[b] = r.view[b].deducted /\ \A c \in Bookings \ {b} : h[c] = g[c]
    BY <1>3, <1>6, <1>7, <1>8, <1>9, <1>a DEF After
  <1>11. Counted(g, Bookings) /\ Counted(h, Bookings) /\ SumOver(g, Bookings) \in Int
    <2>1. Counted(g, Bookings) /\ SumOver(g, Bookings) \in Int
      BY <1>0, AfterFits
    <2>2. \A c \in Bookings : h[c] \in Int
      BY <1>2, <1>10, <2>1 DEF Counted
    <2> QED
      BY <2>1, <2>2 DEF Counted
  <1>12. SumOver(h, Bookings) = SumOver(g, Bookings) + r.view[b].deducted
    <2>1. SumOver(h, Bookings) = SumOver(g, Bookings) - g[b] + h[b]
      BY <1>10, <1>11, BookingsTyped, SumOverChanged
    <2> QED
      BY <1>2, <1>10, <1>11, <2>1
  <1>13. r.balance = Remaining(r) /\ Remaining(r) + SumOver(g, Bookings) = InitialDebt
    BY <1>0 DEF RunOwes
  <1>14. Remaining(a)' = Remaining(r) - r.view[b].deducted
    <2>1. CASE Deducts(k, b)
      BY <1>2, <1>4, <1>13, <2>1 DEF Remaining, Unset
    <2>2. CASE ~Deducts(k, b)
      <3>1. r.view[b].deducted = 0
        BY <1>0, <1>2, <2>2 DEF Deducts
      <3>2. Remaining(a)' = Remaining(r)
        BY <1>4, <1>a, <2>2 DEF Remaining
      <3> QED
        BY <1>2, <1>13, <3>1, <3>2
    <2> QED
      BY <2>1, <2>2
  <1>15. Remaining(a)' + SumOver(h, Bookings) = InitialDebt
    BY <1>2, <1>11, <1>12, <1>13, <1>14, AmountsTyped
  <1> QED
    BY <1>4, <1>15 DEF RunOwes

LEMMA DebtStays ==
    ASSUME TypeInv, [Next]_vars, \A k \in Runners : ~PayoutCommit(k)
    PROVE  debt' = debt
  <1>1. ASSUME NEW h \in Handlers, Serve(h) \/ \E b \in Bookings : Receive(h, b)
        PROVE  debt' = debt
    BY <1>1 DEF Serve, Refund, ChargeOvertime, Commit, Receive
  <1>2. ASSUME NEW k \in Runners, PayoutStep(k) PROVE debt' = debt
    BY <1>2 DEF PayoutStep, PayoutRead, OvertimeRead, Record, PassOver, Deduct, TakeOvertime,
                Transfer
  <1>3. ASSUME NEW b \in Bookings, HoldElapses(b) \/ \E held \in BOOLEAN : QueryHold(b, held)
        PROVE  debt' = debt
    BY <1>3 DEF HoldElapses, QueryHold
  <1>4. ASSUME NEW w \in Crashing, Crash(w) PROVE debt' = debt
    BY <1>4 DEF Crash
  <1>5. CASE UNCHANGED vars
    BY <1>5 DEF vars
  <1> QED
    BY <1>1, <1>2, <1>3, <1>4, <1>5, Steps

(* A step of a run but for its commit leaves what it owes right.              *)
LEMMA StepOwes ==
    ASSUME KeptInv, RunsCurrent, Owing, NEW k \in Runners, PayoutStep(k), run'[k].phase # "idle"
    PROVE  RunOwes(run[k])'
  <1> PICK r : r = run[k]
    OBVIOUS
  <1> PICK a : a = run'[k]
    OBVIOUS
  <1>0. /\ TypeInv /\ RowsTyped /\ RunsTyped /\ RunFits(r) /\ RunKept(r) /\ RunFits(a) /\ RunOwes(r)
        /\ DOMAIN run = Runners /\ a.phase # "idle" /\ ReadsCurrent(r)
    <2>1. RunsTyped'
      BY StepRuns DEF KeptInv
    <2> QED
      BY <2>1 DEF KeptInv, TypeInv, RunsTyped, RunsKept, RunsCurrent, Owing
  <1>a. /\ r.phase # "idle" => /\ DOMAIN r.view = DOMAIN r.read /\ r \in Run
                               /\ r.written \cup r.booking \subseteq DOMAIN r.read
                               /\ DOMAIN r.read \subseteq Bookings
    BY <1>0, RunParts
  <1>b. ~PayoutCommit(k)
    BY <1>0 DEF PayoutCommit, NoRun
  <1>c. UNCHANGED <<row, debt>>
    BY <1>b DEF PayoutStep, PayoutRead, OvertimeRead, Record, PassOver, Deduct, TakeOvertime,
                Transfer
  <1>d. \A b \in Bookings : Recorded(row[b], row'[b])
    BY <1>c DEF Recorded
  <1>e. Balance(k) = Remaining(r)
    BY DEF Balance, Remaining
  <1>1. ASSUME PayoutRead(k) PROVE RunOwes(a)'
    <2> PICK due : due = {b \in Bookings : Due(row[b])}
      OBVIOUS
    <2>1. a = ReadRun(due)
      BY <1>0, <1>1, PayoutReadRun
    <2>2. a.step = "next" /\ TakenBy(a) = {} /\ a.debt = Unset
      BY <2>1 DEF ReadRun, TakenBy
    <2>3. After(a)' = OnRecord
      BY <1>c, <2>2 DEF After, OnRecord
    <2> QED
      BY <1>0, <1>c, <2>2, <2>3 DEF RunOwes, Remaining, Owing
  <1>2. ASSUME OvertimeRead(k) PROVE RunOwes(a)'
    <2> PICK due : due = {c \in Bookings : OvertimeDue(row[c])}
      OBVIOUS
    <2>1. r.phase = "base" /\ r.step = "next" /\ a = OvertimeRun(r, due)
      BY <1>0, <1>2, OvertimeReadRun
    <2>2. /\ a.phase = "overtime" /\ a.step = "next" /\ a.written = r.written
          /\ a.debt = r.debt /\ a.view = Known(r.view, due)
      BY <1>a, <2>1 DEF OvertimeRun, Run
    <2>3. TakenBy(a) = TakenBy(r) /\ TakenBy(r) = r.written
      BY <2>1, <2>2 DEF TakenBy
    <2>4. \A b \in TakenBy(r) : a.view[b] = r.view[b]
      BY <1>a, <2>1, <2>2, <2>3 DEF Known
    <2> QED
      BY <1>0, <1>c, <1>d, <2>1, <2>2, <2>3, <2>4, OwesStill
  <1>3. ASSUME NEW c \in Bookings, PassOver(k, c) \/ TakeOvertime(k, c) PROVE RunOwes(a)'
    <2>1. /\ a.phase = r.phase /\ a.written = r.written /\ a.debt = r.debt
          /\ a.view = r.view /\ r.step = "next" /\ r.phase # "idle"
          /\ a.step = "next" \/ (a.step = "send" /\ a.phase = "overtime")
      BY <1>0, <1>3, <1>a DEF PassOver, TakeOvertime, Run
    <2>2. TakenBy(a) = TakenBy(r)
      BY <2>1 DEF TakenBy
    <2> QED
      BY <1>0, <1>c, <1>d, <2>1, <2>2, OwesStill
  <1>4. ASSUME NEW c \in Bookings, Deduct(k, c) PROVE RunOwes(a)'
    <2>1. r.phase = "base" /\ r.step = "next" /\ c \in r.todo
      BY <1>0, <1>4, DeductRuns
    <2> PICK x : run' = [run EXCEPT ![k] = DeductRun(r, c, x, Balance(k))]
      BY <1>0, <1>4, DeductRuns
    <2>2. /\ a.phase = r.phase /\ a.step = "send" /\ a.written = r.written
          /\ a.debt = r.debt /\ a.balance = Balance(k) /\ a.view = [r.view EXCEPT ![c] = x]
      BY <1>0, <1>a, <2>1 DEF DeductRun, Run
    <2>3. TakenBy(a) = r.written /\ TakenBy(r) = r.written /\ c \notin r.written
      BY <1>0, <2>1, <2>2 DEF TakenBy, RunKept, OpenTo
    <2>4. \A b \in TakenBy(r) : a.view[b] = r.view[b]
      BY <1>a, <2>1, <2>2, <2>3
    <2> QED
      BY <1>0, <1>c, <1>d, <1>e, <2>1, <2>2, <2>3, <2>4, OwesStill
  <1>5. ASSUME NEW c \in Bookings, Transfer(k, c) PROVE RunOwes(a)'
    <2> PICK o \in Outcomes :
          run' = [run EXCEPT ![k] = IF Succeeded(o) THEN Transferred(k, c) ELSE RolledBack(k, c)]
      BY <1>5, TransferRuns
    <2>1. /\ r.phase # "idle" /\ r.step = "send" /\ c \in r.booking
          /\ a = Transferred(k, c) \/ a = RolledBack(k, c)
      BY <1>0, <1>5, TransferRuns
    <2>2. TakenBy(r) = r.written
      BY <2>1 DEF TakenBy
    <2>3. CASE a = Transferred(k, c) /\ r.phase = "base"
      BY <1>5, <2>3, OwesTransferred DEF Owing
    <2>4. CASE a = Transferred(k, c) /\ r.phase = "overtime"
      <3>1. Sent(a, r, c, Deducts(k, c))
        BY <1>0, <2>1, <2>4, TransferParts
      <3>2. ~Deducts(k, c)
        BY <2>4 DEF Deducts
      <3>3. /\ a.phase = "overtime" /\ a.step = "record" /\ a.booking = r.booking
            /\ a.written \subseteq r.written \cup {c} /\ r.written \subseteq a.written
            /\ a.view = [r.view EXCEPT ![c] = [@ EXCEPT !.overrunReleased = TRUE]]
            /\ a.debt = r.debt
        BY <2>4, <3>1, <3>2 DEF Sent
      <3>4. r.booking = {c}
        BY <1>0, <2>1 DEF RunKept
      <3>5. TakenBy(a) = r.written \cup {c}
        BY <3>3, <3>4 DEF TakenBy
      <3>6. /\ c \in DOMAIN r.read /\ r.view[c] \in Row /\ DOMAIN r.view = DOMAIN r.read
            /\ r.view \in [DOMAIN r.read -> Row]
        BY <1>0, <2>1, RunParts
      <3>7. Repaid(a.view[c]) = Repaid(r.view[c])
        <4> PICK x : x = [r.view[c] EXCEPT !.overrunReleased = TRUE]
          OBVIOUS
        <4>0. a.view = [r.view EXCEPT ![c] = x]
          BY <3>3
        <4>1. a.view[c] = [r.view[c] EXCEPT !.overrunReleased = TRUE]
          BY <3>6, <4>0
        <4>2. a.view[c].released = r.view[c].released /\ a.view[c].deducted = r.view[c].deducted
          BY <3>6, <4>1, RowColumns, ColumnNames
        <4> QED
          BY <4>2 DEF Repaid
      <3>8. c \notin r.written => Repaid(r.view[c]) = Repaid(row[c])
        <4>1. Recorded(r.read[c], row[c])
          BY <1>0, <2>1, <3>6 DEF ReadsCurrent
        <4>2. c \notin InHand(r)
          BY <2>4 DEF InHand
        <4>3. c \notin r.written =>
                SameMarks(r.read[c], r.view[c]) /\ SameAmounts(r.read[c], r.view[c])
          BY <1>0, <2>1, <2>2, <3>6, <4>2 DEF RunKept, SameMarks
        <4>4. c \notin r.written => Repaid(r.view[c]) = Repaid(r.read[c])
          BY <4>3 DEF SameMarks, SameAmounts, Repaid
        <4> QED
          BY <4>1, <4>4, RecordedRepays
      <3>9. \A b \in Bookings : b # c /\ b \in r.written => a.view[b] = r.view[b]
        BY <1>a, <2>1, <3>3
      <3>10. After(a)' = After(r)
        <4> SUFFICES ASSUME NEW b \in Bookings PROVE After(a)'[b] = After(r)[b]
          BY DEF After
        <4>1. After(a)'[b] = IF b \in TakenBy(a) THEN Repaid(a.view[b]) ELSE Repaid(row[b])
          BY <1>c DEF After
        <4>2. After(r)[b] = IF b \in r.written THEN Repaid(r.view[b]) ELSE Repaid(row[b])
          BY <2>2 DEF After
        <4> QED
          BY <3>5, <3>7, <3>8, <3>9, <4>1, <4>2
      <3>11. Remaining(a)' = Remaining(r)
        BY <1>c, <3>3 DEF Remaining
      <3> QED
        BY <1>0, <2>1, <3>3, <3>10, <3>11 DEF RunOwes
    <2>5. CASE a = RolledBack(k, c)
      <3>1. Unsent(a, r, c)
        BY <1>0, <2>1, <2>5, TransferParts
      <3>2. /\ a.phase = r.phase /\ a.step = "next" /\ a.written = r.written /\ a.debt = r.debt
            /\ a.view = [r.view EXCEPT ![c] = IF r.phase = "base" THEN r.read[c] ELSE @]
        BY <3>1 DEF Unsent
      <3>3. TakenBy(a) = TakenBy(r)
        BY <2>2, <3>2 DEF TakenBy
      <3>4. r.phase = "base" => c \notin r.written
        BY <1>0, <2>1 DEF RunKept, OpenTo
      <3>5. \A b \in TakenBy(r) : a.view[b] = r.view[b]
        BY <1>a, <2>1, <2>2, <3>2, <3>4
      <3> QED
        BY <1>0, <1>c, <1>d, <2>1, <3>2, <3>3, <3>5, OwesStill
    <2>6. r.phase \in {"base", "overtime"}
      BY <1>0, <2>1, RunParts
    <2> QED
      BY <2>1, <2>3, <2>4, <2>5, <2>6
  <1>6. ASSUME Record(k) PROVE RunOwes(a)'
    <2>1. r.phase # "idle" /\ r.step = "record" /\ a = RecordRun(r)
      BY <1>0, <1>6, RecordRuns
    <2>2. /\ a.phase = r.phase /\ a.written = r.written \cup r.booking /\ a.step = "next"
          /\ a.debt = r.debt /\ a.view = r.view
      BY <1>a, <2>1 DEF RecordRun, Run
    <2>3. TakenBy(a) = TakenBy(r)
      BY <2>1, <2>2 DEF TakenBy
    <2> QED
      BY <1>0, <1>c, <1>d, <2>1, <2>2, <2>3, OwesStill
  <1>7. RunOwes(a)'
    BY <1>b, <1>1, <1>2, <1>3, <1>4, <1>5, <1>6 DEF PayoutStep
  <1> QED
    BY <1>7

(* The commit writes the debt that the run's copies leave.                    *)
LEMMA CommitOwes ==
    ASSUME KeptInv, RunsCurrent, Owing, NEW k \in Runners, PayoutCommit(k)
    PROVE  debt' + SumOver(OnRecord', Bookings) = InitialDebt
  <1> PICK r : r = run[k]
    OBVIOUS
  <1>1. /\ r.phase = "overtime" /\ r.step = "next" /\ debt' = Balance(k)
        /\ row' = [c \in Bookings |-> IF c \in r.written
                                      THEN Flush(r.read[c], r.view[c], {}, row[c]) ELSE row[c]]
    BY DEF PayoutCommit
  <1>2. Balance(k) = Remaining(r) /\ RunOwes(r) /\ TakenBy(r) = r.written
    BY <1>1 DEF Balance, Remaining, Owing, TakenBy
  <1>3. OnRecord' = After(r)
    <2>1. ASSUME NEW b \in Bookings, b \in r.written PROVE Repaid(row'[b]) = Repaid(r.view[b])
      BY <2>1, CommitNotes, RecordedRepays
    <2>2. ASSUME NEW b \in Bookings, b \notin r.written PROVE row'[b] = row[b]
      BY <1>1, <2>2
    <2> QED
      BY <1>2, <2>1, <2>2 DEF OnRecord, After
  <1> QED
    BY <1>1, <1>2, <1>3 DEF RunOwes

LEMMA OwingNext ==
    ASSUME RunsApart, DebtInv, [Next]_vars
    PROVE  Owing'
  <1>0. KeptInv /\ RunsCurrent /\ Owing /\ TypeInv
    BY DEF DebtInv, KeptInv
  <1>1. (debt + SumOver(OnRecord, Bookings) = InitialDebt)'
    <2>1. CASE \E k \in Runners : PayoutCommit(k)
      BY <1>0, <2>1, CommitOwes
    <2>2. CASE \A k \in Runners : ~PayoutCommit(k)
      <3>1. debt' = debt /\ \A b \in Bookings : Recorded(row[b], row'[b])
        BY <1>0, <2>2, DebtStays, RecordsNext
      <3>2. OnRecord' = OnRecord
        BY <3>1, RecordedRepays DEF OnRecord
      <3> QED
        BY <1>0, <3>1, <3>2 DEF Owing
    <2> QED
      BY <2>1, <2>2
  <1>2. ASSUME NEW k \in Runners PROVE RunOwes(run[k])'
    <2>1. CASE run'[k].phase = "idle"
      BY <2>1 DEF RunOwes
    <2>2. CASE PayoutStep(k) /\ run'[k].phase # "idle"
      BY <1>0, <2>2, StepOwes
    <2>3. CASE run'[k] = run[k] /\ run'[k].phase # "idle"
      <3>1. \A j \in Runners : ~PayoutCommit(j)
        BY <1>0, <2>3 DEF RunsApart, PayoutCommit, NoRun, TypeInv, RunsTyped
      <3>2. debt' = debt /\ \A b \in Bookings : Recorded(row[b], row'[b])
        BY <1>0, <3>1, DebtStays, RecordsNext
      <3>3. RunOwes(run[k])
        BY <1>0 DEF Owing
      <3>4. run[k].phase = "base" /\ run[k].step = "send" => run[k].balance = Remaining(run[k])
        BY <2>3, <3>3 DEF RunOwes
      <3> QED
        BY <2>3, <3>2, <3>3, <3>4, OwesStill
    <2> QED
      BY <1>0, <2>1, <2>2, <2>3, RunChanges DEF NoRun
  <1> QED
    BY <1>1, <1>2 DEF Owing

LEMMA DebtInit == Init => DebtInv
  <1> SUFFICES ASSUME Init PROVE DebtInv
    OBVIOUS
  <1>1. RunsCurrent /\ \A k \in Runners : RunOwes(run[k])
    BY DEF Init, RunsCurrent, ReadsCurrent, NoRun, RunOwes
  <1>2. \A b \in Bookings : OnRecord[b] = 0
    BY DEF Init, OnRecord, Repaid, NewRow
  <1>3. Counted(OnRecord, Bookings)
    BY <1>2 DEF Counted
  <1>4. SumOver(OnRecord, Bookings) = SumOver(OnRecord, {})
    BY <1>2, <1>3, BookingsTyped, SumOverTrimmed
  <1>5. SumOver(OnRecord, {}) = 0
    BY FS_EmptySet, SumOverSplits
  <1>6. debt + SumOver(OnRecord, Bookings) = InitialDebt
    BY <1>4, <1>5, AmountsTyped DEF Init
  <1> QED
    BY <1>1, <1>6, KeptInit DEF DebtInv, Owing

(* The sum of DebtAccounted is the one of the lemmas.                         *)
LEMMA DeductedSum ==
    ASSUME RowsTyped, NEW R \in SUBSET Bookings
    PROVE  MapThenSumSet(LAMBDA b : row[b].deducted, R)
              = SumOver([b \in Bookings |-> row[b].deducted], R)
  <1> PICK g : g = [b \in Bookings |-> row[b].deducted]
    OBVIOUS
  <1>1. MapThenSumSet(LAMBDA b : row[b].deducted, R)
          = (CHOOSE f : f = [s \in SUBSET R |->
                               IF s = {} THEN 0
                               ELSE row[First(s)].deducted + f[s \ {First(s)}]])[R]
    BY DEF MapThenSumSet, MapThenFoldSet, First
  <1>2. ASSUME NEW f
        PROVE  Sums(g, R, f) <=> f = [s \in SUBSET R |->
                                        IF s = {} THEN 0
                                        ELSE row[First(s)].deducted + f[s \ {First(s)}]]
    <2>1. \A s \in SUBSET R : s # {} => g[First(s)] = row[First(s)].deducted
      BY FirstIn
    <2> QED
      BY <2>1 DEF Sums
  <1> PICK f : f = CHOOSE q : q = [s \in SUBSET R |->
                                     IF s = {} THEN 0
                                     ELSE row[First(s)].deducted + q[s \ {First(s)}]]
    OBVIOUS
  <1>3. IsFiniteSet(R)
    BY BookingsTyped, FS_Subset
  <1>4. Sums(g, R, f)
    BY <1>2, <1>3, SumsExist
  <1>5. f = CHOOSE q : Sums(g, R, q)
    BY <1>3, <1>4, SumsUnique
  <1> QED
    BY <1>1, <1>5 DEF SumOver

(* While no two payout runs overlap, the nannies' debt and what released      *)
(* payouts repaid of it add up to the debt there was: deduct_debt_from_payout *)
(* takes from a payout what it takes from the balance, and neither a failed   *)
(* transfer's savepoint, nor a run that crashes before its commit, nor a lost *)
(* answer of Paystack loses or repeats a deduction.                           *)
THEOREM DebtAlwaysAccounted == []RunsApart /\ Spec => []DebtAccounted
  <1>1. DebtInv => DebtAccounted
    <2> SUFFICES ASSUME DebtInv PROVE DebtAccounted
      OBVIOUS
    <2> PICK R : R = {b \in Bookings : row[b].released}
      OBVIOUS
    <2> PICK g : g = [b \in Bookings |-> row[b].deducted]
      OBVIOUS
    <2>1. RowsTyped /\ debt + SumOver(OnRecord, Bookings) = InitialDebt
      BY DEF DebtInv, KeptInv, TypeInv, Owing
    <2>2. R \in SUBSET Bookings /\ \A b \in Bookings \ R : OnRecord[b] = 0
      BY DEF OnRecord, Repaid
    <2>3. Counted(OnRecord, Bookings) /\ IsFiniteSet(R)
      BY <2>1, <2>2, OnRecordFits, BookingsTyped, FS_Subset
    <2>4. SumOver(OnRecord, Bookings) = SumOver(OnRecord, R)
      BY <2>2, <2>3, BookingsTyped, SumOverTrimmed
    <2>5. \A b \in R : OnRecord[b] = g[b]
      BY DEF OnRecord, Repaid
    <2>6. SumOver(OnRecord, R) = SumOver(g, R)
      BY <2>3, <2>5, SumOverSame
    <2>7. MapThenSumSet(LAMBDA b : row[b].deducted, R) = SumOver(g, R)
      BY <2>1, <2>2, DeductedSum
    <2> QED
      BY <2>1, <2>4, <2>6, <2>7 DEF DebtAccounted
  <1>2. RunsApart /\ DebtInv /\ [Next]_vars => DebtInv'
    BY KeptNext, RunsCurrentNext, OwingNext DEF DebtInv
  <1> QED
    BY <1>1, <1>2, DebtInit, PTL DEF Spec

=============================================================================
