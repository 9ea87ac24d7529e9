----------------------------- MODULE TeamProofs ------------------------------
(* A team keeps its administrators and invitations settle once, for any      *)
(* number of workers, people, invitations and calls, as long as no two        *)
(* handlers cross on the same subject; and a longer service costs no less,    *)
(* for any service of one day or two and any tariff that grows with the day.  *)
EXTENDS Team, SequenceTheorems, FiniteSetTheorems, TLAPS

(* What a worker is about to write names people and invitations that exist.   *)
SessionTyped(s) ==
    \/ s = Idle
    \/ /\ s.op \in {"toggle", "role", "access"} /\ s.subject = "accounts" /\ s.who \in Present
       /\ s.op = "toggle" => s.to \in BOOLEAN /\ s.was \in BOOLEAN
       /\ s.op = "role" => s.to \in {"parent", "nanny"}
       /\ s.op = "access" => s.to \in Levels
    \/ /\ s.op = "invite" /\ s.subject = "invites"
       /\ s.who \in People /\ s.level \in Levels
    \/ /\ s.op \in {"close", "accept"} /\ s.subject = "invites" /\ s.id \in DOMAIN invites
       /\ s.op = "close" => s.to \in {"cancelled", "expired"}
    \/ /\ s.op = "save" /\ s.subject = "tariff" /\ s.new \in Values
       /\ \A k \in {"first", "second"} : k \in DOMAIN s.new => s.new[k] \in 0..23

(* As long as no two have crossed, a worker that takes rights away has read   *)
(* them as they are, and somebody else keeps hers.                            *)
AccountRead(s) ==
    /\ s.op = "toggle" => /\ s.was = account[s.who].admin
                          /\ s.to \/ ~s.was \/ Admins \ {s.who} # {}
    /\ s.op = "access" => /\ s.was = account[s.who].level /\ s.who \in Admins
                          /\ s.to = "superadmin" \/ Superadmins \ {s.who} # {}

AccountsManaged ==
    /\ Admins # {} /\ (removed \/ Superadmins # {})
    /\ \A w \in Workers : AccountRead(sess[w])

(* A worker has seen every invitation of an address that it invites, and the  *)
(* one that it closes or accepts is still open.                               *)
InviteRead(s) ==
    /\ s.op = "invite" => s.seen = {i \in DOMAIN invites : invites[i].who = s.who}
    /\ s.op \in {"close", "accept"} => invites[s.id].status = "pending"

LastOpen ==
    \A i, j \in DOMAIN invites :
        invites[i].status = "pending" /\ invites[j].who = invites[i].who => j <= i

InvitesManaged == LastOpen /\ \A w \in Workers : InviteRead(sess[w])

(* The form that a worker saves is in order with the tariff as it is.         *)
TariffRead(s) == s.op = "save" => s.was = tariff /\ Ordered(s.new, s.was)

ThresholdsOrdered == tariff.first < tariff.second

(* The rates of the days are those that were saved together, or the first.    *)
RatesTogether ==
    \E v \in Rates \union {PricingRates} : tariff.half = v.half /\ tariff.full = v.full

TariffManaged ==
    ThresholdsOrdered /\ RatesTogether /\ \A w \in Workers : TariffRead(sess[w])

(* The inductive invariant.                                                   *)
IInv ==
    /\ TypeOK
    /\ Admins \subseteq Present
    /\ \A w \in Workers : SessionTyped(sess[w])
    /\ "accounts" \in crossed \/ AccountsManaged
    /\ "invites" \in crossed \/ InvitesManaged
    /\ "tariff" \in crossed \/ TariffManaged

----------------------------------------------------------------------------

(* Who is not on a subject when somebody commits on it is crossed.            *)
LEMMA NotCrossed ==
    ASSUME NEW w \in Workers, NEW op, End(w, op)
    PROVE  /\ crossed \subseteq crossed'
           /\ \A x : x \notin crossed' /\ sess[w].subject = x =>
                 \A v \in Workers \ {w} : sess[v].subject # x
  BY DEF End

LEMMA Initially == ASSUME Init PROVE IInv
  <1> USE TeamTyped DEF Init
  <1>1. TypeOK
    BY DEF TypeOK, Roles, Invitation
  <1>2. Admins = Founders /\ Superadmins = Founders /\ Founders \subseteq Present
    BY DEF Admins, Superadmins, Present
  <1>3. \A w \in Workers : SessionTyped(sess[w])
    BY DEF SessionTyped
  <1>4. AccountsManaged
    BY <1>2 DEF AccountsManaged, AccountRead, Idle
  <1>5. InvitesManaged
    BY DEF InvitesManaged, InviteRead, LastOpen, Idle
  <1>6. TariffManaged
    BY DEF TariffManaged, TariffRead, ThresholdsOrdered, RatesTogether, Idle
  <1> QED
    BY <1>1, <1>2, <1>3, <1>4, <1>5, <1>6 DEF IInv

(* An administrator who may lose her rights leaves another.                   *)
LEMMA AnotherAdmin ==
    ASSUME NEW u, MayLoseRights(u), account[u].admin, u \in Admins
    PROVE  Admins \ {u} # {}
  <1>1. SUFFICES ASSUME Admins \ {u} = {} PROVE FALSE
    OBVIOUS
  <1>2. Admins = {u}
    BY <1>1
  <1>3. Cardinality({u}) = 1
    BY FS_Singleton
  <1> QED
    BY <1>2, <1>3 DEF MayLoseRights

----------------------------------------------------------------------------
(* A worker that begins changes nothing but its own session.                  *)

LEMMA BeginKeeps ==
    ASSUME IInv, NEW w \in Workers, NEW s,
           Begin(w, s), UNCHANGED <<account, invites, tariff, today, crossed, removed>>,
           SessionTyped(s), AccountRead(s), InviteRead(s), TariffRead(s)
    PROVE  IInv'
  <1>1. sess' = [sess EXCEPT ![w] = s] /\ DOMAIN sess = Workers
    BY DEF Begin, IInv, TypeOK
  <1>2. Admins' = Admins /\ Superadmins' = Superadmins /\ Present' = Present
    BY DEF Admins, Superadmins, Present
  <1>3. TypeOK'
    BY <1>1 DEF IInv, TypeOK
  <1>4. \A v \in Workers : SessionTyped(sess[v])'
    BY <1>1, <1>2 DEF IInv, SessionTyped
  <1>5. AccountsManaged => AccountsManaged'
    BY <1>1, <1>2 DEF AccountsManaged, AccountRead
  <1>6. InvitesManaged => InvitesManaged'
    BY <1>1 DEF InvitesManaged, InviteRead, LastOpen
  <1>7. TariffManaged => TariffManaged'
    BY <1>1 DEF TariffManaged, TariffRead, ThresholdsOrdered, RatesTogether, Ordered, Field
  <1> QED
    BY <1>2, <1>3, <1>4, <1>5, <1>6, <1>7 DEF IInv

LEMMA BeginToggleKeeps ==
    ASSUME IInv, NEW w \in Workers, BeginToggle(w) PROVE IInv'
  <1>1. PICK u \in Present, to \in BOOLEAN :
            /\ to \/ MayLoseRights(u)
            /\ Begin(w, [op |-> "toggle", subject |-> "accounts", who |-> u, to |-> to,
                         was |-> account[u].admin])
    BY DEF BeginToggle
  <1> DEFINE s == [op |-> "toggle", subject |-> "accounts", who |-> u, to |-> to,
                   was |-> account[u].admin]
  <1>2. u \in People /\ account[u].admin \in BOOLEAN
    BY DEF Present, IInv, TypeOK
  <1>3. SessionTyped(s)
    BY <1>2 DEF SessionTyped
  <1>4. s.to \/ ~s.was \/ Admins \ {s.who} # {}
    BY <1>1, <1>2, AnotherAdmin DEF Admins
  <1>5. AccountRead(s) /\ InviteRead(s) /\ TariffRead(s)
    BY <1>4 DEF AccountRead, InviteRead, TariffRead
  <1> HIDE DEF s
  <1>6. Begin(w, s)
    BY <1>1 DEF s
  <1> QED
    BY <1>3, <1>5, <1>6, BeginKeeps DEF BeginToggle

LEMMA BeginRoleKeeps ==
    ASSUME IInv, NEW w \in Workers, BeginRole(w) PROVE IInv'
  <1>1. PICK u \in Present, to \in {"parent", "nanny"} :
            Begin(w, [op |-> "role", subject |-> "accounts", who |-> u, to |-> to])
    BY DEF BeginRole
  <1> DEFINE s == [op |-> "role", subject |-> "accounts", who |-> u, to |-> to]
  <1>2. SessionTyped(s) /\ AccountRead(s) /\ InviteRead(s) /\ TariffRead(s)
    BY DEF SessionTyped, AccountRead, InviteRead, TariffRead
  <1> HIDE DEF s
  <1>3. Begin(w, s)
    BY <1>1 DEF s
  <1> QED
    BY <1>2, <1>3, BeginKeeps DEF BeginRole

LEMMA BeginAccessKeeps ==
    ASSUME IInv, NEW w \in Workers, BeginAccess(w) PROVE IInv'
  <1>1. PICK a \in Superadmins, u \in Admins, to \in Levels :
            /\ MayLower(a, u, to)
            /\ Begin(w, [op |-> "access", subject |-> "accounts", who |-> u, to |-> to,
                         was |-> account[u].level])
    BY DEF BeginAccess
  <1> DEFINE s == [op |-> "access", subject |-> "accounts", who |-> u, to |-> to,
                   was |-> account[u].level]
  <1>2. u \in Present
    BY DEF IInv
  <1>3. SessionTyped(s)
    BY <1>2 DEF SessionTyped
  <1>4. to = "superadmin" \/ Superadmins \ {u} # {}
    BY <1>1 DEF MayLower
  <1>5. AccountRead(s) /\ InviteRead(s) /\ TariffRead(s)
    BY <1>4 DEF AccountRead, InviteRead, TariffRead
  <1> HIDE DEF s
  <1>6. Begin(w, s)
    BY <1>1 DEF s
  <1> QED
    BY <1>3, <1>5, <1>6, BeginKeeps DEF BeginAccess

LEMMA BeginInviteKeeps ==
    ASSUME IInv, NEW w \in Workers, BeginInvite(w) PROVE IInv'
  <1>1. PICK u \in People, l \in Levels :
            Begin(w, [op |-> "invite", subject |-> "invites", who |-> u, level |-> l,
                     seen |-> {i \in DOMAIN invites : invites[i].who = u}])
    BY DEF BeginInvite
  <1> DEFINE s == [op |-> "invite", subject |-> "invites", who |-> u, level |-> l,
                   seen |-> {i \in DOMAIN invites : invites[i].who = u}]
  <1>2. SessionTyped(s) /\ AccountRead(s) /\ InviteRead(s) /\ TariffRead(s)
    BY DEF SessionTyped, AccountRead, InviteRead, TariffRead
  <1> HIDE DEF s
  <1>3. Begin(w, s)
    BY <1>1 DEF s
  <1> QED
    BY <1>2, <1>3, BeginKeeps DEF BeginInvite

LEMMA BeginCloseKeeps ==
    ASSUME IInv, NEW w \in Workers, BeginExpire(w) \/ BeginCancel(w) PROVE IInv'
  <1>1. PICK i \in DOMAIN invites, to \in {"expired", "cancelled"} :
            /\ invites[i].status = "pending"
            /\ Begin(w, [op |-> "close", subject |-> "invites", id |-> i, to |-> to])
    BY DEF BeginExpire, BeginCancel
  <1> DEFINE s == [op |-> "close", subject |-> "invites", id |-> i, to |-> to]
  <1>2. SessionTyped(s) /\ AccountRead(s) /\ InviteRead(s) /\ TariffRead(s)
    BY <1>1 DEF SessionTyped, AccountRead, InviteRead, TariffRead
  <1> HIDE DEF s
  <1>3. Begin(w, s)
    BY <1>1 DEF s
  <1> QED
    BY <1>2, <1>3, BeginKeeps DEF BeginExpire, BeginCancel

LEMMA BeginAcceptKeeps ==
    ASSUME IInv, NEW w \in Workers, BeginAccept(w) PROVE IInv'
  <1>1. PICK i \in DOMAIN invites :
            /\ invites[i].status = "pending"
            /\ Begin(w, [op |-> "accept", subject |-> "invites", id |-> i])
    BY DEF BeginAccept
  <1> DEFINE s == [op |-> "accept", subject |-> "invites", id |-> i]
  <1>2. SessionTyped(s) /\ AccountRead(s) /\ InviteRead(s) /\ TariffRead(s)
    BY <1>1 DEF SessionTyped, AccountRead, InviteRead, TariffRead
  <1> HIDE DEF s
  <1>3. Begin(w, s)
    BY <1>1 DEF s
  <1> QED
    BY <1>2, <1>3, BeginKeeps DEF BeginAccept

LEMMA BeginSaveKeeps ==
    ASSUME IInv, NEW w \in Workers, BeginSave(w) PROVE IInv'
  <1>1. PICK v \in Values :
            /\ \A k \in {"first", "second"} \intersect DOMAIN v : Hour(v[k])
            /\ Ordered(v, tariff)
            /\ Begin(w, [op |-> "save", subject |-> "tariff", new |-> v, was |-> tariff])
    BY DEF BeginSave
  <1> DEFINE s == [op |-> "save", subject |-> "tariff", new |-> v, was |-> tariff]
  <1>2. SessionTyped(s) /\ AccountRead(s) /\ InviteRead(s) /\ TariffRead(s)
    BY <1>1 DEF SessionTyped, AccountRead, InviteRead, TariffRead, Hour
  <1> HIDE DEF s
  <1>3. Begin(w, s)
    BY <1>1 DEF s
  <1> QED
    BY <1>2, <1>3, BeginKeeps DEF BeginSave

----------------------------------------------------------------------------
(* A worker that commits.                                                     *)

(* Those who keep an account, and invitations that stay, keep the sessions    *)
(* typed.                                                                     *)
LEMMA SessionsStayTyped ==
    ASSUME IInv, NEW w \in Workers, NEW op, End(w, op),
           Present \subseteq Present', DOMAIN invites \subseteq (DOMAIN invites)'
    PROVE  \A v \in Workers : SessionTyped(sess[v])'
  <1>1. sess' = [sess EXCEPT ![w] = Idle] /\ DOMAIN sess = Workers
    BY DEF End, IInv, TypeOK
  <1>2. \A v \in Workers : SessionTyped(sess[v])
    BY DEF IInv
  <1>3. TAKE v \in Workers
  <1>4. CASE v = w
    BY <1>1, <1>4 DEF SessionTyped
  <1>5. CASE v # w
    <2>1. sess'[v] = sess[v] /\ SessionTyped(sess[v])
      BY <1>1, <1>2, <1>5
    <2> QED
      BY <2>1 DEF SessionTyped
  <1> QED
    BY <1>4, <1>5

(* Tariffs and invitations are in order if they have not changed.             *)
LEMMA TariffAtRest ==
    ASSUME IInv, NEW w \in Workers, NEW op, End(w, op), UNCHANGED tariff
    PROVE  ("tariff" \in crossed \/ TariffManaged)'
  <1>1. sess' = [sess EXCEPT ![w] = Idle] /\ DOMAIN sess = Workers /\ crossed \subseteq crossed'
    BY DEF End, IInv, TypeOK
  <1>2. TariffManaged => TariffManaged'
    BY <1>1 DEF TariffManaged, TariffRead, ThresholdsOrdered, RatesTogether, Ordered, Field, Idle
  <1> QED
    BY <1>1, <1>2 DEF IInv

LEMMA InvitesAtRest ==
    ASSUME IInv, NEW w \in Workers, NEW op, End(w, op), UNCHANGED invites
    PROVE  ("invites" \in crossed \/ InvitesManaged)'
  <1>1. sess' = [sess EXCEPT ![w] = Idle] /\ DOMAIN sess = Workers /\ crossed \subseteq crossed'
    BY DEF End, IInv, TypeOK
  <1>2. InvitesManaged => InvitesManaged'
    BY <1>1 DEF InvitesManaged, InviteRead, LastOpen, Idle
  <1> QED
    BY <1>1, <1>2 DEF IInv

LEMMA AccountsAtRest ==
    ASSUME IInv, NEW w \in Workers, NEW op, End(w, op), UNCHANGED <<account, removed>>
    PROVE  ("accounts" \in crossed \/ AccountsManaged)'
  <1>1. sess' = [sess EXCEPT ![w] = Idle] /\ DOMAIN sess = Workers /\ crossed \subseteq crossed'
    BY DEF End, IInv, TypeOK
  <1>2. AccountsManaged => AccountsManaged'
    BY <1>1 DEF AccountsManaged, AccountRead, Idle, Admins, Superadmins
  <1> QED
    BY <1>1, <1>2 DEF IInv

(* Whoever commits on a subject without crossing anybody leaves no other      *)
(* session on it.                                                             *)
LEMMA NobodyElseOn ==
    ASSUME IInv, NEW w \in Workers, NEW op, End(w, op), sess[w].subject \notin crossed'
    PROVE  /\ sess[w].subject \notin crossed
           /\ \A v \in Workers : sess'[v] = Idle \/ (sess'[v] = sess[v] /\ sess[v].subject # sess[w].subject)
  <1>1. sess' = [sess EXCEPT ![w] = Idle] /\ DOMAIN sess = Workers
    BY DEF End, IInv, TypeOK
  <1>2. sess[w].subject \notin crossed /\ \A v \in Workers \ {w} : sess[v].subject # sess[w].subject
    BY DEF End
  <1>3. sess'[w] = Idle /\ \A v \in Workers \ {w} : sess'[v] = sess[v]
    BY <1>1
  <1> QED
    BY <1>2, <1>3

LEMMA CommitToggleKeeps ==
    ASSUME IInv, NEW w \in Workers, CommitToggle(w) PROVE IInv'
  <1> DEFINE s == sess[w]
  <1>1. End(w, "toggle") /\ SessionTyped(s) /\ s.op = "toggle"
    BY DEF CommitToggle, End, IInv
  <1>2. s.subject = "accounts" /\ s.who \in Present /\ s.to \in BOOLEAN /\ s.was \in BOOLEAN
    BY <1>1 DEF SessionTyped, Idle
  <1>3. s.who \in People
    BY <1>2 DEF Present
  <1>4. account' = [account EXCEPT ![s.who].admin = IF s.to # s.was THEN s.to ELSE @]
    BY DEF CommitToggle
  <1>5. TypeOK'
    BY <1>1, <1>2, <1>3, <1>4 DEF CommitToggle, End, IInv, TypeOK
  <1>6. Present' = Present
    BY <1>3, <1>4 DEF Present, IInv, TypeOK
  <1>7. Admins' \subseteq Admins \union {s.who}
    BY <1>3, <1>4 DEF Admins, IInv, TypeOK
  <1>8. Admins' \subseteq Present'
    BY <1>2, <1>6, <1>7 DEF IInv
  <1>9. \A v \in Workers : SessionTyped(sess[v])'
    BY <1>1, <1>6, SessionsStayTyped DEF CommitToggle
  <1>10. ASSUME "accounts" \notin crossed' PROVE AccountsManaged'
    <2>1. /\ "accounts" \notin crossed
          /\ \A v \in Workers : sess'[v] = Idle \/ (sess'[v] = sess[v] /\ sess[v].subject # "accounts")
      BY <1>1, <1>2, <1>10, NobodyElseOn
    <2>2. Admins # {} /\ (removed \/ Superadmins # {}) /\ AccountRead(s)
      BY <2>1 DEF IInv, AccountsManaged
    <2>3. s.was = account[s.who].admin /\ (s.to \/ ~s.was \/ Admins \ {s.who} # {})
      BY <1>1, <2>2 DEF AccountRead
    <2>4. \A u \in People : u # s.who => account'[u] = account[u]
      BY <1>4 DEF IInv, TypeOK
    <2>5. account'[s.who].admin = s.to /\ account'[s.who].level = account[s.who].level
      BY <1>2, <1>3, <1>4, <2>3 DEF IInv, TypeOK
    <2>6. Admins' # {}
      <3>1. CASE s.to
        BY <1>3, <2>5, <3>1 DEF Admins
      <3>2. CASE ~s.to /\ ~s.was
        <4>1. s.who \notin Admins
          BY <2>3, <3>2 DEF Admins
        <4> QED
          BY <2>2, <2>4, <4>1 DEF Admins
      <3>3. CASE ~s.to /\ Admins \ {s.who} # {}
        BY <2>4, <3>3 DEF Admins
      <3> QED
        BY <1>2, <2>3, <3>1, <3>2, <3>3
    <2>7. removed' \/ Superadmins' # {}
      <3>1. CASE removed \/ (s.was /\ ~s.to)
        BY <3>1 DEF CommitToggle
      <3>2. CASE Superadmins # {} /\ ~(s.was /\ ~s.to)
        <4>1. PICK x \in Superadmins : TRUE
          BY <3>2
        <4>2. x \in People /\ account[x].admin /\ account[x].level \in {"none", "superadmin"}
          BY DEF Superadmins, Admins
        <4>3. CASE x # s.who
          BY <2>4, <4>2, <4>3 DEF Superadmins, Admins
        <4>4. CASE x = s.who
          BY <1>2, <2>3, <2>5, <3>2, <4>2, <4>4 DEF Superadmins, Admins
        <4> QED
          BY <4>3, <4>4
      <3> QED
        BY <2>2, <3>1, <3>2
    <2>8. \A v \in Workers : AccountRead(sess[v])'
      <3>1. TAKE v \in Workers
      <3>2. CASE sess'[v] = Idle
        BY <3>2 DEF AccountRead, Idle
      <3>3. CASE sess'[v] = sess[v] /\ sess[v].subject # "accounts"
        <4>1. SessionTyped(sess[v])
          BY DEF IInv
        <4>2. sess[v].op # "toggle" /\ sess[v].op # "access"
          BY <3>3, <4>1 DEF SessionTyped, Idle
        <4> QED
          BY <3>3, <4>2 DEF AccountRead
      <3> QED
        BY <2>1, <3>2, <3>3
    <2> QED
      BY <2>6, <2>7, <2>8 DEF AccountsManaged
  <1>11. /\ ("invites" \in crossed \/ InvitesManaged)'
         /\ ("tariff" \in crossed \/ TariffManaged)'
    BY <1>1, InvitesAtRest, TariffAtRest DEF CommitToggle
  <1> QED
    BY <1>5, <1>8, <1>9, <1>10, <1>11 DEF IInv

LEMMA CommitRoleKeeps ==
    ASSUME IInv, NEW w \in Workers, CommitRole(w) PROVE IInv'
  <1> DEFINE s == sess[w]
  <1>1. End(w, "role") /\ SessionTyped(s) /\ s.op = "role"
    BY DEF CommitRole, End, IInv
  <1>2. s.who \in Present /\ s.to \in {"parent", "nanny"}
    BY <1>1 DEF SessionTyped, Idle
  <1>3. s.who \in People
    BY <1>2 DEF Present
  <1>4. account' = [account EXCEPT ![s.who].role = s.to]
    BY DEF CommitRole
  <1>5. TypeOK'
    BY <1>1, <1>2, <1>3, <1>4 DEF CommitRole, End, IInv, TypeOK, Roles
  <1>6. Present' = Present
    BY <1>2, <1>3, <1>4 DEF Present, IInv, TypeOK
  <1>7. \A u \in People : account'[u].admin = account[u].admin /\ account'[u].level = account[u].level
    BY <1>3, <1>4 DEF IInv, TypeOK
  <1>8. Admins' = Admins /\ Superadmins' = Superadmins
    BY <1>7 DEF Admins, Superadmins
  <1>9. \A v \in Workers : SessionTyped(sess[v])'
    BY <1>1, <1>6, SessionsStayTyped DEF CommitRole
  <1>10. AccountsManaged => AccountsManaged'
    <2>1. sess' = [sess EXCEPT ![w] = Idle] /\ DOMAIN sess = Workers /\ removed' = removed
      BY <1>1 DEF CommitRole, End, IInv, TypeOK
    <2>2. ASSUME NEW v \in Workers, AccountRead(sess[v]) PROVE AccountRead(sess[v])'
      <3>1. CASE v = w
        BY <2>1, <3>1 DEF AccountRead, Idle
      <3>2. CASE v # w
        <4>1. sess'[v] = sess[v] /\ SessionTyped(sess[v])
          BY <2>1, <3>2 DEF IInv
        <4>2. sess[v].op \in {"toggle", "access"} => sess[v].who \in People
          BY <4>1 DEF SessionTyped, Idle, Present
        <4> QED
          BY <1>7, <1>8, <2>2, <4>1, <4>2 DEF AccountRead
      <3> QED
        BY <3>1, <3>2
    <2> QED
      BY <1>8, <2>1, <2>2 DEF AccountsManaged
  <1>11. crossed \subseteq crossed'
    BY <1>1 DEF End
  <1>12. /\ ("invites" \in crossed \/ InvitesManaged)'
         /\ ("tariff" \in crossed \/ TariffManaged)'
    BY <1>1, InvitesAtRest, TariffAtRest DEF CommitRole
  <1> QED
    BY <1>5, <1>6, <1>8, <1>9, <1>10, <1>11, <1>12 DEF IInv

LEMMA CommitAccessKeeps ==
    ASSUME IInv, NEW w \in Workers, CommitAccess(w) PROVE IInv'
  <1> DEFINE s == sess[w]
  <1>1. End(w, "access") /\ SessionTyped(s) /\ s.op = "access"
    BY DEF CommitAccess, End, IInv
  <1>2. s.subject = "accounts" /\ s.who \in Present /\ s.to \in Levels
    BY <1>1 DEF SessionTyped, Idle
  <1>3. s.who \in People
    BY <1>2 DEF Present
  <1>4. account' = [account EXCEPT ![s.who].level =
                        IF s.was = "none" THEN IF @ = "none" THEN s.to ELSE @
                        ELSE IF s.to # s.was THEN s.to ELSE @]
    BY DEF CommitAccess
  <1>5. TypeOK'
    BY <1>1, <1>2, <1>3, <1>4 DEF CommitAccess, End, IInv, TypeOK
  <1>6. \A u \in People : account'[u].admin = account[u].admin /\ account'[u].role = account[u].role
    BY <1>3, <1>4 DEF IInv, TypeOK
  <1>7. Present' = Present /\ Admins' = Admins
    BY <1>6 DEF Present, Admins
  <1>8. \A v \in Workers : SessionTyped(sess[v])'
    BY <1>1, <1>7, SessionsStayTyped DEF CommitAccess
  <1>9. ASSUME "accounts" \notin crossed' PROVE AccountsManaged'
    <2>1. /\ "accounts" \notin crossed
          /\ \A v \in Workers : sess'[v] = Idle \/ (sess'[v] = sess[v] /\ sess[v].subject # "accounts")
      BY <1>1, <1>2, <1>9, NobodyElseOn
    <2>2. Admins # {} /\ (removed \/ Superadmins # {}) /\ AccountRead(s)
      BY <2>1 DEF IInv, AccountsManaged
    <2>3. /\ s.was = account[s.who].level /\ s.who \in Admins
          /\ s.to = "superadmin" \/ Superadmins \ {s.who} # {}
      BY <1>1, <2>2 DEF AccountRead
    <2>4. \A u \in People : u # s.who => account'[u] = account[u]
      BY <1>4 DEF IInv, TypeOK
    <2>5. account'[s.who].level = s.to
      BY <1>2, <1>3, <1>4, <2>3 DEF IInv, TypeOK
    <2>6. Superadmins' # {}
      <3>1. CASE s.to = "superadmin"
        BY <1>7, <2>3, <2>5, <3>1 DEF Superadmins
      <3>2. CASE Superadmins \ {s.who} # {}
        <4>1. PICK x \in Superadmins \ {s.who} : TRUE
          BY <3>2
        <4>2. x \in People /\ x \in Admins /\ account[x].level \in {"none", "superadmin"}
          BY DEF Superadmins, Admins
        <4>3. account'[x] = account[x]
          BY <2>4, <4>1, <4>2
        <4> QED
          BY <1>7, <4>2, <4>3 DEF Superadmins
      <3> QED
        BY <2>3, <3>1, <3>2
    <2>7. \A v \in Workers : AccountRead(sess[v])'
      <3>1. TAKE v \in Workers
      <3>2. CASE sess'[v] = Idle
        BY <3>2 DEF AccountRead, Idle
      <3>3. CASE sess'[v] = sess[v] /\ sess[v].subject # "accounts"
        <4>1. SessionTyped(sess[v])
          BY DEF IInv
        <4>2. sess[v].op # "toggle" /\ sess[v].op # "access"
          BY <3>3, <4>1 DEF SessionTyped, Idle
        <4> QED
          BY <3>3, <4>2 DEF AccountRead
      <3> QED
        BY <2>1, <3>2, <3>3
    <2> QED
      BY <1>7, <2>2, <2>6, <2>7 DEF AccountsManaged
  <1>10. /\ ("invites" \in crossed \/ InvitesManaged)'
         /\ ("tariff" \in crossed \/ TariffManaged)'
    BY <1>1, InvitesAtRest, TariffAtRest DEF CommitAccess
  <1> QED
    BY <1>5, <1>7, <1>8, <1>9, <1>10 DEF IInv

(* Nobody else is about to change an invitation.                              *)
LEMMA OthersReadNothing ==
    ASSUME IInv, NEW w \in Workers, NEW op, End(w, op), sess[w].subject = "invites",
           "invites" \notin crossed'
    PROVE  InvitesManaged /\ \A v \in Workers : InviteRead(sess[v])'
  <1>1. /\ "invites" \notin crossed
        /\ \A v \in Workers : sess'[v] = Idle \/ (sess'[v] = sess[v] /\ sess[v].subject # "invites")
    BY NobodyElseOn
  <1>2. ASSUME NEW v \in Workers PROVE InviteRead(sess[v])'
    <2>1. CASE sess'[v] = Idle
      BY <2>1 DEF InviteRead, Idle
    <2>2. CASE sess'[v] = sess[v] /\ sess[v].subject # "invites"
      <3>1. SessionTyped(sess[v])
        BY DEF IInv
      <3>2. sess[v].op \notin {"invite", "close", "accept"}
        BY <2>2, <3>1 DEF SessionTyped, Idle
      <3> QED
        BY <2>2, <3>2 DEF InviteRead
    <2> QED
      BY <1>1, <2>1, <2>2
  <1> QED
    BY <1>1, <1>2 DEF IInv

LEMMA CommitInviteKeeps ==
    ASSUME IInv, NEW w \in Workers, CommitInvite(w) PROVE IInv'
  <1> DEFINE s == sess[w]
             new == [who |-> s.who, level |-> s.level, status |-> "pending",
                     expires |-> today + DaysValid]
             kept == [i \in DOMAIN invites |->
                        IF i \in Replaced(s.seen)
                        THEN [invites[i] EXCEPT !.status = "cancelled"] ELSE invites[i]]
  <1>1. End(w, "invite") /\ SessionTyped(s) /\ s.op = "invite"
    BY DEF CommitInvite, End, IInv
  <1>2. s.subject = "invites" /\ s.who \in People /\ s.level \in Levels
    BY <1>1 DEF SessionTyped, Idle
  <1>3. invites' = Append(kept, new)
    BY DEF CommitInvite
  <1>4. new \in Invitation
    BY <1>2 DEF Invitation, Statuses, DaysValid, IInv, TypeOK
  <1>5. invites \in Seq(Invitation) /\ DOMAIN invites = 1..Len(invites) /\ Len(invites) \in Nat
    BY DEF IInv, TypeOK
  <1>6. \A i \in DOMAIN invites : invites[i] \in Invitation /\ kept[i] \in Invitation
    <2>1. TAKE i \in DOMAIN invites
    <2>2. invites[i] \in Invitation
      BY <1>5
    <2>3. kept[i] = invites[i] \/ kept[i] = [invites[i] EXCEPT !.status = "cancelled"]
      OBVIOUS
    <2>4. [invites[i] EXCEPT !.status = "cancelled"] \in Invitation
      BY <2>2 DEF Invitation, Statuses
    <2> QED
      BY <2>2, <2>3, <2>4
  <1>7. kept \in Seq(Invitation) /\ Len(kept) = Len(invites)
    BY <1>5, <1>6
  <1>8. /\ invites' \in Seq(Invitation) /\ Len(invites') = Len(invites) + 1
        /\ \A i \in DOMAIN invites : invites'[i] = kept[i]
        /\ invites'[Len(invites) + 1] = new
    BY <1>3, <1>4, <1>5, <1>7
  <1>9. DOMAIN invites \subseteq (DOMAIN invites)'
    BY <1>5, <1>8
  <1>10. TypeOK'
    BY <1>1, <1>8 DEF CommitInvite, End, IInv, TypeOK
  <1>11. Present' = Present /\ Admins' = Admins
    BY DEF CommitInvite, Present, Admins
  <1>12. \A v \in Workers : SessionTyped(sess[v])'
    BY <1>1, <1>9, <1>11, SessionsStayTyped
  <1>13. ASSUME "invites" \notin crossed' PROVE InvitesManaged'
    <2>1. InvitesManaged /\ \A v \in Workers : InviteRead(sess[v])'
      BY <1>1, <1>2, <1>13, OthersReadNothing
    <2>2. s.seen = {i \in DOMAIN invites : invites[i].who = s.who}
      BY <1>1, <2>1 DEF InvitesManaged, InviteRead
    <2>3. \A i \in DOMAIN invites : kept[i].who = invites[i].who
      BY <1>6 DEF Invitation
    <2>4. \A i \in DOMAIN invites :
             kept[i].status = "pending" => invites[i].status = "pending" /\ invites[i].who # s.who
      BY <1>6, <2>2 DEF Replaced, Invitation
    <2>5. ASSUME NEW i \in 1..(Len(invites) + 1), NEW j \in 1..(Len(invites) + 1),
                 invites'[i].status = "pending", invites'[j].who = invites'[i].who
          PROVE  j <= i
      <3>1. CASE i = Len(invites) + 1
        BY <1>5, <3>1
      <3>2. CASE i \in DOMAIN invites
        <4>1. invites[i].status = "pending" /\ invites'[i].who = invites[i].who
              /\ invites[i].who # s.who
          BY <1>8, <2>3, <2>4, <2>5, <3>2
        <4>2. j # Len(invites) + 1
          BY <1>8, <2>5, <4>1
        <4>3. j \in DOMAIN invites
          BY <1>5, <4>2
        <4> QED
          BY <1>8, <2>1, <2>3, <2>5, <3>2, <4>1, <4>3 DEF InvitesManaged, LastOpen
      <3> QED
        BY <1>5, <3>1, <3>2
    <2>6. LastOpen'
      BY <1>8, <2>5 DEF LastOpen
    <2> QED
      BY <2>1, <2>6 DEF InvitesManaged
  <1>14. /\ ("accounts" \in crossed \/ AccountsManaged)'
         /\ ("tariff" \in crossed \/ TariffManaged)'
    BY <1>1, AccountsAtRest, TariffAtRest DEF CommitInvite
  <1> QED
    BY <1>10, <1>11, <1>12, <1>13, <1>14 DEF IInv

LEMMA CommitCloseKeeps ==
    ASSUME IInv, NEW w \in Workers, CommitClose(w) PROVE IInv'
  <1> DEFINE s == sess[w]
  <1>1. End(w, "close") /\ SessionTyped(s) /\ s.op = "close"
    BY DEF CommitClose, End, IInv
  <1>2. s.subject = "invites" /\ s.id \in DOMAIN invites /\ s.to \in {"cancelled", "expired"}
    BY <1>1 DEF SessionTyped, Idle
  <1>3. invites' = [invites EXCEPT ![s.id].status = s.to]
    BY DEF CommitClose
  <1>4. [invites[s.id] EXCEPT !.status = s.to] \in Invitation
    <2>1. invites[s.id] \in Invitation
      BY <1>2 DEF IInv, TypeOK
    <2> QED
      BY <1>2, <2>1 DEF Invitation, Statuses
  <1>5. invites' \in Seq(Invitation) /\ DOMAIN invites' = DOMAIN invites
    BY <1>2, <1>3, <1>4 DEF IInv, TypeOK
  <1>6. TypeOK'
    BY <1>1, <1>5 DEF CommitClose, End, IInv, TypeOK
  <1>7. Present' = Present /\ Admins' = Admins
    BY DEF CommitClose, Present, Admins
  <1>8. \A v \in Workers : SessionTyped(sess[v])'
    BY <1>1, <1>5, <1>7, SessionsStayTyped
  <1>9. ASSUME "invites" \notin crossed' PROVE InvitesManaged'
    <2>1. InvitesManaged /\ \A v \in Workers : InviteRead(sess[v])'
      BY <1>1, <1>2, <1>9, OthersReadNothing
    <2>2. /\ \A i \in DOMAIN invites \ {s.id} : invites'[i] = invites[i]
          /\ invites'[s.id] = [invites[s.id] EXCEPT !.status = s.to]
      BY <1>2, <1>3 DEF IInv, TypeOK
    <2>3. invites'[s.id].who = invites[s.id].who /\ invites'[s.id].status # "pending"
      BY <1>2, <2>2 DEF Invitation, IInv, TypeOK
    <2>4. LastOpen'
      BY <1>5, <2>1, <2>2, <2>3 DEF InvitesManaged, LastOpen
    <2> QED
      BY <2>1, <2>4 DEF InvitesManaged
  <1>10. /\ ("accounts" \in crossed \/ AccountsManaged)'
         /\ ("tariff" \in crossed \/ TariffManaged)'
    BY <1>1, AccountsAtRest, TariffAtRest DEF CommitClose
  <1> QED
    BY <1>6, <1>7, <1>8, <1>9, <1>10 DEF IInv

(* A new administrator takes nothing away from the others.                    *)
LEMMA NewAdmin ==
    ASSUME IInv, NEW w \in Workers, NEW op, End(w, op), NEW u \in People \ Present, NEW l \in Levels,
           account' = [account EXCEPT ![u] = [admin |-> TRUE, level |-> l, role |-> "admin"]],
           UNCHANGED removed
    PROVE  /\ Present \subseteq Present' /\ Admins' \subseteq Present'
           /\ ("accounts" \in crossed \/ AccountsManaged)'
  <1>1. /\ \A x \in People : x # u => account'[x] = account[x]
        /\ account'[u] = [admin |-> TRUE, level |-> l, role |-> "admin"]
    BY DEF IInv, TypeOK
  <1>2. Present' = Present \union {u} /\ Admins' = Admins \union {u}
    BY <1>1 DEF Present, Admins
  <1>3. Superadmins \subseteq Superadmins'
    <2>1. u \notin Admins
      BY DEF IInv
    <2> QED
      BY <1>1, <1>2, <2>1 DEF Superadmins, Admins
  <1>4. ASSUME NEW v \in Workers, AccountRead(sess[v]) PROVE AccountRead(sess[v])'
    <2>1. sess'[v] = Idle \/ sess'[v] = sess[v]
      BY DEF End, IInv, TypeOK
    <2>2. CASE sess'[v] = Idle
      BY <2>2 DEF AccountRead, Idle
    <2>3. CASE sess'[v] = sess[v]
      <3>1. SessionTyped(sess[v])
        BY DEF IInv
      <3>2. sess[v].op \in {"toggle", "access"} => sess[v].who \in Present
        BY <3>1 DEF SessionTyped, Idle
      <3>3. sess[v].op \in {"toggle", "access"} => account'[sess[v].who] = account[sess[v].who]
        BY <1>1, <3>2 DEF Present
      <3> QED
        BY <1>2, <1>3, <1>4, <2>3, <3>3 DEF AccountRead
    <2> QED
      BY <2>1, <2>2, <2>3
  <1>5. AccountsManaged => AccountsManaged'
    BY <1>2, <1>3, <1>4 DEF AccountsManaged
  <1>6. crossed \subseteq crossed'
    BY DEF End
  <1> QED
    BY <1>2, <1>5, <1>6 DEF IInv

LEMMA CommitAcceptKeeps ==
    ASSUME IInv, NEW w \in Workers, CommitAccept(w) PROVE IInv'
  <1> DEFINE s == sess[w]
             u == invites[s.id].who
             l == invites[s.id].level
  <1>1. End(w, "accept") /\ SessionTyped(s) /\ s.op = "accept"
    BY DEF CommitAccept, End, IInv
  <1>2. s.subject = "invites" /\ s.id \in DOMAIN invites
    BY <1>1 DEF SessionTyped, Idle
  <1>3. invites[s.id] \in Invitation /\ u \in People /\ l \in Levels
    <2>1. invites[s.id] \in Invitation
      BY <1>2 DEF IInv, TypeOK
    <2> QED
      BY <2>1 DEF Invitation
  <1>4. ("tariff" \in crossed \/ TariffManaged)'
    BY <1>1, TariffAtRest DEF CommitAccept
  <1>5. CASE u \in Present
    <2>1. UNCHANGED <<account, invites, tariff, today, removed>>
      BY <1>5 DEF CommitAccept
    <2>2. Present' = Present /\ Admins' = Admins
      BY <2>1 DEF Present, Admins
    <2>3. TypeOK'
      BY <1>1, <2>1 DEF End, IInv, TypeOK
    <2>4. \A v \in Workers : SessionTyped(sess[v])'
      BY <1>1, <2>1, <2>2, SessionsStayTyped
    <2>5. /\ ("accounts" \in crossed \/ AccountsManaged)'
          /\ ("invites" \in crossed \/ InvitesManaged)'
      BY <1>1, <2>1, AccountsAtRest, InvitesAtRest
    <2> QED
      BY <1>4, <2>2, <2>3, <2>4, <2>5 DEF IInv
  <1>6. CASE u \notin Present
    <2>1. /\ account' = [account EXCEPT ![u] = [admin |-> TRUE, level |-> l, role |-> "admin"]]
          /\ invites' = [invites EXCEPT ![s.id].status = "accepted"]
          /\ UNCHANGED <<tariff, today, removed>>
      BY <1>6 DEF CommitAccept
    <2>2. [invites[s.id] EXCEPT !.status = "accepted"] \in Invitation
      BY <1>3 DEF Invitation, Statuses
    <2>3. invites' \in Seq(Invitation) /\ DOMAIN invites' = DOMAIN invites
      BY <1>2, <2>1, <2>2 DEF IInv, TypeOK
    <2>4. account' \in [People -> [admin : BOOLEAN, level : Levels \union {"none"}, role : Roles]]
      BY <1>3, <2>1 DEF IInv, TypeOK, Roles
    <2>5. TypeOK'
      BY <1>1, <2>1, <2>3, <2>4 DEF End, IInv, TypeOK
    <2>6. /\ Present \subseteq Present' /\ Admins' \subseteq Present'
          /\ ("accounts" \in crossed \/ AccountsManaged)'
      BY <1>1, <1>3, <1>6, <2>1, NewAdmin
    <2>7. \A v \in Workers : SessionTyped(sess[v])'
      BY <1>1, <2>3, <2>6, SessionsStayTyped
    <2>8. ASSUME "invites" \notin crossed' PROVE InvitesManaged'
      <3>1. InvitesManaged /\ \A v \in Workers : InviteRead(sess[v])'
        BY <1>1, <1>2, <2>8, OthersReadNothing
      <3>2. /\ \A i \in DOMAIN invites \ {s.id} : invites'[i] = invites[i]
            /\ invites'[s.id] = [invites[s.id] EXCEPT !.status = "accepted"]
        BY <1>2, <2>1 DEF IInv, TypeOK
      <3>3. invites'[s.id].who = u /\ invites'[s.id].status # "pending"
        BY <1>3, <3>2 DEF Invitation
      <3>4. LastOpen'
        BY <2>3, <3>1, <3>2, <3>3 DEF InvitesManaged, LastOpen
      <3> QED
        BY <3>1, <3>4 DEF InvitesManaged
    <2> QED
      BY <1>4, <2>5, <2>6, <2>7, <2>8 DEF IInv
  <1> QED
    BY <1>5, <1>6

(* What is saved is one of the tariffs, or leaves the rates of the days.      *)
LEMMA SavedTogether ==
    ASSUME RatesTogether, NEW new \in Values,
           DOMAIN tariff = {"half", "full", "first", "second"},
           tariff' = [k \in DOMAIN tariff |->
                         IF Field(new, tariff, k) # tariff[k] THEN new[k] ELSE tariff[k]]
    PROVE  RatesTogether'
  <1>1. /\ tariff'.half = Field(new, tariff, "half")
        /\ tariff'.full = Field(new, tariff, "full")
    BY DEF Field
  <1>2. CASE new \in Rates
    <2>1. DOMAIN new = {"half", "full"}
      BY <1>2, TeamTyped
    <2> QED
      BY <1>1, <1>2, <2>1 DEF Field, RatesTogether
  <1>3. CASE new \notin Rates
    <2>1. "half" \notin DOMAIN new /\ "full" \notin DOMAIN new
      BY <1>3 DEF Values
    <2> QED
      BY <1>1, <2>1 DEF Field, RatesTogether
  <1> QED
    BY <1>2, <1>3

LEMMA CommitSaveKeeps ==
    ASSUME IInv, NEW w \in Workers, CommitSave(w) PROVE IInv'
  <1> DEFINE s == sess[w]
  <1>1. End(w, "save") /\ SessionTyped(s) /\ s.op = "save"
    BY DEF CommitSave, End, IInv
  <1>2. s.subject = "tariff" /\ s.new \in Values /\ \A k \in {"first", "second"} : k \in DOMAIN s.new => s.new[k] \in 0..23
    BY <1>1 DEF SessionTyped, Idle
  <1>3. tariff' = [k \in DOMAIN tariff |->
                      IF Field(s.new, s.was, k) # s.was[k] THEN s.new[k] ELSE tariff[k]]
    BY DEF CommitSave
  <1>4. DOMAIN tariff = {"half", "full", "first", "second"}
    BY DEF IInv, TypeOK
  <1>5. \A k \in {"first", "second"} : tariff'[k] \in 0..23
    BY <1>2, <1>3, <1>4 DEF Field, IInv, TypeOK
  <1>6. TypeOK'
    <2>1. DOMAIN tariff' = {"half", "full", "first", "second"}
      BY <1>3, <1>4
    <2> QED
      BY <1>1, <1>5, <2>1 DEF CommitSave, End, IInv, TypeOK
  <1>7. Present' = Present /\ Admins' = Admins
    BY DEF CommitSave, Present, Admins
  <1>8. \A v \in Workers : SessionTyped(sess[v])'
    BY <1>1, <1>7, SessionsStayTyped DEF CommitSave
  <1>9. ASSUME "tariff" \notin crossed' PROVE TariffManaged'
    <2>1. /\ "tariff" \notin crossed
          /\ \A v \in Workers : sess'[v] = Idle \/ (sess'[v] = sess[v] /\ sess[v].subject # "tariff")
      BY <1>1, <1>2, <1>9, NobodyElseOn
    <2>2. s.was = tariff /\ Ordered(s.new, s.was)
      BY <1>1, <2>1 DEF IInv, TariffManaged, TariffRead
    <2>3. \A k \in {"first", "second"} : tariff'[k] = Field(s.new, tariff, k)
      BY <1>3, <1>4, <2>2 DEF Field
    <2>4. ThresholdsOrdered'
      BY <2>2, <2>3 DEF ThresholdsOrdered, Ordered
    <2>a. RatesTogether'
      BY <1>2, <1>3, <1>4, <2>1, <2>2, SavedTogether DEF IInv, TariffManaged
    <2>5. ASSUME NEW v \in Workers PROVE TariffRead(sess[v])'
      <3>1. CASE sess'[v] = Idle
        BY <3>1 DEF TariffRead, Idle
      <3>2. CASE sess'[v] = sess[v] /\ sess[v].subject # "tariff"
        <4>1. SessionTyped(sess[v])
          BY DEF IInv
        <4>2. sess[v].op # "save"
          BY <3>2, <4>1 DEF SessionTyped, Idle
        <4> QED
          BY <3>2, <4>2 DEF TariffRead
      <3> QED
        BY <2>1, <3>1, <3>2
    <2> QED
      BY <2>4, <2>a, <2>5 DEF TariffManaged
  <1>10. /\ ("accounts" \in crossed \/ AccountsManaged)'
         /\ ("invites" \in crossed \/ InvitesManaged)'
    BY <1>1, AccountsAtRest, InvitesAtRest DEF CommitSave
  <1> QED
    BY <1>6, <1>7, <1>8, <1>9, <1>10 DEF IInv

----------------------------------------------------------------------------

LEMMA DayKeeps == ASSUME IInv, DayPasses PROVE IInv'
  <1>1. today + 1 \in Nat
    BY DEF IInv, TypeOK
  <1>2. Admins' = Admins /\ Superadmins' = Superadmins /\ Present' = Present
    BY DEF DayPasses, Admins, Superadmins, Present
  <1>3. TypeOK'
    BY <1>1 DEF DayPasses, IInv, TypeOK
  <1>4. \A w \in Workers : SessionTyped(sess[w])'
    BY <1>2 DEF DayPasses, IInv, SessionTyped
  <1>5. /\ AccountsManaged => AccountsManaged'
        /\ InvitesManaged => InvitesManaged'
        /\ TariffManaged => TariffManaged'
    BY <1>2 DEF DayPasses, AccountsManaged, AccountRead, InvitesManaged, InviteRead, LastOpen,
                TariffManaged, TariffRead, ThresholdsOrdered, RatesTogether, Ordered, Field
  <1> QED
    BY <1>2, <1>3, <1>4, <1>5 DEF DayPasses, IInv

LEMMA StutterKeeps == ASSUME IInv, UNCHANGED vars PROVE IInv'
  <1>1. Admins' = Admins /\ Superadmins' = Superadmins /\ Present' = Present
    BY DEF vars, Admins, Superadmins, Present
  <1>2. TypeOK'
    BY DEF vars, IInv, TypeOK
  <1>3. \A w \in Workers : SessionTyped(sess[w])'
    BY <1>1 DEF vars, IInv, SessionTyped
  <1>4. /\ AccountsManaged => AccountsManaged'
        /\ InvitesManaged => InvitesManaged'
        /\ TariffManaged => TariffManaged'
    BY <1>1 DEF vars, AccountsManaged, AccountRead, InvitesManaged, InviteRead, LastOpen,
                TariffManaged, TariffRead, ThresholdsOrdered, RatesTogether, Ordered, Field
  <1> QED
    BY <1>1, <1>2, <1>3, <1>4 DEF vars, IInv

LEMMA StepKeeps == ASSUME IInv, [Next]_vars PROVE IInv'
  <1>1. CASE DayPasses
    BY <1>1, DayKeeps
  <1>2. CASE UNCHANGED vars
    BY <1>2, StutterKeeps
  <1>3. ASSUME NEW w \in Workers PROVE BeginToggle(w) \/ BeginRole(w) \/ BeginAccess(w) \/ BeginInvite(w) => IInv'
    BY BeginToggleKeeps, BeginRoleKeeps, BeginAccessKeeps, BeginInviteKeeps
  <1>4. ASSUME NEW w \in Workers PROVE BeginExpire(w) \/ BeginCancel(w) \/ BeginAccept(w) \/ BeginSave(w) => IInv'
    BY BeginCloseKeeps, BeginAcceptKeeps, BeginSaveKeeps
  <1>5. ASSUME NEW w \in Workers PROVE CommitToggle(w) \/ CommitRole(w) \/ CommitAccess(w) \/ CommitInvite(w) => IInv'
    BY CommitToggleKeeps, CommitRoleKeeps, CommitAccessKeeps, CommitInviteKeeps
  <1>6. ASSUME NEW w \in Workers PROVE CommitClose(w) \/ CommitAccept(w) \/ CommitSave(w) => IInv'
    BY CommitCloseKeeps, CommitAcceptKeeps, CommitSaveKeeps
  <1> QED
    BY <1>1, <1>2, <1>3, <1>4, <1>5, <1>6 DEF Next

LEMMA Invariance == Spec => []IInv
  <1>1. Init => IInv
    BY Initially
  <1>2. IInv /\ [Next]_vars => IInv'
    BY StepKeeps
  <1> QED
    BY <1>1, <1>2, PTL DEF Spec

(* Accounts, invitations and settings keep their types, whatever crosses.     *)
THEOREM TeamTypes == Spec => []TypeOK
  <1>1. IInv => TypeOK
    BY DEF IInv
  <1> QED
    BY <1>1, Invariance, PTL

(* For any number of workers, people and calls: unless two changes of         *)
(* accounts cross, the team keeps an administrator, and a superadmin unless   *)
(* rights were taken away.                                                    *)
THEOREM AdminsRemain == Spec => []TeamStaysManaged
  <1>1. IInv => TeamStaysManaged
    BY DEF IInv, AccountsManaged, TeamStaysManaged
  <1> QED
    BY <1>1, Invariance, PTL

(* Unless two changes of invitations cross, an address has one open           *)
(* invitation, the one sent last.                                             *)
THEOREM LastInviteOpen == Spec => []OneInviteOpen
  <1>1. IInv => OneInviteOpen
    BY DEF IInv, InvitesManaged, LastOpen, OneInviteOpen, PendingOf
  <1> QED
    BY <1>1, Invariance, PTL

(* Unless two savings of the settings cross, the first threshold of safe      *)
(* transport stays below the second.                                          *)
THEOREM ThresholdsStayOrdered == Spec => []("tariff" \in crossed \/ ThresholdsOrdered)
  <1>1. IInv => "tariff" \in crossed \/ ThresholdsOrdered
    BY DEF IInv, TariffManaged
  <1> QED
    BY <1>1, Invariance, PTL

----------------------------------------------------------------------------
(* Prices                                                                    *)

Kinds == {"week", "weekend"}

(* Tariffs under which a longer service is never cheaper: a half day costs no *)
(* more than a full day, and no less than two and a half hours of a morning.  *)
Sound(rates) ==
    /\ {rates.half, rates.full, rates.after17, rates.over9} \subseteq PerKind
    /\ {rates.sleepover, rates.after7, rates.feePercent} \subseteq Nat
    /\ \A k \in Kinds : /\ rates.half[k] <= rates.full[k]
                        /\ PerHour(5, rates.after7) <= rates.half[k]

LEMMA RoundsToNat ==
    ASSUME NEW n \in Nat, NEW d \in {2, 100}
    PROVE  RoundHalfEven(n, d) \in Nat
  BY DEF RoundHalfEven

(* Rounding keeps the order.                                                 *)
LEMMA RoundKeepsOrder ==
    ASSUME NEW n \in Nat, NEW m \in Nat, n <= m, NEW d \in {2, 100}
    PROVE  RoundHalfEven(n, d) <= RoundHalfEven(m, d)
  <1>1. CASE d = 2
    BY <1>1 DEF RoundHalfEven
  <1>2. CASE d = 100
    BY <1>2 DEF RoundHalfEven
  <1> QED
    BY <1>1, <1>2

LEMMA ProductKeepsOrder ==
    ASSUME NEW h \in Nat, NEW k \in Nat, h <= k, NEW rate \in Nat
    PROVE  h * rate \in Nat /\ k * rate \in Nat /\ h * rate <= k * rate
  <1> PICK j : j = k - h
    OBVIOUS
  <1>1. j \in Nat /\ k = h + j
    OBVIOUS
  <1>2. k * rate = h * rate + j * rate /\ h * rate \in Nat /\ j * rate \in Nat
    BY <1>1
  <1> QED
    BY <1>2

LEMMA PerHourOrder ==
    ASSUME NEW h \in Nat, NEW k \in Nat, h <= k, NEW rate \in Nat
    PROVE  /\ PerHour(h, rate) \in Nat /\ PerHour(k, rate) \in Nat
           /\ PerHour(h, rate) <= PerHour(k, rate)
  <1>1. h * rate \in Nat /\ k * rate \in Nat /\ h * rate <= k * rate
    BY ProductKeepsOrder
  <1> QED
    BY <1>1, RoundsToNat, RoundKeepsOrder DEF PerHour

LEMMA PerHourNat == ASSUME NEW h \in Nat, NEW rate \in Nat PROVE PerHour(h, rate) \in Nat
  BY PerHourOrder

LEMMA SoundKinds ==
    ASSUME NEW rates, Sound(rates), NEW kind \in Kinds
    PROVE  /\ rates.half[kind] \in Nat /\ rates.full[kind] \in Nat
           /\ rates.after17[kind] \in Nat /\ rates.over9[kind] \in Nat
           /\ rates.sleepover \in Nat /\ rates.after7 \in Nat /\ rates.feePercent \in Nat
           /\ rates.half[kind] <= rates.full[kind]
           /\ PerHour(5, rates.after7) <= rates.half[kind]
  BY DEF Sound, Kinds, PerKind

(* A longer day costs no less (_compute_day_rate).                           *)
LEMMA DayOrder ==
    ASSUME NEW rates, Sound(rates), NEW kind \in Kinds, NEW h \in Nat
    PROVE  /\ DayRate(rates, h, kind) \in Nat /\ DayRate(rates, h, kind) >= rates.half[kind]
           /\ DayRate(rates, h, kind) <= DayRate(rates, h + 1, kind)
  <1>1. /\ rates.half[kind] \in Nat /\ rates.full[kind] \in Nat /\ rates.over9[kind] \in Nat
        /\ rates.half[kind] <= rates.full[kind]
    BY SoundKinds
  <1>2. CASE h <= 17
    BY <1>1, <1>2 DEF DayRate
  <1>3. CASE h = 18
    <2>1. PerHour(1, rates.over9[kind]) \in Nat
      BY <1>1, PerHourNat
    <2> QED
      BY <1>1, <1>3, <2>1 DEF DayRate
  <1>4. CASE h > 18
    <2>1. h - 18 \in Nat /\ (h + 1) - 18 \in Nat /\ h - 18 <= (h + 1) - 18
      BY <1>4
    <2>2. /\ PerHour(h - 18, rates.over9[kind]) \in Nat
          /\ PerHour((h + 1) - 18, rates.over9[kind]) \in Nat
          /\ PerHour(h - 18, rates.over9[kind]) <= PerHour((h + 1) - 18, rates.over9[kind])
      BY <1>1, <2>1, PerHourOrder
    <2>3. /\ DayRate(rates, h, kind) = rates.full[kind] + PerHour(h - 18, rates.over9[kind])
          /\ DayRate(rates, h + 1, kind) = rates.full[kind] + PerHour((h + 1) - 18, rates.over9[kind])
      BY <1>4 DEF DayRate
    <2> QED
      BY <1>1, <2>2, <2>3
  <1> QED
    BY <1>2, <1>3, <1>4

LEMMA MorningOrder ==
    ASSUME NEW rates, Sound(rates), NEW kind \in Kinds, NEW h \in Nat
    PROVE  /\ MorningRate(rates, h, kind) \in Nat
           /\ MorningRate(rates, h, kind) <= MorningRate(rates, h + 1, kind)
  <1>1. /\ rates.half[kind] \in Nat /\ rates.after7 \in Nat
        /\ PerHour(5, rates.after7) <= rates.half[kind]
    BY SoundKinds
  <1>2. CASE h < 5
    <2>a. h + 1 \in Nat /\ h <= h + 1
      OBVIOUS
    <2>1. /\ PerHour(h, rates.after7) \in Nat
          /\ PerHour(h, rates.after7) <= PerHour(h + 1, rates.after7)
      BY <1>1, <2>a, PerHourOrder
    <2> QED
      BY <1>2, <2>1 DEF MorningRate
  <1>3. CASE h = 5
    <2>1. PerHour(5, rates.after7) \in Nat
      BY <1>1, PerHourNat
    <2>2. DayRate(rates, 6, kind) \in Nat /\ DayRate(rates, 6, kind) >= rates.half[kind]
      BY DayOrder
    <2>3. MorningRate(rates, h, kind) = PerHour(5, rates.after7)
      BY <1>3 DEF MorningRate
    <2>4. MorningRate(rates, h + 1, kind) = DayRate(rates, 6, kind)
      BY <1>3 DEF MorningRate
    <2> QED
      BY <1>1, <2>1, <2>2, <2>3, <2>4
  <1>4. CASE h > 5
    <2>1. /\ MorningRate(rates, h, kind) = DayRate(rates, h, kind)
          /\ MorningRate(rates, h + 1, kind) = DayRate(rates, h + 1, kind)
      BY <1>4 DEF MorningRate
    <2> QED
      BY <2>1, DayOrder
  <1> QED
    BY <1>2, <1>3, <1>4

Window == [from : Nat, to : Nat, day : Kinds, next : Kinds]

LEMMA WageOrder ==
    ASSUME NEW rates, Sound(rates), NEW x \in Window, x.from < x.to, NEW sleepover \in BOOLEAN,
           NEW y, y = [x EXCEPT !.to = x.to + 1]
    PROVE  /\ Wage(rates, x, sleepover) \in Nat /\ Wage(rates, y, sleepover) \in Nat
           /\ Wage(rates, x, sleepover) <= Wage(rates, y, sleepover)
  <1>1. /\ y.from = x.from /\ y.to = x.to + 1 /\ y.day = x.day /\ y.next = x.next
        /\ x.from \in Nat /\ x.to \in Nat /\ x.day \in Kinds /\ x.next \in Kinds
    BY DEF Window
  <1>2. /\ rates.full[x.day] \in Nat /\ rates.after17[x.day] \in Nat /\ rates.sleepover \in Nat
    BY <1>1, SoundKinds
  <1>3. CASE sleepover
    <2> DEFINE Morning(to) == IF to > NextMorning THEN MorningRate(rates, to - NextMorning, x.next) ELSE 0
    <2>1. Morning(x.to) \in Nat /\ Morning(x.to + 1) \in Nat /\ Morning(x.to) <= Morning(x.to + 1)
      <3>1. NextMorning = 62
        BY DEF NextMorning, Midnight
      <3>2. CASE x.to < 62
        BY <1>1, <3>1, <3>2
      <3>3. CASE x.to = 62
        BY <1>1, <3>1, <3>3, MorningOrder
      <3>4. CASE x.to > 62
        <4>1. x.to - 62 \in Nat /\ (x.to + 1) - 62 = (x.to - 62) + 1
          BY <1>1, <3>4
        <4>2. (x.to - 62) + 1 \in Nat
          BY <4>1
        <4> QED
          BY <1>1, <3>1, <3>4, <4>1, <4>2, MorningOrder
      <3> QED
        BY <1>1, <3>2, <3>3, <3>4
    <2>2. /\ Wage(rates, x, sleepover) = rates.full[x.day] + rates.sleepover + Morning(x.to)
          /\ Wage(rates, y, sleepover) = rates.full[x.day] + rates.sleepover + Morning(x.to + 1)
      BY <1>1, <1>3 DEF Wage
    <2> HIDE DEF Morning
    <2> QED
      BY <1>2, <2>1, <2>2
  <1>4. CASE ~sleepover
    <2> DEFINE Evening(to) == IF to > Seventeen THEN PerHour(to - Seventeen, rates.after17[x.day]) ELSE 0
    <2>1. Evening(x.to) \in Nat /\ Evening(x.to + 1) \in Nat /\ Evening(x.to) <= Evening(x.to + 1)
      <3>1. Seventeen = 34
        BY DEF Seventeen
      <3>2. CASE x.to < 34
        BY <1>1, <3>1, <3>2
      <3>3. CASE x.to = 34
        BY <1>1, <1>2, <3>1, <3>3, PerHourOrder
      <3>4. CASE x.to > 34
        <4>1. x.to - 34 \in Nat /\ (x.to + 1) - 34 \in Nat /\ x.to - 34 <= (x.to + 1) - 34
          BY <1>1, <3>4
        <4> QED
          BY <1>1, <1>2, <3>1, <3>4, <4>1, PerHourOrder
      <3> QED
        BY <1>1, <3>2, <3>3, <3>4
    <2>2. /\ DayRate(rates, x.to - x.from, x.day) \in Nat
          /\ DayRate(rates, (x.to - x.from) + 1, x.day) \in Nat
          /\ DayRate(rates, x.to - x.from, x.day) <= DayRate(rates, (x.to - x.from) + 1, x.day)
      BY <1>1, DayOrder
    <2>3. (x.to + 1) - x.from = (x.to - x.from) + 1
      BY <1>1
    <2>4. /\ Wage(rates, x, sleepover) = DayRate(rates, x.to - x.from, x.day) + Evening(x.to)
          /\ Wage(rates, y, sleepover) = DayRate(rates, (x.to - x.from) + 1, x.day) + Evening(x.to + 1)
      BY <1>1, <1>4, <2>3 DEF Wage
    <2> HIDE DEF Evening
    <2> QED
      BY <2>1, <2>2, <2>4
  <1> QED
    BY <1>3, <1>4

LEMMA CentsOrder ==
    ASSUME NEW rates, Sound(rates), NEW x \in Window, x.from < x.to, NEW sleepover \in BOOLEAN,
           NEW y, y = [x EXCEPT !.to = x.to + 1]
    PROVE  /\ WindowCents(rates, x, sleepover) \in Nat /\ WindowCents(rates, y, sleepover) \in Nat
           /\ WindowCents(rates, x, sleepover) <= WindowCents(rates, y, sleepover)
  <1> PICK a, b : a = Wage(rates, x, sleepover) /\ b = Wage(rates, y, sleepover)
    OBVIOUS
  <1>1. a \in Nat /\ b \in Nat /\ a <= b /\ rates.feePercent \in Nat
    BY WageOrder, SoundKinds DEF Kinds
  <1>2. a * rates.feePercent \in Nat /\ b * rates.feePercent \in Nat
        /\ a * rates.feePercent <= b * rates.feePercent
    BY <1>1, ProductKeepsOrder
  <1>3. Fee(rates, a) \in Nat /\ Fee(rates, b) \in Nat /\ Fee(rates, a) <= Fee(rates, b)
    BY <1>2, RoundsToNat, RoundKeepsOrder DEF Fee
  <1> QED
    BY <1>1, <1>3 DEF WindowCents

(* A job of one window costs what the window does, and the surcharge.        *)
Surcharge(rates, kids) ==
    (kids - 1) * ExtraChildCents + RoundHalfEven((kids - 1) * ExtraChildCents * rates.feePercent, 100)

(* The fold of one term takes it, and starts from zero.                       *)
LEMMA FoldOne ==
    ASSUME NEW f, DOMAIN f = {1}
    PROVE  FoldFunction(+, 0, f) = f[1] + 0
  <1> DEFINE Folds(h) == h = [s \in SUBSET {1} |-> IF s = {} THEN 0
                                                   ELSE LET x == CHOOSE x \in s : TRUE
                                                        IN f[x] + h[s \ {x}]]
             g == [s \in SUBSET {1} |-> IF s = {} THEN 0 ELSE f[1] + 0]
  <1>1. FoldFunction(+, 0, f) = (CHOOSE h : Folds(h))[{1}]
    BY DEF FoldFunction, FoldFunctionOnSet, MapThenFoldSet
  <1>2. ASSUME NEW h, Folds(h) PROVE h[{1}] = f[1] + 0
    <2>1. h[{}] = 0
      BY <1>2
    <2>2. h[{1}] = f[CHOOSE x \in {1} : TRUE] + h[{1} \ {CHOOSE x \in {1} : TRUE}]
      BY <1>2
    <2>3. (CHOOSE x \in {1} : TRUE) = 1 /\ {1} \ {1} = {}
      OBVIOUS
    <2> QED
      BY <2>1, <2>2, <2>3
  <1>3. Folds(g)
    <2>1. \A s \in SUBSET {1} : s = {} \/ s = {1}
      OBVIOUS
    <2>2. (CHOOSE x \in {1} : TRUE) = 1 /\ {1} \ {1} = {}
      OBVIOUS
    <2>3. g[{}] = 0
      OBVIOUS
    <2>4. \A s \in SUBSET {1} :
             g[s] = IF s = {} THEN 0 ELSE LET x == CHOOSE x \in s : TRUE IN f[x] + g[s \ {x}]
      BY <2>1, <2>2, <2>3
    <2> HIDE DEF g
    <2>5. DOMAIN g = SUBSET {1} /\ g = [s \in DOMAIN g |-> g[s]]
      BY DEF g
    <2> QED
      BY <2>4, <2>5
  <1> HIDE DEF Folds
  <1> QED
    BY <1>1, <1>2, <1>3, Zenon

LEMMA OneWindow ==
    ASSUME NEW rates, NEW x, NEW sleepover, NEW kids \in Nat \ {0}, WindowCents(rates, x, sleepover) \in Nat,
           rates.feePercent \in Nat
    PROVE  JobCents(rates, <<x>>, sleepover, kids)
              = WindowCents(rates, x, sleepover) + Surcharge(rates, kids)
  <1> DEFINE cents == [i \in DOMAIN <<x>> |-> WindowCents(rates, <<x>>[i], sleepover)]
  <1> DEFINE surcharge == (kids - 1) * ExtraChildCents * Len(<<x>>)
  <1>1. DOMAIN cents = {1} /\ cents[1] = WindowCents(rates, x, sleepover)
    OBVIOUS
  <1>2. JobCents(rates, <<x>>, sleepover, kids)
           = FoldFunction(+, 0, cents) + surcharge + RoundHalfEven(surcharge * rates.feePercent, 100)
    BY Zenon DEF JobCents
  <1> HIDE DEF cents
  <1>3. FoldFunction(+, 0, cents) = cents[1] + 0
    BY <1>1, FoldOne, Zenon
  <1>4. JobCents(rates, <<x>>, sleepover, kids)
           = (cents[1] + 0) + surcharge + RoundHalfEven(surcharge * rates.feePercent, 100)
    BY <1>2, <1>3, Zenon
  <1>5. (kids - 1) * ExtraChildCents \in Nat /\ surcharge = (kids - 1) * ExtraChildCents
    BY DEF ExtraChildCents
  <1>6. RoundHalfEven((kids - 1) * ExtraChildCents * rates.feePercent, 100) \in Nat
    BY <1>5, ProductKeepsOrder, RoundsToNat
  <1> QED
    BY <1>1, <1>4, <1>5, <1>6 DEF Surcharge

(* Under any sound tariff, at any hours and for any number of children, a     *)
(* service that ends half an hour later costs no less, over the thresholds of *)
(* the tariff and its roundings (_compute_booking_slots_pricing).             *)
THEOREM LongerNeverCheaper ==
    ASSUME NEW rates, Sound(rates), NEW x \in Window, x.from < x.to, NEW sleepover \in BOOLEAN,
           NEW kids \in Nat \ {0}
    PROVE  JobCents(rates, <<x>>, sleepover, kids)
              <= JobCents(rates, <<[x EXCEPT !.to = x.to + 1]>>, sleepover, kids)
  <1> PICK y : y = [x EXCEPT !.to = x.to + 1]
    OBVIOUS
  <1>1. /\ WindowCents(rates, x, sleepover) \in Nat /\ WindowCents(rates, y, sleepover) \in Nat
        /\ WindowCents(rates, x, sleepover) <= WindowCents(rates, y, sleepover)
    BY CentsOrder
  <1>2. rates.feePercent \in Nat
    BY SoundKinds DEF Kinds
  <1>3. Surcharge(rates, kids) \in Nat
    <2>1. (kids - 1) * ExtraChildCents \in Nat
      BY DEF ExtraChildCents
    <2>2. RoundHalfEven((kids - 1) * ExtraChildCents * rates.feePercent, 100) \in Nat
      BY <1>2, <2>1, ProductKeepsOrder, RoundsToNat
    <2> QED
      BY <2>1, <2>2 DEF Surcharge
  <1> QED
    BY <1>1, <1>2, <1>3, OneWindow

LEMMA LongerCosts ==
    ASSUME NEW rates, Sound(rates)
    PROVE  LongerCostsNoLess(rates)
  <1>1. PricedWindows \subseteq Window /\ 1..2 \subseteq Nat \ {0}
    BY DEF PricedWindows, Window, Kinds, NextMorning, Midnight
  <1> QED
    BY <1>1, LongerNeverCheaper DEF LongerCostsNoLess

(* A half day costs no less than two and a half hours of the morning, and no  *)
(* more than a full day, in each of the tariffs that are saved.               *)
RatesInOrder == \A v \in Rates : \A k \in Kinds : 112 <= v.half[k] /\ v.half[k] <= v.full[k]

LEMMA StoredSound ==
    ASSUME RatesInOrder, NEW v \in Rates \union {PricingRates}
    PROVE  Sound([PricingRates EXCEPT !.half = v.half, !.full = v.full])
  <1> PICK r : r = [PricingRates EXCEPT !.half = v.half, !.full = v.full]
    OBVIOUS
  <1>1. v.half \in PerKind /\ v.full \in PerKind
    BY TeamTyped DEF PricingRates, PerKind
  <1>2. \A k \in Kinds : 112 <= v.half[k] /\ v.half[k] <= v.full[k]
    BY DEF RatesInOrder, PricingRates, Kinds
  <1>3. PerHour(5, 45) = 112
    BY DEF PerHour, RoundHalfEven
  <1>4. /\ {r.half, r.full, r.after17, r.over9} \subseteq PerKind
        /\ {r.sleepover, r.after7, r.feePercent} \subseteq Nat
    <2>1. r.after17 = [week |-> 30, weekend |-> 35] /\ r.over9 = [week |-> 45, weekend |-> 50]
      BY DEF PricingRates
    <2>2. r.after17 \in PerKind /\ r.over9 \in PerKind
      BY <2>1 DEF PerKind
    <2>3. r.half = v.half /\ r.full = v.full
      BY DEF PricingRates
    <2>4. r.sleepover \in Nat /\ r.after7 \in Nat /\ r.feePercent \in Nat
      BY DEF PricingRates
    <2> QED
      BY <1>1, <2>2, <2>3, <2>4
  <1>5. r.half = v.half /\ r.full = v.full /\ r.after7 = 45
    BY DEF PricingRates
  <1> QED
    BY <1>2, <1>3, <1>4, <1>5 DEF Sound

(* However the settings are saved, in parts or together, while no two savings *)
(* cross: the first threshold of safe transport is below the second, and a    *)
(* longer service costs no less with the rates that are stored, if each saved *)
(* tariff has its half day below its full day (update_pricing_settings, which *)
(* does not ask for that).                                                    *)
THEOREM PricesAlwaysFollow ==
    ASSUME RatesInOrder
    PROVE  Spec => []PricesFollowService
  <1>1. IInv => PricesFollowService
    <2> SUFFICES ASSUME IInv, "tariff" \notin crossed PROVE PricesFollowService
      BY DEF PricesFollowService
    <2>1. ThresholdsOrdered /\ RatesTogether
      BY DEF IInv, TariffManaged
    <2>2. PICK v \in Rates \union {PricingRates} : tariff.half = v.half /\ tariff.full = v.full
      BY <2>1 DEF RatesTogether
    <2> PICK r : r = [PricingRates EXCEPT !.half = v.half, !.full = v.full]
      OBVIOUS
    <2>3. LongerCostsNoLess(r)
      BY StoredSound, LongerCosts
    <2>4. r \in FairRates
      BY <2>3 DEF FairRates
    <2>5. [PricingRates EXCEPT !.half = tariff.half, !.full = tariff.full] = r
      BY <2>2
    <2> QED
      BY <2>1, <2>4, <2>5 DEF PricesFollowService, ThresholdsOrdered
  <1> QED
    BY <1>1, Invariance, PTL

----------------------------------------------------------------------------

Settled ==
    "invites" \in crossed'
    \/ \A i \in DOMAIN invites : invites[i].status # "pending" => invites'[i] = invites[i]

LEMMA CommitInviteSettles ==
    ASSUME IInv, NEW w \in Workers, CommitInvite(w) PROVE Settled
  <1> DEFINE s == sess[w]
             kept == [i \in DOMAIN invites |->
                        IF i \in Replaced(s.seen)
                        THEN [invites[i] EXCEPT !.status = "cancelled"] ELSE invites[i]]
  <1>1. invites \in Seq(Invitation) /\ Len(kept) = Len(invites) /\ kept \in Seq({kept[i] : i \in DOMAIN invites})
    BY DEF IInv, TypeOK
  <1>2. \A i \in DOMAIN invites : invites'[i] = kept[i]
    BY <1>1 DEF CommitInvite
  <1>3. \A i \in DOMAIN invites : invites[i].status # "pending" => kept[i] = invites[i]
    BY DEF Replaced
  <1> QED
    BY <1>2, <1>3 DEF Settled

LEMMA CommitOneSettles ==
    ASSUME IInv, NEW w \in Workers, CommitClose(w) \/ CommitAccept(w) PROVE Settled
  <1> DEFINE s == sess[w]
  <1>1. PICK op \in {"close", "accept"} : End(w, op) /\ s.op = op
    BY DEF CommitClose, CommitAccept, End
  <1>2. SessionTyped(s)
    BY DEF IInv
  <1>3. s.subject = "invites" /\ s.id \in DOMAIN invites
    BY <1>1, <1>2 DEF SessionTyped, Idle
  <1>4. \A i \in DOMAIN invites : i # s.id => invites'[i] = invites[i]
    BY <1>3 DEF CommitClose, CommitAccept, IInv, TypeOK
  <1>5. "invites" \notin crossed' => invites[s.id].status = "pending"
    BY <1>1, <1>3, OthersReadNothing DEF InvitesManaged, InviteRead
  <1> QED
    BY <1>4, <1>5 DEF Settled

LEMMA StepSettles == ASSUME IInv, [Next]_vars PROVE Settled
  <1>1. CASE UNCHANGED invites
    BY <1>1 DEF Settled
  <1>2. ASSUME NEW w \in Workers, CommitInvite(w) PROVE Settled
    BY <1>2, CommitInviteSettles
  <1>3. ASSUME NEW w \in Workers, CommitClose(w) \/ CommitAccept(w) PROVE Settled
    BY <1>3, CommitOneSettles
  <1>4. ASSUME NEW w \in Workers,
               \/ BeginToggle(w) \/ BeginRole(w) \/ BeginAccess(w) \/ BeginInvite(w) \/ BeginExpire(w)
               \/ BeginCancel(w) \/ BeginAccept(w) \/ BeginSave(w)
               \/ CommitToggle(w) \/ CommitRole(w) \/ CommitAccess(w) \/ CommitSave(w)
        PROVE  UNCHANGED invites
    BY <1>4 DEF BeginToggle, BeginRole, BeginAccess, BeginInvite, BeginExpire, BeginCancel,
                BeginAccept, BeginSave, CommitToggle, CommitRole, CommitAccess, CommitSave
  <1>5. CASE DayPasses \/ UNCHANGED vars
    BY <1>1, <1>5 DEF DayPasses, vars
  <1> QED
    BY <1>1, <1>2, <1>3, <1>4, <1>5 DEF Next

(* Unless two changes of invitations cross, one that is settled stays as it   *)
(* is.                                                                        *)
THEOREM SettledStaysSettled == Spec => InvitesSettleOnce
  <1>1. IInv /\ [Next]_vars => [Settled]_vars
    BY StepSettles
  <1>2. Spec => [][Settled]_vars
    BY <1>1, Invariance, PTL DEF Spec
  <1> QED
    BY <1>2 DEF InvitesSettleOnce, Settled
=============================================================================
