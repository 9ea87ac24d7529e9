-------------------------------- MODULE Team ---------------------------------
(* The administrators (public.py, admin.py): who is one, the invitations that *)
(* make one, at what access level, and the settings they share, as far as     *)
(* prices and the thresholds of safe transport go.                            *)
(*                                                                            *)
(* A handler reads what it needs and decides (`Begin...`); it then writes the *)
(* columns that differ from what it read and commits (`Commit...`).  Two      *)
(* workers interleave, and `crossed` remembers the subjects on which one of   *)
(* them has committed while the other was between its read and its commit.    *)
(* Passwords, e-mails, audit rows and the rest of the settings are left out.  *)
EXTENDS Pricing, FiniteSets

(* Rates for a weekday and for a weekend day.                                *)
PerKind == [week : Nat, weekend : Nat]

CONSTANTS
    Workers,
    People,                      \* e-mail addresses
    Founders, Parents,           \* those that have an account at the start
    Levels,                      \* access levels that are given
    Rates,                       \* wage rates that the settings form holds
    Hours,                       \* thresholds that it holds
    MaxDay, MaxCalls             \* bounds

ASSUME TeamTyped ==
    /\ Founders \subseteq People /\ Parents \subseteq People \ Founders
    /\ Founders # {}
    /\ Levels \subseteq {"operations", "finance", "superadmin"}
    /\ Rates \subseteq [half : PerKind, full : PerKind]
    /\ {MaxDay, MaxCalls} \subseteq Nat

VARIABLES
    account,    \* person -> her users row and admin profile
    invites,    \* sequence of invitations
    tariff,     \* pricing settings
    today,
    sess,       \* worker -> what it has read and is about to write
    crossed,    \* history: subjects on which handlers have interleaved
    removed,    \* history: has anyone lost administrator rights?
    calls       \* handlers that have started

vars == <<account, invites, tariff, today, sess, crossed, removed, calls>>

Roles == {"none", "parent", "nanny", "admin"}
Statuses == {"pending", "accepted", "cancelled", "expired"}
Idle == [op |-> "idle", subject |-> "none"]
DaysValid == 1

Admins == {u \in People : account[u].admin}

(* An administrator without a profile has full access (_admin_access_level).  *)
Superadmins == {u \in Admins : account[u].level \in {"none", "superadmin"}}
Present == {u \in People : account[u].role # "none"}

PendingOf(u) == {i \in DOMAIN invites : invites[i].who = u /\ invites[i].status = "pending"}

Init ==
    /\ account = [u \in People |->
          [admin |-> u \in Founders, level |-> "none",
           role |-> IF u \in Founders THEN "admin" ELSE IF u \in Parents THEN "parent" ELSE "none"]]
    /\ invites = <<>>
    /\ tariff = [half |-> PricingRates.half, full |-> PricingRates.full, first |-> 17, second |-> 20]
    /\ today = 0
    /\ sess = [w \in Workers |-> Idle]
    /\ crossed = {} /\ removed = FALSE /\ calls = 0

Begin(w, s) ==
    /\ sess[w] = Idle /\ calls < MaxCalls
    /\ calls' = calls + 1
    /\ sess' = [sess EXCEPT ![w] = s]

(* The worker commits and is free again.                                     *)
End(w, op) ==
    /\ sess[w].op = op
    /\ sess' = [sess EXCEPT ![w] = Idle]
    /\ crossed' = IF \E v \in Workers \ {w} : sess[v].subject = sess[w].subject
                  THEN crossed \union {sess[w].subject} ELSE crossed

----------------------------------------------------------------------------
(* Accounts                                                                  *)

(* Mutant: anyone may lose her rights.                                        *)
MayLoseRightsFreely(u) == TRUE
MayLoseRights(u) == account[u].admin => Cardinality(Admins) > 1

(* admin_set_user_admin, admin_update_user                                   *)
BeginToggle(w) ==
    \E u \in Present, to \in BOOLEAN :
        /\ Admins # {}
        /\ to \/ MayLoseRights(u)
        /\ Begin(w, [op |-> "toggle", subject |-> "accounts", who |-> u, to |-> to,
                     was |-> account[u].admin])
        /\ UNCHANGED <<account, invites, tariff, today, crossed, removed>>

CommitToggle(w) ==
    /\ End(w, "toggle")
    /\ LET s == sess[w] IN
        /\ account' = [account EXCEPT ![s.who].admin = IF s.to # s.was THEN s.to ELSE @]
        /\ removed' = (removed \/ (s.was /\ ~s.to))
    /\ UNCHANGED <<invites, tariff, today, calls>>

RoleMayChange(u) == ~account[u].admin

(* admin_set_user_role                                                       *)
BeginRole(w) ==
    \E u \in Present, to \in {"parent", "nanny"} :
        /\ Admins # {}
        /\ RoleMayChange(u) /\ account[u].role # to
        /\ Begin(w, [op |-> "role", subject |-> "accounts", who |-> u, to |-> to])
        /\ UNCHANGED <<account, invites, tariff, today, crossed, removed>>

CommitRole(w) ==
    /\ End(w, "role")
    /\ account' = [account EXCEPT ![sess[w].who].role = sess[w].to]
    /\ UNCHANGED <<invites, tariff, today, removed, calls>>

MayLower(a, u, to) == a # u \/ to = "superadmin"

(* update_admin_access                                                       *)
BeginAccess(w) ==
    \E a \in Superadmins, u \in Admins, to \in Levels :
        /\ MayLower(a, u, to)
        /\ Begin(w, [op |-> "access", subject |-> "accounts", who |-> u, to |-> to,
                     was |-> account[u].level])
        /\ UNCHANGED <<account, invites, tariff, today, crossed, removed>>

(* A second profile of one person is refused by the database.                 *)
CommitAccess(w) ==
    /\ End(w, "access")
    /\ LET s == sess[w] IN
        account' = [account EXCEPT ![s.who].level =
                        IF s.was = "none" THEN IF @ = "none" THEN s.to ELSE @
                        ELSE IF s.to # s.was THEN s.to ELSE @]
    /\ UNCHANGED <<invites, tariff, today, removed, calls>>

----------------------------------------------------------------------------
(* Invitations                                                               *)

(* admin_create_invite: the invitations that it replaces are those that it    *)
(* has seen.                                                                  *)
BeginInvite(w) ==
    \E u \in People, l \in Levels :
        /\ Admins # {} /\ u \notin Admins
        /\ Begin(w, [op |-> "invite", subject |-> "invites", who |-> u, level |-> l,
                     seen |-> {i \in DOMAIN invites : invites[i].who = u}])
        /\ UNCHANGED <<account, invites, tariff, today, crossed, removed>>

(* Mutants: replaced invitations keep their status; or all of them are        *)
(* cancelled, whatever has become of them.                                    *)
ReplacedNone(seen) == {}
ReplacedAll(seen) == seen
Replaced(seen) == {i \in seen : invites[i].status = "pending"}

CommitInvite(w) ==
    /\ End(w, "invite")
    /\ LET s == sess[w] IN
        invites' = Append([i \in DOMAIN invites |->
                              IF i \in Replaced(s.seen)
                              THEN [invites[i] EXCEPT !.status = "cancelled"] ELSE invites[i]],
                          [who |-> s.who, level |-> s.level, status |-> "pending",
                           expires |-> today + DaysValid])
    /\ UNCHANGED <<account, tariff, today, removed, calls>>

Lapsed(i) == invites[i].expires < today

(* get_admin_invite, and accept_admin_invite with an invitation too old.      *)
BeginExpire(w) ==
    \E i \in DOMAIN invites :
        /\ invites[i].status = "pending" /\ Lapsed(i)
        /\ Begin(w, [op |-> "close", subject |-> "invites", id |-> i, to |-> "expired"])
        /\ UNCHANGED <<account, invites, tariff, today, crossed, removed>>

(* cancel_admin_invite                                                       *)
BeginCancel(w) ==
    \E i \in DOMAIN invites :
        /\ Superadmins # {} /\ invites[i].status = "pending"
        /\ Begin(w, [op |-> "close", subject |-> "invites", id |-> i, to |-> "cancelled"])
        /\ UNCHANGED <<account, invites, tariff, today, crossed, removed>>

CommitClose(w) ==
    /\ End(w, "close")
    /\ invites' = [invites EXCEPT ![sess[w].id].status = sess[w].to]
    /\ UNCHANGED <<account, tariff, today, removed, calls>>

(* accept_admin_invite                                                       *)
BeginAccept(w) ==
    \E i \in DOMAIN invites :
        /\ invites[i].status = "pending" /\ ~Lapsed(i)
        /\ invites[i].who \notin Present
        /\ Begin(w, [op |-> "accept", subject |-> "invites", id |-> i])
        /\ UNCHANGED <<account, invites, tariff, today, crossed, removed>>

(* users.email is unique: the second account of an address is not created,    *)
(* and nothing that goes with it.                                             *)
CommitAccept(w) ==
    /\ End(w, "accept")
    /\ LET i == sess[w].id
           u == invites[i].who
       IN IF u \in Present THEN UNCHANGED <<account, invites>>
          ELSE /\ account' = [account EXCEPT ![u] = [admin |-> TRUE, level |-> invites[i].level,
                                                     role |-> "admin"]]
               /\ invites' = [invites EXCEPT ![i].status = "accepted"]
    /\ UNCHANGED <<tariff, today, removed, calls>>

----------------------------------------------------------------------------
(* Settings                                                                  *)

(* Parts of the form: the rates of a day, one threshold, or both.            *)
Values == Rates \union {[first |-> h] : h \in Hours} \union {[second |-> h] : h \in Hours}
                \union {[first |-> h, second |-> k] : h \in Hours, k \in Hours}

Field(new, old, k) == IF k \in DOMAIN new THEN new[k] ELSE old[k]

Ordered(new, old) == Field(new, old, "first") < Field(new, old, "second")

Hour(h) == h \in 0..23

(* update_pricing_settings, with any part of the form                        *)
BeginSave(w) ==
    \E v \in Values :
        /\ Superadmins # {}
        /\ \A k \in {"first", "second"} \intersect DOMAIN v : Hour(v[k])
        /\ Ordered(v, tariff)
        /\ Begin(w, [op |-> "save", subject |-> "tariff", new |-> v, was |-> tariff])
        /\ UNCHANGED <<account, invites, tariff, today, crossed, removed>>

CommitSave(w) ==
    /\ End(w, "save")
    /\ LET s == sess[w] IN
        tariff' = [k \in DOMAIN tariff |->
                      IF Field(s.new, s.was, k) # s.was[k] THEN s.new[k] ELSE tariff[k]]
    /\ UNCHANGED <<account, invites, today, removed, calls>>

DayPasses ==
    /\ today < MaxDay
    /\ today' = today + 1
    /\ UNCHANGED <<account, invites, tariff, sess, crossed, removed, calls>>

Next ==
    \/ \E w \in Workers :
        \/ BeginToggle(w) \/ CommitToggle(w) \/ BeginRole(w) \/ CommitRole(w)
        \/ BeginAccess(w) \/ CommitAccess(w)
        \/ BeginInvite(w) \/ CommitInvite(w) \/ BeginExpire(w) \/ BeginCancel(w) \/ CommitClose(w)
        \/ BeginAccept(w) \/ CommitAccept(w)
        \/ BeginSave(w) \/ CommitSave(w)
    \/ DayPasses

Spec == Init /\ [][Next]_vars

----------------------------------------------------------------------------

Invitation == [who : People, level : Levels, status : Statuses, expires : Nat]

(* Rows and settings keep their types, whatever crosses.                      *)
TypeOK ==
    /\ account \in [People -> [admin : BOOLEAN, level : Levels \union {"none"}, role : Roles]]
    /\ invites \in Seq(Invitation)
    /\ DOMAIN tariff = {"half", "full", "first", "second"}
    /\ tariff.first \in 0..23 /\ tariff.second \in 0..23
    /\ today \in Nat /\ DOMAIN sess = Workers

(* The team keeps an administrator: unless two changes of accounts cross, no  *)
(* sequence of promotions, removals and accepted invitations takes away the   *)
(* last one.  Nor do access levels alone leave it without a superadmin,       *)
(* although each of them may lower every other: she may not lower herself.    *)
(* What can is taking away a superadmin's rights altogether.                  *)
TeamStaysManaged ==
    \/ "accounts" \in crossed
    \/ Admins # {} /\ (removed \/ Superadmins # {})

(* An address has one open invitation, the one sent last.                     *)
OneInviteOpen ==
    "invites" \in crossed
    \/ \A u \in People : \A i \in PendingOf(u) : \A j \in DOMAIN invites :
          invites[j].who = u => j <= i

(* An invitation that was accepted, cancelled or has expired stays so,        *)
(* whoever opens, replaces or cancels it later.                               *)
InvitesSettleOnce ==
    [][ "invites" \in crossed'
        \/ \A i \in DOMAIN invites :
              invites[i].status # "pending" => invites'[i] = invites[i] ]_vars

(* The tariffs that may be stored in which a longer service costs no less.    *)
FairRates ==
    {r \in {[PricingRates EXCEPT !.half = v.half, !.full = v.full] : v \in Rates \union {PricingRates}} :
        LongerCostsNoLess(r)}

(* However the settings are saved, in parts or together, the first threshold  *)
(* of safe transport is below the second, and with the rates that are stored  *)
(* a longer service costs no less.                                            *)
PricesFollowService ==
    "tariff" \in crossed
    \/ /\ tariff.first < tariff.second
       /\ [PricingRates EXCEPT !.half = tariff.half, !.full = tariff.full] \in FairRates

=============================================================================
