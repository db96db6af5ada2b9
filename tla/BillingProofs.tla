---------------------------- MODULE BillingProofs ----------------------------
(***************************************************************************)
(* Theorems about Billing, for any users, events, deliveries and number of *)
(* faults: the wallet of every user stays well formed, is frozen exactly   *)
(* by an expired subscription, and the end of a subscription never moves   *)
(* back; and, when no two users share the reference of a period, every     *)
(* event is credited exactly once.                                         *)
(*                                                                         *)
(* The inductive invariant adds to the types that a delivery under way has *)
(* an event.  For the credits it adds that what a delivery found in the    *)
(* ledger before its lock is still so while it holds the lock (LocksHold), *)
(* and whose event every entry of the ledger stands for (CreditsExplained).*)
(***************************************************************************)
EXTENDS Billing, WalletProofs

\* A delivery under way has an event.
UnderWay == \A d \in Deliveries : delivery[d].pc # "idle" => delivery[d].event \in Events

BillingInv == BillingTypeOK /\ UnderWay

LEMMA EventTypes ==
  ASSUME NEW e \in Events
  PROVE  /\ UserOf(e) \in Users
         /\ KindOf(e) \in EventKinds
         /\ EventOf[e].tokens \in Nat \cup {None}
         /\ EventOf[e].product \in Products
         /\ EventOf[e].occurred \in Times
         /\ EventOf[e].expires \in Times \cup {None}
         /\ RefOf(e) \in Credits
         /\ RefOf(e) \in Refs
<1>1. EventOf[e] \in BillingEvent
  BY EventsAssumption
<1>2. RefOf(e) \in Credits
  BY CreditsAssumption
<1> QED
  BY <1>1, <1>2 DEF BillingEvent, UserOf, KindOf, Refs

\* An event moves a natural number of tokens: where the event itself gives
\* the number it is there, else the product does.
LEMMA TokensType ==
  ASSUME NEW e \in Events
  PROVE  TokensOf(e) \in Nat
<1>1. ProductTokens[EventOf[e].product] \in Nat
  BY EventTypes, ProductsAssumption DEF Products
<1>2. Explicit(e) => EventOf[e].tokens \in Nat
  BY EventTypes DEF Explicit
<1>3. EventOf[e].tokens # None => EventOf[e].tokens \in Nat
  BY EventTypes
<1>4. CASE KindOf(e) \in {"canceled", "expired"}
  BY <1>4 DEF TokensOf, SubscriptionKinds
<1>5. CASE KindOf(e) \notin {"canceled", "expired"}
  BY <1>1, <1>2, <1>3, <1>5 DEF TokensOf
<1> QED
  BY <1>4, <1>5

LEMMA LaterType ==
  ASSUME NEW a \in Times \cup {None}, NEW b \in Times \cup {None}
  PROVE  /\ Later(a, b) \in Times \cup {None}
         /\ a # None => Later(a, b) # None /\ Later(a, b) >= a
  BY EventsAssumption, BoundsAssumption DEF Later, Times

LEMMA SubscriptionType ==
  ASSUME NEW e \in Events, NEW s \in Subscription
  PROVE  /\ SubscriptionAfter(s, e) \in Subscription
         /\ s.expires # None =>
              /\ SubscriptionAfter(s, e).expires # None
              /\ SubscriptionAfter(s, e).expires >= s.expires
<1>1. /\ s.status \in SubscriptionStatuses
      /\ s.expires \in Times \cup {None}
      /\ s.last \in Times \cup {None}
  BY DEF Subscription
<1>2. StatusAfter(s, KindOf(e)) \in SubscriptionStatuses
  BY <1>1 DEF StatusAfter, SubscriptionStatuses, SubscriptionKinds
<1>3. Later(s.last, EventOf[e].occurred) \in Times \cup {None}
  BY <1>1, EventTypes, LaterType
<1>4. /\ ExpiresAfter(s, e) \in Times \cup {None}
      /\ s.expires # None => /\ ExpiresAfter(s, e) # None
                             /\ ExpiresAfter(s, e) >= s.expires
  <2>1. CASE KindOf(e) \in SubscriptionKinds
    BY <1>1, <2>1, EventTypes, LaterType DEF ExpiresAfter
  <2>2. CASE KindOf(e) \notin SubscriptionKinds
    <3>1. s.expires # None => s.expires \in Int
      BY <1>1, BoundsAssumption DEF Times
    <3> QED
      BY <1>1, <2>2, <3>1, EventTypes DEF ExpiresAfter
  <2> QED
    BY <2>1, <2>2
<1> QED
  BY <1>2, <1>3, <1>4 DEF SubscriptionAfter, Subscription

-----------------------------------------------------------------------------
(* The wallet under the webhook *)

\* The tokens of the wallet move or stay; the flag is what the event says.
LEMMA CreditNotFoundStep ==
  ASSUME WalletTypeOK, NEW u \in Users, NEW n \in Nat,
         NEW kind \in Kinds, NEW r \in Refs, NEW w \in Balance,
         CreditNotFound(u, n, kind, r, w)
  PROVE  /\ WalletTypeOK'
         /\ wallet'[u].frozen = w.frozen
         /\ \A v \in Users : v # u => wallet'[v] = wallet[v]
<1> DEFINE credited == Moved(w, n, 0)
           entry == EntryFor(u, credited, n, 0)
<1>1. /\ w.available \in Nat /\ w.reserved \in Nat /\ n \in Int /\ 0 \in Int
      /\ w.available + n >= 0 /\ w.reserved + 0 >= 0 /\ 0 \in Nat
  BY DEF Balance
<1>2. credited \in Balance
  BY <1>1, MovedType
<1>3. credited.frozen = w.frozen
  BY DEF Moved, Balance
<1>4. entry \in Entry
  BY <1>1, <1>2, EntryType
<1>5. /\ wallet' = [wallet EXCEPT ![u] = credited]
      /\ ledger' = [ledger EXCEPT ![<<r, kind>>] = IF @ = None THEN entry ELSE @]
  BY DEF CreditNotFound
<1> HIDE DEF credited, entry
<1>6. wallet' \in [Users -> Balance]
  BY <1>2, <1>5 DEF WalletTypeOK
<1>7. ledger' \in [Keys -> Entry \cup {None}]
  BY <1>4, <1>5 DEF WalletTypeOK
<1> QED
  BY <1>3, <1>5, <1>6, <1>7 DEF WalletTypeOK

LEMMA RefundKeepsFlag ==
  ASSUME WalletTypeOK, NEW u \in Users, NEW n, NEW r, Refund(u, n, r)
  PROVE  /\ wallet'[u].frozen = wallet[u].frozen
         /\ \A v \in Users : v # u => wallet'[v] = wallet[v]
<1> DEFINE w == Moved(wallet[u], -Least(n, wallet[u].available), 0)
<1>1. wallet' = [wallet EXCEPT ![u] = w]
  BY DEF Refund
<1>2. w.frozen = wallet[u].frozen
  BY DEF WalletTypeOK, Moved, Balance
<1> HIDE DEF w
<1> QED
  BY <1>1, <1>2 DEF WalletTypeOK

LEMMA EffectsStep ==
  ASSUME WalletTypeOK, NEW e \in Events, NEW found \in BOOLEAN,
         WalletEffects(e, found)
  PROVE  /\ WalletTypeOK'
         /\ wallet'[UserOf(e)].frozen =
              CASE KindOf(e) \in SubscriptionKinds -> FALSE
                [] KindOf(e) = "expired" -> TRUE
                [] OTHER -> wallet[UserOf(e)].frozen
         /\ \A v \in Users : v # UserOf(e) => wallet'[v] = wallet[v]
<1> DEFINE u == UserOf(e)
           n == TokensOf(e)
           w == CASE KindOf(e) \in SubscriptionKinds ->
                       [wallet[u] EXCEPT !.frozen = FALSE]
                  [] KindOf(e) = "expired" -> [wallet[u] EXCEPT !.frozen = TRUE]
                  [] OTHER -> wallet[u]
           flag == CASE KindOf(e) \in SubscriptionKinds -> FALSE
                     [] KindOf(e) = "expired" -> TRUE
                     [] OTHER -> wallet[u].frozen
<1>1. /\ u \in Users /\ n \in Nat /\ RefOf(e) \in Refs
      /\ wallet[u] \in Balance
  BY EventTypes, TokensType DEF WalletTypeOK
<1>2. w \in Balance /\ w.frozen = flag
  <2>1. CASE KindOf(e) \in SubscriptionKinds
    BY <1>1, <2>1 DEF Balance, SubscriptionKinds
  <2>2. CASE KindOf(e) = "expired"
    BY <1>1, <2>2 DEF Balance, SubscriptionKinds
  <2>3. CASE KindOf(e) \notin SubscriptionKinds \cup {"expired"}
    BY <1>1, <2>3
  <2> QED
    BY <2>1, <2>2, <2>3
<1>3. KindOf(e) = "refund" => flag = wallet[u].frozen
  BY DEF SubscriptionKinds
<1>4. \/ /\ wallet' = [wallet EXCEPT ![u] = w]
         /\ UNCHANGED ledger
      \/ CreditNotFound(u, n, EntryKindOf(e), RefOf(e), w)
      \/ KindOf(e) = "refund" /\ Refund(u, n, RefOf(e))
  BY DEF WalletEffects
<1> HIDE DEF u, n, w, flag
<1>5. CASE /\ wallet' = [wallet EXCEPT ![u] = w]
           /\ UNCHANGED ledger
  <2>1. WalletTypeOK' /\ wallet'[u] = w /\ \A v \in Users : v # u => wallet'[v] = wallet[v]
    BY <1>1, <1>2, <1>5 DEF WalletTypeOK
  <2> QED
    BY <1>2, <2>1 DEF u, flag
<1>6. CASE CreditNotFound(u, n, EntryKindOf(e), RefOf(e), w)
  <2>1. EntryKindOf(e) \in Kinds
    BY DEF EntryKindOf, Kinds
  <2>2. /\ WalletTypeOK'
        /\ wallet'[u].frozen = w.frozen
        /\ \A v \in Users : v # u => wallet'[v] = wallet[v]
    BY <1>1, <1>2, <1>6, <2>1, CreditNotFoundStep
  <2> QED
    BY <1>2, <2>2 DEF u, flag
<1>7. CASE KindOf(e) = "refund" /\ Refund(u, n, RefOf(e))
  <2>1. /\ WalletTypeOK'
        /\ wallet'[u].frozen = wallet[u].frozen
        /\ \A v \in Users : v # u => wallet'[v] = wallet[v]
    BY <1>1, <1>7, RefundStep, RefundKeepsFlag
  <2> QED
    BY <1>3, <1>7, <2>1 DEF u, flag
<1> QED
  BY <1>4, <1>5, <1>6, <1>7

-----------------------------------------------------------------------------
(* The steps *)

LEMMA ClaimStep ==
  ASSUME BillingInv, NEW d \in Deliveries, NEW e \in Events, ClaimBilling(d, e)
  PROVE  BillingInv'
<1> DEFINE x == [Free EXCEPT !.pc = "claimed", !.event = e]
<1>1. x \in Delivery /\ x.event = e
  BY DEF Free, Delivery
<1>2. delivery' = [delivery EXCEPT ![d] = x]
  BY DEF ClaimBilling
<1> HIDE DEF x
<1>3. processed' \in [Events -> {"none", "received", "applied"}]
  BY DEF ClaimBilling, BillingInv, BillingTypeOK
<1>4. BillingTypeOK'
  BY <1>1, <1>2, <1>3
     DEF ClaimBilling, BillingInv, BillingTypeOK, WalletTypeOK, walletVars
<1>5. UnderWay'
  BY <1>1, <1>2 DEF BillingInv, BillingTypeOK, UnderWay
<1> QED
  BY <1>4, <1>5 DEF BillingInv

LEMMA BeginStep ==
  ASSUME BillingInv, NEW d \in Deliveries, BeginApply(d)
  PROVE  BillingInv'
<1> DEFINE e == delivery[d].event
           found == TokensOf(e) > 0 /\ Posted(RefOf(e), EntryKindOf(e))
           x == [delivery[d] EXCEPT !.pc = "open", !.found = found]
<1>1. delivery[d] \in Delivery /\ delivery[d].pc = "claimed" /\ e \in Events
  BY DEF BeginApply, BillingInv, BillingTypeOK, UnderWay
<1>2. found \in BOOLEAN
  OBVIOUS
<1>3. x \in Delivery /\ x.event = e
  <2> HIDE DEF found
  <2> QED
    BY <1>1, <1>2 DEF Delivery
<1>4. delivery' = [delivery EXCEPT ![d] = x]
  BY <1>1 DEF BeginApply, Delivery
<1> HIDE DEF x
<1>5. BillingTypeOK'
  BY <1>3, <1>4
     DEF BeginApply, BillingInv, BillingTypeOK, WalletTypeOK, walletVars
<1>6. UnderWay'
  BY <1>1, <1>3, <1>4 DEF BillingInv, BillingTypeOK, UnderWay
<1> QED
  BY <1>5, <1>6 DEF BillingInv

\* What a commit does to the row and the wallet of its user, and that it
\* leaves the others alone.
LEMMA CommitEffects ==
  ASSUME BillingInv, NEW d \in Deliveries, CommitApply(d)
  PROVE  /\ delivery[d].event \in Events
         /\ delivery[d].found \in BOOLEAN
         /\ UserOf(delivery[d].event) \in Users
         /\ sub' = [sub EXCEPT ![UserOf(delivery[d].event)] =
                      SubscriptionAfter(@, delivery[d].event)]
         /\ WalletEffects(delivery[d].event, delivery[d].found)
<1>1. delivery[d].event \in Events /\ delivery[d].found \in BOOLEAN
  BY DEF CommitApply, BillingInv, BillingTypeOK, UnderWay, Delivery
<1> QED
  BY <1>1, EventTypes DEF CommitApply

LEMMA FreeDelivery == Free \in Delivery /\ Free.pc = "idle"
  BY DEF Free, Delivery

LEMMA CommitStep ==
  ASSUME BillingInv, NEW d \in Deliveries, CommitApply(d)
  PROVE  BillingInv'
<1> DEFINE e == delivery[d].event
<1>1. /\ e \in Events /\ UserOf(e) \in Users
      /\ sub' = [sub EXCEPT ![UserOf(e)] = SubscriptionAfter(@, e)]
      /\ WalletEffects(e, delivery[d].found) /\ delivery[d].found \in BOOLEAN
  BY CommitEffects
<1>2. WalletTypeOK'
  BY <1>1, EffectsStep DEF BillingInv, BillingTypeOK
<1>3. sub' \in [Users -> Subscription]
  <2>1. sub[UserOf(e)] \in Subscription
    BY <1>1 DEF BillingInv, BillingTypeOK
  <2>2. SubscriptionAfter(sub[UserOf(e)], e) \in Subscription
    BY <1>1, <2>1, SubscriptionType
  <2> QED
    BY <1>1, <2>2 DEF BillingInv, BillingTypeOK
<1>4. /\ processed' = [processed EXCEPT ![e] = "applied"]
      /\ acked' = acked \cup {e}
      /\ delivery' = [delivery EXCEPT ![d] = Free]
      /\ UNCHANGED <<now, faults>>
  BY DEF CommitApply
<1>5. BillingTypeOK'
  BY <1>1, <1>2, <1>3, <1>4, FreeDelivery DEF BillingInv, BillingTypeOK
<1>6. UnderWay'
  BY <1>4, FreeDelivery DEF BillingInv, BillingTypeOK, UnderWay
<1> QED
  BY <1>5, <1>6 DEF BillingInv

LEMMA FaultStep ==
  ASSUME BillingInv, CrashBilling \/ \E d \in Deliveries : FailApply(d)
  PROVE  BillingInv'
<1>1. /\ UNCHANGED <<walletVars, sub, processed, acked, now>>
      /\ faults' \in 0 .. MaxFaults
  BY BoundsAssumption DEF CrashBilling, FailApply, BillingInv, BillingTypeOK
<1>2. delivery' \in [Deliveries -> Delivery]
  BY FreeDelivery DEF CrashBilling, FailApply, BillingInv, BillingTypeOK
<1>3. UnderWay'
  BY FreeDelivery
     DEF CrashBilling, FailApply, BillingInv, BillingTypeOK, UnderWay
<1> QED
  BY <1>1, <1>2, <1>3 DEF BillingInv, BillingTypeOK, WalletTypeOK, walletVars

LEMMA ExpireStep ==
  ASSUME BillingInv, NEW u \in Users, ExpireLazily(u)
  PROVE  BillingInv'
<1>1. WalletTypeOK'
  BY SetFrozenStep DEF ExpireLazily, BillingInv, BillingTypeOK
<1>2. sub' \in [Users -> Subscription]
  BY DEF ExpireLazily, BillingInv, BillingTypeOK, Subscription,
         SubscriptionStatuses
<1> QED
  BY <1>1, <1>2 DEF ExpireLazily, BillingInv, BillingTypeOK, UnderWay

LEMMA QuietStep ==
  ASSUME BillingInv,
         \/ Tick
         \/ \E e \in Events : AnswerDuplicate(e)
         \/ UNCHANGED billingVars
  PROVE  BillingInv'
<1>1. /\ UNCHANGED <<walletVars, sub, processed, delivery, faults>>
      /\ acked' \subseteq Events
      /\ now' \in Times
  BY BoundsAssumption
     DEF Tick, AnswerDuplicate, billingVars, BillingInv, BillingTypeOK, Times
<1> QED
  BY <1>1 DEF BillingInv, BillingTypeOK, WalletTypeOK, UnderWay, walletVars

LEMMA BillingStep ==
  ASSUME BillingInv, [BillingNext]_billingVars
  PROVE  BillingInv'
  BY ClaimStep, BeginStep, CommitStep, FaultStep, ExpireStep, QuietStep
     DEF BillingNext

LEMMA BillingAlways == BillingSpec => []BillingInv
<1>1. BillingInit => BillingInv
  <2> SUFFICES ASSUME BillingInit PROVE BillingInv
    OBVIOUS
  <2>1. [status |-> "none", expires |-> None, last |-> None] \in Subscription
    BY DEF Subscription, SubscriptionStatuses
  <2>2. BillingTypeOK
    BY <2>1, WalletInitType, FreeDelivery, BoundsAssumption
       DEF BillingInit, BillingTypeOK, Times
  <2>3. UnderWay
    BY FreeDelivery DEF BillingInit, UnderWay
  <2> QED
    BY <2>2, <2>3 DEF BillingInv
<1>2. BillingInv /\ [BillingNext]_billingVars => BillingInv'
  BY BillingStep
<1> QED
  BY <1>1, <1>2, PTL DEF BillingSpec

\* No billing event, in whatever order and however often it comes and wherever
\* its handling breaks off, makes a balance negative, an entry malformed or a
\* subscription end that is no date (BillingWebhookService.apply, the gate).
THEOREM BillingTypeCorrect == BillingSpec => []BillingTypeOK
<1>1. BillingInv => BillingTypeOK
  BY DEF BillingInv
<1> QED
  BY <1>1, BillingAlways, PTL

-----------------------------------------------------------------------------
(* The flag of the wallet and the status of the subscription *)

LEMMA FrozenStep ==
  ASSUME BillingInv, FrozenWithStatus, [BillingNext]_billingVars
  PROVE  FrozenWithStatus'
<1>1. WalletTypeOK /\ sub \in [Users -> Subscription]
  BY DEF BillingInv, BillingTypeOK
<1>2. ASSUME NEW d \in Deliveries, CommitApply(d)
      PROVE  FrozenWithStatus'
  <2> DEFINE e == delivery[d].event
             u == UserOf(e)
  <2>1. /\ e \in Events /\ u \in Users
        /\ sub' = [sub EXCEPT ![u] = SubscriptionAfter(@, e)]
        /\ WalletEffects(e, delivery[d].found) /\ delivery[d].found \in BOOLEAN
    BY <1>2, CommitEffects
  <2>2. /\ wallet'[u].frozen =
             CASE KindOf(e) \in SubscriptionKinds -> FALSE
               [] KindOf(e) = "expired" -> TRUE
               [] OTHER -> wallet[u].frozen
        /\ \A v \in Users : v # u => wallet'[v] = wallet[v]
    BY <1>1, <2>1, EffectsStep
  <2>3. /\ sub'[u].status = StatusAfter(sub[u], KindOf(e))
        /\ \A v \in Users : v # u => sub'[v] = sub[v]
    BY <1>1, <2>1 DEF SubscriptionAfter
  <2>4. /\ sub[u].status = "expired" => wallet[u].frozen
        /\ sub[u].status \in {"none", "active"} => ~wallet[u].frozen
    BY <2>1 DEF FrozenWithStatus
  <2> HIDE DEF e, u
  <2>5. CASE KindOf(e) \in SubscriptionKinds
    <3>1. ~wallet'[u].frozen /\ sub'[u].status = "active"
      BY <2>2, <2>3, <2>5 DEF StatusAfter, SubscriptionKinds
    <3> QED
      BY <2>1, <2>2, <2>3, <3>1 DEF FrozenWithStatus
  <2>6. CASE KindOf(e) = "expired"
    <3>1. wallet'[u].frozen /\ sub'[u].status = "expired"
      BY <2>2, <2>3, <2>6 DEF StatusAfter, SubscriptionKinds
    <3> QED
      BY <2>1, <2>2, <2>3, <3>1 DEF FrozenWithStatus
  <2>7. CASE KindOf(e) = "canceled"
    <3>1. sub'[u].status = "canceled"
      BY <2>3, <2>7 DEF StatusAfter, SubscriptionKinds
    <3> QED
      BY <2>1, <2>2, <2>3, <3>1 DEF FrozenWithStatus
  <2>8. CASE KindOf(e) \notin SubscriptionKinds \cup {"canceled", "expired"}
    <3>1. /\ wallet'[u].frozen = wallet[u].frozen
          /\ sub'[u].status = sub[u].status
      BY <2>2, <2>3, <2>8 DEF StatusAfter
    <3> QED
      BY <2>1, <2>2, <2>3, <2>4, <3>1 DEF FrozenWithStatus
  <2> QED
    BY <2>5, <2>6, <2>7, <2>8
<1>3. ASSUME NEW u \in Users, ExpireLazily(u)
      PROVE  FrozenWithStatus'
  <2>1. /\ wallet'[u].frozen /\ sub'[u].status = "expired"
        /\ \A v \in Users : v # u => wallet'[v] = wallet[v] /\ sub'[v] = sub[v]
    BY <1>1, <1>3
       DEF ExpireLazily, SetFrozen, WalletTypeOK, Balance, Subscription
  <2> QED
    BY <2>1 DEF FrozenWithStatus
<1>4. CASE UNCHANGED <<walletVars, sub>>
  BY <1>4 DEF FrozenWithStatus, walletVars
<1>5. \/ UNCHANGED <<walletVars, sub>>
      \/ \E d \in Deliveries : CommitApply(d)
      \/ \E u \in Users : ExpireLazily(u)
  BY DEF BillingNext, ClaimBilling, AnswerDuplicate, BeginApply, FailApply,
         CrashBilling, Tick, billingVars
<1> QED
  BY <1>2, <1>3, <1>4, <1>5

\* The wallet of a user is frozen when the subscription has expired and is not
\* frozen while it is active or was never there, whichever of the webhook and
\* the gate wrote last and wherever the webhook failed: both write the status
\* and the flag in one transaction (_apply_to_state, _apply_wallet_effects,
\* ensure_active).
THEOREM FrozenFollowsStatus == BillingSpec => []FrozenWithStatus
<1>1. BillingInit => FrozenWithStatus
  BY DEF BillingInit, WalletInit, FrozenWithStatus
<1>2. BillingInv /\ FrozenWithStatus /\ [BillingNext]_billingVars =>
        FrozenWithStatus'
  BY FrozenStep
<1> QED
  BY <1>1, <1>2, BillingAlways, PTL DEF BillingSpec

\* The end of a subscription never moves back, in whatever order the events of
\* its life arrive (_max_dt).
THEOREM ExpiryKept == BillingSpec => ExpiryNeverShrinks
<1>1. ASSUME BillingInv, [BillingNext]_billingVars
      PROVE  [ExpiryStep]_billingVars
  <2>1. sub \in [Users -> Subscription]
    BY <1>1 DEF BillingInv, BillingTypeOK
  <2>2. \A u \in Users : sub[u].expires # None => sub[u].expires \in Int
    BY <2>1, BoundsAssumption DEF Subscription, Times
  <2>3. ASSUME NEW d \in Deliveries, CommitApply(d)
        PROVE  ExpiryStep
    <3> DEFINE e == delivery[d].event
               u == UserOf(e)
    <3>1. /\ e \in Events /\ u \in Users
          /\ sub' = [sub EXCEPT ![u] = SubscriptionAfter(@, e)]
      BY <1>1, <2>3, CommitEffects
    <3>2. sub[u].expires # None =>
            /\ SubscriptionAfter(sub[u], e).expires # None
            /\ SubscriptionAfter(sub[u], e).expires >= sub[u].expires
      BY <2>1, <3>1, SubscriptionType
    <3>3. /\ sub'[u] = SubscriptionAfter(sub[u], e)
          /\ \A v \in Users : v # u => sub'[v] = sub[v]
      BY <2>1, <3>1
    <3> HIDE DEF e, u
    <3> QED
      BY <2>2, <3>2, <3>3 DEF ExpiryStep
  <2>4. ASSUME NEW u \in Users, ExpireLazily(u)
        PROVE  ExpiryStep
    <3>1. \A v \in Users : sub'[v].expires = sub[v].expires
      BY <2>1, <2>4 DEF ExpireLazily, Subscription
    <3> QED
      BY <2>2, <3>1 DEF ExpiryStep
  <2>5. CASE UNCHANGED sub
    BY <2>2, <2>5 DEF ExpiryStep
  <2>6. \/ UNCHANGED sub
        \/ \E d \in Deliveries : CommitApply(d)
        \/ \E u \in Users : ExpireLazily(u)
    BY <1>1 DEF BillingNext, ClaimBilling, AnswerDuplicate, BeginApply,
                FailApply, CrashBilling, Tick, billingVars
  <2> QED
    BY <2>3, <2>4, <2>5, <2>6
<1> QED
  BY <1>1, BillingAlways, PTL DEF BillingSpec, ExpiryNeverShrinks

-----------------------------------------------------------------------------
(* Acknowledged events *)

\* A claimed event was applied or some delivery has it still.
ClaimsKept ==
  /\ \A d \in Deliveries : delivery[d].pc = "idle" => delivery[d].event = None
  /\ \A e \in Events :
       processed[e] # "none" =>
         Applied(e) \/ \E d \in Deliveries : delivery[d].event = e
  /\ \A e \in acked : processed[e] # "none"

LEMMA ClaimsStep ==
  ASSUME BillingInv, ClaimsKept, MaxFaults = 0, [BillingNext]_billingVars
  PROVE  ClaimsKept'
<1>1. /\ processed \in [Events -> {"none", "received", "applied"}]
      /\ delivery \in [Deliveries -> Delivery] /\ acked \subseteq Events
      /\ faults \in 0 .. 0 /\ None \notin Events
      /\ Free.pc = "idle" /\ Free.event = None
  BY EventsAssumption DEF BillingInv, BillingTypeOK, Free
<1>2. ASSUME NEW d \in Deliveries, NEW e \in Events, ClaimBilling(d, e)
      PROVE  ClaimsKept'
  <2> DEFINE x == [Free EXCEPT !.pc = "claimed", !.event = e]
  <2>1. x.pc = "claimed" /\ x.event = e
    BY DEF Free
  <2>2. /\ delivery' = [delivery EXCEPT ![d] = x]
        /\ processed' = [processed EXCEPT ![e] = "received"]
        /\ acked' = acked /\ processed[e] = "none"
        /\ delivery[d].event = None
    BY <1>2 DEF ClaimBilling, ClaimsKept
  <2> HIDE DEF x
  <2>3. delivery'[d] = x /\ \A c \in Deliveries : c # d => delivery'[c] = delivery[c]
    BY <1>1, <2>2
  <2>4. processed'[e] = "received" /\ \A f \in Events : f # e => processed'[f] = processed[f]
    BY <1>1, <2>2
  <2>5. \A f \in Events :
          processed'[f] # "none" =>
            Applied(f)' \/ \E c \in Deliveries : delivery'[c].event = f
    <3> SUFFICES ASSUME NEW f \in Events, processed'[f] # "none", ~Applied(f)'
                 PROVE  \E c \in Deliveries : delivery'[c].event = f
      OBVIOUS
    <3>1. CASE f = e
      BY <2>1, <2>3, <3>1
    <3>2. CASE f # e
      <4>1. PICK c \in Deliveries : delivery[c].event = f
        BY <2>4, <3>2 DEF Applied, ClaimsKept
      <4>2. c # d
        BY <1>1, <2>2, <4>1
      <4> QED
        BY <2>3, <4>1, <4>2
    <3> QED
      BY <3>1, <3>2
  <2>6. \A c \in Deliveries : delivery'[c].pc = "idle" => delivery'[c].event = None
    BY <2>1, <2>3 DEF ClaimsKept
  <2>7. \A f \in acked' : processed'[f] # "none"
    BY <1>1, <2>2, <2>4 DEF ClaimsKept
  <2> QED
    BY <2>5, <2>6, <2>7 DEF ClaimsKept
<1>3. ASSUME NEW d \in Deliveries, BeginApply(d)
      PROVE  ClaimsKept'
  <2>1. /\ \A c \in Deliveries : delivery'[c].event = delivery[c].event
        /\ \A c \in Deliveries : delivery'[c].pc = "idle" => delivery[c].pc = "idle"
        /\ UNCHANGED <<processed, acked>>
    BY <1>1, <1>3 DEF BeginApply, Delivery
  <2> QED
    BY <1>1, <2>1 DEF ClaimsKept, Applied
<1>4. ASSUME NEW d \in Deliveries, CommitApply(d)
      PROVE  ClaimsKept'
  <2> DEFINE e == delivery[d].event
  <2>1. e \in Events
    BY <1>4, CommitEffects
  <2>2. /\ delivery' = [delivery EXCEPT ![d] = Free]
        /\ processed' = [processed EXCEPT ![e] = "applied"]
        /\ acked' = acked \cup {e}
    BY <1>4 DEF CommitApply
  <2>3. delivery'[d] = Free /\ \A c \in Deliveries : c # d => delivery'[c] = delivery[c]
    BY <1>1, <2>2
  <2>4. processed'[e] = "applied" /\ \A f \in Events : f # e => processed'[f] = processed[f]
    BY <1>1, <2>1, <2>2
  <2>5. \A f \in Events :
          processed'[f] # "none" =>
            Applied(f)' \/ \E c \in Deliveries : delivery'[c].event = f
    <3> SUFFICES ASSUME NEW f \in Events, processed'[f] # "none", ~Applied(f)'
                 PROVE  \E c \in Deliveries : delivery'[c].event = f
      OBVIOUS
    <3>1. f # e
      BY <2>4 DEF Applied
    <3>2. PICK c \in Deliveries : delivery[c].event = f
      BY <2>4, <3>1 DEF Applied, ClaimsKept
    <3> QED
      BY <2>3, <3>1, <3>2
  <2>6. \A c \in Deliveries : delivery'[c].pc = "idle" => delivery'[c].event = None
    BY <1>1, <2>3 DEF ClaimsKept
  <2>7. \A f \in acked' : processed'[f] # "none"
    BY <1>1, <2>2, <2>4 DEF ClaimsKept
  <2> QED
    BY <2>5, <2>6, <2>7 DEF ClaimsKept
<1>5. ~CrashBilling /\ \A d \in Deliveries : ~FailApply(d)
  BY <1>1 DEF CrashBilling, FailApply
<1>6. ASSUME NEW e \in Events, AnswerDuplicate(e)
      PROVE  ClaimsKept'
  BY <1>6 DEF AnswerDuplicate, ClaimsKept, Applied
<1>7. CASE UNCHANGED <<processed, acked, delivery>>
  BY <1>7 DEF ClaimsKept, Applied
<1>8. \/ \E d \in Deliveries, e \in Events : ClaimBilling(d, e)
      \/ \E e \in Events : AnswerDuplicate(e)
      \/ \E d \in Deliveries : BeginApply(d) \/ CommitApply(d)
      \/ UNCHANGED <<processed, acked, delivery>>
  BY <1>5 DEF BillingNext, ExpireLazily, Tick, billingVars
<1> QED
  BY <1>2, <1>3, <1>4, <1>6, <1>7, <1>8

\* While nothing fails, an event whose sender was told 200 is applied or being
\* applied, for any number of events and overlapping deliveries: only a fault
\* between the two phases of BillingWebhookService.apply can lose one.
THEOREM NothingLostUnlessFault ==
  ASSUME MaxFaults = 0
  PROVE  BillingSpec => []NoEventLost
<1>1. BillingInit => ClaimsKept
  BY DEF BillingInit, ClaimsKept, Free
<1>2. BillingInv /\ ClaimsKept /\ [BillingNext]_billingVars => ClaimsKept'
  BY ClaimsStep
<1>3. BillingInv /\ ClaimsKept => NoEventLost
  BY DEF BillingInv, BillingTypeOK, ClaimsKept, NoEventLost
<1> QED
  BY <1>1, <1>2, <1>3, BillingAlways, PTL DEF BillingSpec

-----------------------------------------------------------------------------
(* The tokens of the events *)

\* The ledger key of an event.
KeyOf(e) == <<RefOf(e), EntryKindOf(e)>>

\* Events that credit: the others take tokens or move none.
Grants(e) == KindOf(e) \in SubscriptionKinds \cup {"one_time"}

\* No two users have one period of one product: the reference of a period
\* does not name its user, so without it the second of them gets an entry of
\* the first, or none.
UsersApart == \A e, f \in Events : RefOf(e) = RefOf(f) => UserOf(e) = UserOf(f)

\* What a delivery found in the ledger is still there when it commits, and no
\* two of them hold the rows of one user.
LocksHold ==
  /\ \A d \in Deliveries :
       delivery[d].pc = "open" =>
         (delivery[d].found <=> /\ TokensOf(delivery[d].event) > 0
                                /\ ledger[KeyOf(delivery[d].event)] # None)
  /\ \A c, d \in Deliveries :
       /\ delivery[c].pc = "open" /\ delivery[d].pc = "open"
       /\ UserOf(delivery[c].event) = UserOf(delivery[d].event)
       => c = d

\* Every credit of the ledger is that of an applied event, and every applied
\* event that credits has its entry.
CreditsExplained ==
  /\ \A k \in Keys :
       k[2] \in GrantKinds /\ ledger[k] # None =>
         \E e \in Events : /\ Applied(e) /\ Grants(e) /\ KeyOf(e) = k
                           /\ ledger[k].user = UserOf(e)
  /\ \A e \in Events :
       Applied(e) /\ Grants(e) /\ TokensOf(e) > 0 => ledger[KeyOf(e)] # None

OwedFinite ==
  \A u \in Users : /\ IsFiniteSet(PeriodsOf(u))
                   /\ IsFiniteSet(GrantsOf(u))
                   /\ IsFiniteSet(PacksOf(u))

CreditInv == /\ LocksHold
             /\ CreditsExplained
             /\ OwedFinite
             /\ LedgerFinite
             /\ BalancesRebuild
             /\ CreditedOnce

LEMMA KeyTypes ==
  ASSUME NEW e \in Events
  PROVE  /\ KeyOf(e) \in Keys
         /\ KeyOf(e)[1] = RefOf(e)
         /\ KeyOf(e)[2] = EntryKindOf(e)
         /\ Grants(e) => EntryKindOf(e) \in GrantKinds
         /\ KindOf(e) \in SubscriptionKinds <=>
              EntryKindOf(e) = "credit_subscription_grant"
<1>1. EntryKindOf(e) \in Kinds
  BY DEF EntryKindOf, Kinds
<1> QED
  BY <1>1, EventTypes
     DEF KeyOf, Keys, Grants, EntryKindOf, GrantKinds, SubscriptionKinds

\* What an event credits is what it adds to its part of TokensOwed.
LEMMA TokensByPart ==
  ASSUME NEW e \in Events
  PROVE  /\ KindOf(e) \in SubscriptionKinds /\ ~Explicit(e) =>
              /\ TokensOf(e) = ProductTokens[PeriodOf(e)[1]]
              /\ RefOf(e) = PeriodOf(e)
         /\ KindOf(e) \in SubscriptionKinds /\ Explicit(e) =>
              TokensOf(e) = EventOf[e].tokens /\ RefOf(e) = e
         /\ KindOf(e) = "one_time" =>
              TokensOf(e) = ProductTokens[EventOf[e].product] /\ RefOf(e) = e
  BY DEF TokensOf, RefOf, PeriodOf, SubscriptionKinds

-----------------------------------------------------------------------------
(* What a commit does to the ledger *)

\* When the entry was not there, the credit is a step of the journal, with
\* the flag set in the same breath.
LEMMA CreditNotFoundJournal ==
  ASSUME WalletTypeOK, NEW u \in Users, NEW n \in Nat, NEW kind \in GrantKinds,
         NEW r \in Refs, NEW w \in Balance,
         w.available = wallet[u].available, w.reserved = wallet[u].reserved,
         ~Posted(r, kind), CreditNotFound(u, n, kind, r, w)
  PROVE  /\ JournalStep
         /\ \E x \in Entry : /\ x.user = u /\ x.amount = n
                             /\ ledger' = [ledger EXCEPT ![<<r, kind>>] = x]
<1> DEFINE credited == Moved(w, n, 0)
           x == EntryFor(u, credited, n, 0)
<1>1. /\ w.available \in Nat /\ w.reserved \in Nat /\ n \in Int /\ 0 \in Int
      /\ w.available + n >= 0 /\ w.reserved + 0 >= 0 /\ 0 \in Nat
      /\ kind \in Kinds \ {"debit_adjustment"} /\ <<r, kind>> \in Keys
  BY DEF Balance, GrantKinds, Kinds, Keys
<1>2. /\ credited \in Balance
      /\ credited.available = wallet[u].available + n
      /\ credited.reserved = wallet[u].reserved + 0
  BY <1>1, MovedType
<1>3. x \in Entry /\ x.user = u /\ x.amount = n /\ x.prev = 0
  BY <1>1, <1>2, EntryType DEF EntryFor
<1>4. AvailableEffect(kind, x) = n /\ ReservedEffect(kind, x) = 0
  BY <1>3 DEF AvailableEffect, ReservedEffect, GrantKinds
<1>5. /\ wallet' = [wallet EXCEPT ![u] = credited]
      /\ ledger' = [ledger EXCEPT ![<<r, kind>>] = x]
  BY <1>1 DEF CreditNotFound, Posted, WalletTypeOK
<1> HIDE DEF credited
<1>6. JournalStep
  BY <1>1, <1>2, <1>4, <1>5, EntryJournal
<1> HIDE DEF x
<1> QED
  BY <1>3, <1>5, <1>6

\* What an event credits that was not yet credited.
Gain(e) ==
  IF ~Grants(e) \/ TokensOf(e) = 0 \/ ledger[KeyOf(e)] # None
  THEN 0 ELSE TokensOf(e)

\* The only credit the step posts is that of e, and it posts no empty one.
CreditsAlone(e) ==
  IF Gain(e) = 0
  THEN \A k \in Keys : k[2] \in GrantKinds => ledger'[k] = ledger[k]
  ELSE \E x \in Entry : /\ x.user = UserOf(e) /\ x.amount = Gain(e)
                        /\ ledger' = [ledger EXCEPT ![KeyOf(e)] = x]

\* The effects of an event for which the ledger was searched under the lock
\* that still holds: a step of the journal that touches the keys of the event
\* alone, and credits what was not yet credited.
LEMMA EffectsLedger ==
  ASSUME WalletTypeOK, NEW e \in Events, NEW found \in BOOLEAN,
         found <=> TokensOf(e) > 0 /\ ledger[KeyOf(e)] # None,
         WalletEffects(e, found)
  PROVE  /\ JournalStep
         /\ \A k \in Keys : k[1] # RefOf(e) => ledger'[k] = ledger[k]
         /\ CreditsAlone(e)
<1> DEFINE u == UserOf(e)
           n == TokensOf(e)
           w == CASE KindOf(e) \in SubscriptionKinds ->
                       [wallet[u] EXCEPT !.frozen = FALSE]
                  [] KindOf(e) = "expired" -> [wallet[u] EXCEPT !.frozen = TRUE]
                  [] OTHER -> wallet[u]
<1>1. /\ u \in Users /\ n \in Nat /\ RefOf(e) \in Refs
      /\ wallet[u] \in Balance /\ KindOf(e) \in EventKinds
  BY EventTypes, TokensType DEF WalletTypeOK
<1>2. /\ w \in Balance
      /\ w.available = wallet[u].available /\ w.reserved = wallet[u].reserved
  <2>1. CASE KindOf(e) \in SubscriptionKinds
    BY <1>1, <2>1 DEF Balance, SubscriptionKinds
  <2>2. CASE KindOf(e) = "expired"
    BY <1>1, <2>2 DEF Balance, SubscriptionKinds
  <2>3. CASE KindOf(e) \notin SubscriptionKinds \cup {"expired"}
    BY <1>1, <2>3
  <2> QED
    BY <2>1, <2>2, <2>3
<1>3. \/ /\ n = 0 \/ found
         /\ wallet' = [wallet EXCEPT ![u] = w]
         /\ UNCHANGED ledger
      \/ /\ n > 0 /\ ~found /\ KindOf(e) # "refund"
         /\ CreditNotFound(u, n, EntryKindOf(e), RefOf(e), w)
      \/ /\ n > 0 /\ ~found /\ KindOf(e) = "refund"
         /\ Refund(u, n, RefOf(e))
  BY DEF WalletEffects
<1>4. ~Grants(e) /\ KindOf(e) # "refund" => n = 0
  BY <1>1 DEF Grants, EventKinds, SubscriptionKinds, TokensOf
<1>5. /\ KeyOf(e) \in Keys /\ KeyOf(e) = <<RefOf(e), EntryKindOf(e)>>
      /\ KeyOf(e)[1] = RefOf(e)
  BY KeyTypes DEF KeyOf
<1> HIDE DEF u, n, w
<1>6. CASE /\ n = 0 \/ found
           /\ wallet' = [wallet EXCEPT ![u] = w]
           /\ UNCHANGED ledger
  <2>1. \A v \in Users : /\ wallet'[v].available = wallet[v].available
                         /\ wallet'[v].reserved = wallet[v].reserved
    BY <1>1, <1>2, <1>6 DEF WalletTypeOK
  <2>2. JournalStep
    BY <1>6, <2>1, FlagJournal
  <2>3. Gain(e) = 0
    BY <1>6 DEF Gain, n
  <2> QED
    BY <1>6, <2>2, <2>3 DEF CreditsAlone
<1>7. CASE /\ n > 0 /\ ~found /\ KindOf(e) # "refund"
           /\ CreditNotFound(u, n, EntryKindOf(e), RefOf(e), w)
  <2>1. Grants(e)
    BY <1>4, <1>7
  <2>2. EntryKindOf(e) \in GrantKinds /\ ledger[KeyOf(e)] = None
    BY <1>7, <2>1, KeyTypes DEF n
  <2>3. ~Posted(RefOf(e), EntryKindOf(e))
    BY <1>5, <2>2 DEF Posted
  <2>4. /\ JournalStep
        /\ \E x \in Entry :
             /\ x.user = u /\ x.amount = n
             /\ ledger' = [ledger EXCEPT ![<<RefOf(e), EntryKindOf(e)>>] = x]
    BY <1>1, <1>2, <1>7, <2>2, <2>3, CreditNotFoundJournal
  <2>5. PICK x \in Entry :
          /\ x.user = u /\ x.amount = n
          /\ ledger' = [ledger EXCEPT ![KeyOf(e)] = x]
    BY <1>5, <2>4
  <2>6. \A k \in Keys : k[1] # RefOf(e) => ledger'[k] = ledger[k]
    BY <1>5, <2>5 DEF WalletTypeOK
  <2>7. n # 0
    BY <1>7
  <2>8. Gain(e) = n
    BY <2>1, <2>2, <2>7 DEF Gain, n
  <2>9. CreditsAlone(e)
    BY <2>5, <2>7, <2>8 DEF CreditsAlone, u
  <2> QED
    BY <2>4, <2>6, <2>9
<1>8. CASE /\ n > 0 /\ ~found /\ KindOf(e) = "refund"
           /\ Refund(u, n, RefOf(e))
  <2>1. JournalStep
    BY <1>1, <1>8, RefundStep
  <2>2. \A k \in Keys :
          k # <<RefOf(e), "credit_refund">> /\ k # <<RefOf(e), "debit_adjustment">>
          => ledger'[k] = ledger[k]
    BY <1>8 DEF Refund
  <2>3. \A k \in Keys : k[1] # RefOf(e) => ledger'[k] = ledger[k]
    BY <2>2
  <2>4. \A k \in Keys : k[2] \in GrantKinds => ledger'[k] = ledger[k]
    BY <2>2 DEF GrantKinds
  <2>5. Gain(e) = 0
    BY <1>8 DEF Gain, Grants, SubscriptionKinds
  <2> QED
    BY <2>1, <2>3, <2>4, <2>5 DEF CreditsAlone
<1> QED
  BY <1>3, <1>6, <1>7, <1>8

-----------------------------------------------------------------------------
(* The credits of a user and what the user is owed grow alike. *)

\* A part of a sum that gains at most one member.
LEMMA PartStep ==
  ASSUME NEW f, NEW g, NEW S, IsFiniteSet(S),
         \A x \in S : f[x] \in Int,
         \A x \in S : g[x] = f[x],
         NEW z, g[z] \in Int
  PROVE  SumFunctionOnSet(g, S \cup {z}) =
           SumFunctionOnSet(f, S) + (IF z \in S THEN 0 ELSE g[z])
<1>1. /\ SumFunctionOnSet(f, S) \in Int
      /\ SumFunctionOnSet(g, S) = SumFunctionOnSet(f, S)
  BY SumInt, SumSame
<1>2. CASE z \in S
  <2>1. S \cup {z} = S
    BY <1>2
  <2>2. SumFunctionOnSet(g, S \cup {z}) = SumFunctionOnSet(f, S)
    BY <1>1, <2>1
  <2> QED
    BY <1>1, <1>2, <2>2
<1>3. CASE z \notin S
  <2>1. SumFunctionOnSet(g, S \cup {z}) = g[z] + SumFunctionOnSet(g, S)
    BY <1>3, SumAdd
  <2> QED
    BY <1>1, <1>3, <2>1
<1> QED
  BY <1>2, <1>3

LEMMA CreditedGrows ==
  ASSUME WalletTypeOK, LedgerFinite, NEW e \in Events, CreditsAlone(e),
         NEW u \in Users
  PROVE  Credited(u)' = Credited(u) + (IF UserOf(e) = u THEN Gain(e) ELSE 0)
<1> DEFINE S == CreditsOf(u)
           T == CreditsOf(u)'
           f == [k \in CreditsOf(u) |-> ledger[k].amount]
           g == [k \in CreditsOf(u) |-> ledger[k].amount]'
           key == KeyOf(e)
<1>1. Credited(u) = SumFunctionOnSet(f, S) /\ Credited(u)' = SumFunctionOnSet(g, T)
  BY DEF Credited, SumFunction
<1>2. IsFiniteSet(S)
  <2>1. IsFiniteSet(KeysOf(u)) /\ S \subseteq KeysOf(u)
    BY DEF LedgerFinite, CreditsOf
  <2> QED
    BY <2>1, FS_Subset
<1>3. /\ \A k \in S : f[k] = ledger[k].amount
      /\ \A k \in T : g[k] = ledger'[k].amount
  OBVIOUS
<1>4. \A k \in S : k \in Keys /\ ledger[k] \in Entry /\ ledger[k].amount \in Int
  BY DEF CreditsOf, KeysOf, WalletTypeOK, Entry
<1>5. \A k \in S : f[k] \in Int
  BY <1>3, <1>4
<1>6. SumFunctionOnSet(f, S) \in Int
  BY <1>2, <1>5, SumInt
<1>7. /\ \A k : k \in S <=> /\ k \in Keys /\ k[2] \in GrantKinds
                            /\ ledger[k] # None /\ ledger[k].user = u
      /\ \A k : k \in T <=> /\ k \in Keys /\ k[2] \in GrantKinds
                            /\ ledger'[k] # None /\ ledger'[k].user = u
  BY DEF CreditsOf, KeysOf
<1> HIDE DEF S, T, f, g
<1>8. ASSUME T = S, \A k \in S : ledger'[k] = ledger[k]
      PROVE  Credited(u)' = Credited(u)
  <2>1. \A k \in S : f[k] = g[k]
    BY <1>3, <1>8
  <2>2. SumFunctionOnSet(f, S) = SumFunctionOnSet(g, S)
    BY <1>2, <1>5, <2>1, SumSame
  <2> QED
    BY <1>1, <1>8, <2>2
<1>9. CASE Gain(e) = 0
  <2>1. \A k \in Keys : k[2] \in GrantKinds => ledger'[k] = ledger[k]
    BY <1>9 DEF CreditsAlone
  <2>2. T = S
    BY <1>7, <2>1
  <2>3. Credited(u)' = Credited(u)
    BY <1>7, <1>8, <2>1, <2>2
  <2> QED
    BY <1>1, <1>6, <1>9, <2>3
<1>10. CASE Gain(e) # 0
  <2>1. PICK x \in Entry : /\ x.user = UserOf(e) /\ x.amount = Gain(e)
                           /\ ledger' = [ledger EXCEPT ![key] = x]
    BY <1>10 DEF CreditsAlone
  <2>2. /\ Grants(e) /\ ledger[key] = None /\ Gain(e) = TokensOf(e)
        /\ Gain(e) \in Int
    BY <1>10, TokensType DEF Gain
  <2>3. key \in Keys /\ key[2] \in GrantKinds
    BY <2>2, KeyTypes
  <2> HIDE DEF key
  <2>4. /\ ledger'[key] = x /\ x # None
        /\ \A k \in Keys : k # key => ledger'[k] = ledger[k]
    BY <2>1, <2>3, NoneAssumption DEF WalletTypeOK
  <2>5. key \notin S
    BY <1>7, <2>2
  <2>6. \A k \in S : ledger'[k] = ledger[k]
    BY <1>7, <2>4, <2>5
  <2>7. CASE UserOf(e) = u
    <3>1. T = S \cup {key}
      BY <1>7, <2>1, <2>3, <2>4, <2>7
    <3>2. g[key] = Gain(e) /\ \A k \in S : f[k] \in Int /\ g[k] = f[k]
      BY <1>3, <1>5, <2>1, <2>4, <2>6, <3>1
    <3>3. SumFunctionOnSet(g, T) = SumFunctionOnSet(f, S) + g[key]
      BY <1>2, <2>2, <2>5, <3>1, <3>2, SumOfStep
    <3> QED
      BY <1>1, <2>7, <3>2, <3>3
  <2>8. CASE UserOf(e) # u
    <3>1. key \notin T
      BY <1>7, <2>1, <2>4, <2>8
    <3>2. \A k : k # key => (k \in T <=> k \in S)
      BY <1>7, <2>4
    <3>3. T = S
      BY <2>5, <3>1, <3>2
    <3> QED
      BY <1>1, <1>6, <1>8, <2>6, <2>8, <3>3
  <2> QED
    BY <2>7, <2>8
<1> QED
  BY <1>9, <1>10

\* An event whose period was paid: some applied event of the same user has
\* its entry.
LEMMA PostedApplied ==
  ASSUME UsersApart, CreditsExplained, NEW e \in Events, Grants(e),
         ledger[KeyOf(e)] # None
  PROVE  \E f \in Events : /\ Applied(f) /\ Grants(f) /\ KeyOf(f) = KeyOf(e)
                           /\ RefOf(f) = RefOf(e) /\ UserOf(f) = UserOf(e)
                           /\ EntryKindOf(f) = EntryKindOf(e)
<1>1. KeyOf(e) \in Keys /\ KeyOf(e)[2] \in GrantKinds
  BY KeyTypes
<1>2. PICK f \in Events : Applied(f) /\ Grants(f) /\ KeyOf(f) = KeyOf(e)
  BY <1>1 DEF CreditsExplained
<1>3. RefOf(f) = RefOf(e) /\ EntryKindOf(f) = EntryKindOf(e)
  BY <1>2, KeyTypes
<1> QED
  BY <1>2, <1>3 DEF UsersApart

\* The three parts of TokensOwed are numbers.
LEMMA OwedTypes ==
  ASSUME NEW e \in Events
  PROVE  /\ ProductTokens[PeriodOf(e)[1]] \in Int
         /\ Explicit(e) => EventOf[e].tokens \in Int
         /\ ProductTokens[EventOf[e].product] \in Int
<1>1. ProductTokens[EventOf[e].product] \in Nat
  BY EventTypes, ProductsAssumption DEF Products
<1>2. Explicit(e) => EventOf[e].tokens \in Nat
  BY EventTypes DEF Explicit
<1> QED
  BY <1>1, <1>2 DEF PeriodOf

\* When e is applied, what its user is owed grows by what e credits, and by
\* nothing where an event before it had the period paid.
LEMMA OwedGrows ==
  ASSUME UsersApart, CreditsExplained, OwedFinite, NEW e \in Events,
         \A f \in Events : Applied(f)' <=> Applied(f) \/ f = e,
         NEW u \in Users
  PROVE  /\ IsFiniteSet(PeriodsOf(u)') /\ IsFiniteSet(GrantsOf(u)')
         /\ IsFiniteSet(PacksOf(u)')
         /\ TokensOwed(u)' =
              TokensOwed(u) + (IF UserOf(e) = u THEN Gain(e) ELSE 0)
<1> DEFINE P == PeriodsOf(u)
           G == GrantsOf(u)
           K == PacksOf(u)
           P1 == PeriodsOf(u)'
           G1 == GrantsOf(u)'
           K1 == PacksOf(u)'
           fp == [p \in PeriodsOf(u) |-> ProductTokens[p[1]]]
           fg == [x \in GrantsOf(u) |-> EventOf[x].tokens]
           fk == [x \in PacksOf(u) |-> ProductTokens[EventOf[x].product]]
           gp == fp'
           gg == fg'
           gk == fk'
           n == TokensOf(e)
           posted == ledger[KeyOf(e)] # None
           gain == IF n = 0 \/ posted THEN 0 ELSE n
<1>1. /\ TokensOwed(u) = SumFunctionOnSet(fp, P) + SumFunctionOnSet(fg, G)
                         + SumFunctionOnSet(fk, K)
      /\ TokensOwed(u)' = SumFunctionOnSet(gp, P1) + SumFunctionOnSet(gg, G1)
                          + SumFunctionOnSet(gk, K1)
  BY DEF TokensOwed, SumFunction
<1>2. IsFiniteSet(P) /\ IsFiniteSet(G) /\ IsFiniteSet(K)
  BY DEF OwedFinite
<1>3. /\ \A p \in P : fp[p] = ProductTokens[p[1]]
      /\ \A p \in P1 : gp[p] = ProductTokens[p[1]]
      /\ \A x \in G : fg[x] = EventOf[x].tokens
      /\ \A x \in G1 : gg[x] = EventOf[x].tokens
      /\ \A x \in K : fk[x] = ProductTokens[EventOf[x].product]
      /\ \A x \in K1 : gk[x] = ProductTokens[EventOf[x].product]
  OBVIOUS
<1>4. /\ \A p \in P : ProductTokens[p[1]] \in Int
      /\ \A x \in G : EventOf[x].tokens \in Int
      /\ \A x \in K : ProductTokens[EventOf[x].product] \in Int
  BY OwedTypes DEF PeriodsOf, SubscribedOf, AppliedOf, GrantsOf, PacksOf
<1>5. /\ \A p \in P : fp[p] \in Int
      /\ \A x \in G : fg[x] \in Int
      /\ \A x \in K : fk[x] \in Int
  BY <1>3, <1>4
<1>6. /\ SumFunctionOnSet(fp, P) \in Int
      /\ SumFunctionOnSet(fg, G) \in Int
      /\ SumFunctionOnSet(fk, K) \in Int
  BY <1>2, <1>5, SumInt
<1>7. n \in Nat /\ posted \in BOOLEAN
  BY TokensType
<1>8. AppliedOf(u)' = IF UserOf(e) = u THEN AppliedOf(u) \cup {e}
                      ELSE AppliedOf(u)
  BY DEF AppliedOf
\* Each part either stays or gains what e adds to it.
<1>9. ASSUME P1 = P
      PROVE  SumFunctionOnSet(gp, P1) = SumFunctionOnSet(fp, P)
  <2>1. \A p \in P : fp[p] = gp[p]
    BY <1>3, <1>9
  <2> HIDE DEF P, P1, fp, gp
  <2> QED
    BY <1>2, <1>5, <1>9, <2>1, SumSame
<1>10. ASSUME G1 = G
       PROVE  SumFunctionOnSet(gg, G1) = SumFunctionOnSet(fg, G)
  <2>1. \A x \in G : fg[x] = gg[x]
    BY <1>3, <1>10
  <2> HIDE DEF G, G1, fg, gg
  <2> QED
    BY <1>2, <1>5, <1>10, <2>1, SumSame
<1>11. ASSUME K1 = K
       PROVE  SumFunctionOnSet(gk, K1) = SumFunctionOnSet(fk, K)
  <2>1. \A x \in K : fk[x] = gk[x]
    BY <1>3, <1>11
  <2> HIDE DEF K, K1, fk, gk
  <2> QED
    BY <1>2, <1>5, <1>11, <2>1, SumSame
<1>12. CASE ~(UserOf(e) = u /\ Grants(e))
  <2>1. P1 = P /\ G1 = G /\ K1 = K
    BY <1>8, <1>12
       DEF PeriodsOf, SubscribedOf, AppliedOf, GrantsOf, PacksOf, Grants
  <2>2. (IF UserOf(e) = u THEN Gain(e) ELSE 0) = 0
    BY <1>12 DEF Gain
  <2> HIDE DEF P, G, K, P1, G1, K1, fp, fg, fk, gp, gg, gk
  <2>3. TokensOwed(u)' = TokensOwed(u) /\ TokensOwed(u) \in Int
    BY <1>1, <1>6, <1>9, <1>10, <1>11, <2>1
  <2>4. IsFiniteSet(P1) /\ IsFiniteSet(G1) /\ IsFiniteSet(K1)
    BY <1>2, <2>1
  <2> QED
    BY <2>2, <2>3, <2>4 DEF P, G, K, P1, G1, K1
<1>13. CASE UserOf(e) = u /\ Grants(e)
  <2>1. (IF UserOf(e) = u THEN Gain(e) ELSE 0) = gain /\ gain \in Int
    BY <1>7, <1>13 DEF Gain
  <2>2. posted => \E f \in Events :
          /\ f \in AppliedOf(u) /\ Grants(f) /\ RefOf(f) = RefOf(e)
          /\ EntryKindOf(f) = EntryKindOf(e)
    BY <1>13, PostedApplied DEF AppliedOf
  <2>3. ASSUME NEW f \in Events, f \in AppliedOf(u), Grants(f),
               KeyOf(f) = KeyOf(e), TokensOf(f) = n
        PROVE  n = 0 \/ posted
    <3>1. n > 0 => ledger[KeyOf(f)] # None
      BY <2>3 DEF CreditsExplained, AppliedOf
    <3> QED
      BY <1>7, <2>3, <3>1
  <2>4. CASE KindOf(e) \in SubscriptionKinds /\ ~Explicit(e)
    <3> DEFINE z == PeriodOf(e)
    <3>1. /\ P1 = P \cup {z} /\ G1 = G /\ K1 = K
      BY <1>8, <1>13, <2>4
         DEF PeriodsOf, SubscribedOf, AppliedOf, GrantsOf, PacksOf,
             SubscriptionKinds
    <3>2. RefOf(e) = z /\ n = ProductTokens[z[1]]
      BY <2>4, TokensByPart
    <3>3. z \in P => n = 0 \/ posted
      <4>1. SUFFICES ASSUME z \in P PROVE n = 0 \/ posted
        OBVIOUS
      <4>2. PICK f \in SubscribedOf(u) : ~Explicit(f) /\ PeriodOf(f) = z
        BY <4>1 DEF PeriodsOf
      <4>3. /\ f \in Events /\ f \in AppliedOf(u)
            /\ KindOf(f) \in SubscriptionKinds
        BY DEF SubscribedOf, AppliedOf
      <4>4. RefOf(f) = z /\ TokensOf(f) = n
        BY <3>2, <4>2, <4>3, TokensByPart
      <4>5. EntryKindOf(f) = EntryKindOf(e) /\ Grants(f)
        BY <2>4, <4>3, KeyTypes DEF Grants
      <4>6. KeyOf(f) = KeyOf(e)
        BY <3>2, <4>4, <4>5 DEF KeyOf
      <4> QED
        BY <2>3, <4>3, <4>4, <4>5, <4>6
    <3>4. posted => z \in P
      <4>1. SUFFICES ASSUME posted PROVE z \in P
        OBVIOUS
      <4>2. PICK f \in Events : /\ f \in AppliedOf(u) /\ Grants(f)
                                /\ RefOf(f) = RefOf(e)
                                /\ EntryKindOf(f) = EntryKindOf(e)
        BY <2>2, <4>1
      <4>3. KindOf(f) \in SubscriptionKinds
        BY <2>4, <4>2, KeyTypes
      <4>4. ~Explicit(f) /\ PeriodOf(f) = z
        <5>1. RefOf(f) \notin Events
          BY <3>2, <4>2, PeriodsAssumption
        <5>2. ~Explicit(f)
          BY <4>3, <5>1, TokensByPart
        <5> QED
          BY <3>2, <4>2, <4>3, <5>2, TokensByPart
      <4> QED
        BY <4>2, <4>3, <4>4 DEF PeriodsOf, SubscribedOf
    <3>5. gp[z] = n /\ \A p \in P : fp[p] \in Int /\ gp[p] = fp[p]
      BY <1>3, <1>5, <3>1, <3>2
    <3>6. (z \in P => gain = 0) /\ (z \notin P => gain = n)
      BY <3>3, <3>4
    <3>7. gp[z] \in Int
      BY <1>7, <3>5
    <3> HIDE DEF P, G, K, P1, G1, K1, fp, fg, fk, gp, gg, gk, z, n, gain
    <3>8. SumFunctionOnSet(gp, P \cup {z}) =
            SumFunctionOnSet(fp, P) + (IF z \in P THEN 0 ELSE gp[z])
      <4>1. \A x \in P : fp[x] \in Int
        BY <3>5
      <4>2. \A x \in P : gp[x] = fp[x]
        BY <3>5
      <4> QED
        BY <1>2, <4>1, <4>2, <3>7, PartStep
    <3>9. SumFunctionOnSet(gp, P1) = SumFunctionOnSet(fp, P) + gain
      BY <1>6, <3>1, <3>5, <3>6, <3>8
    <3>10. TokensOwed(u)' = TokensOwed(u) + gain
      BY <1>1, <1>6, <1>10, <1>11, <2>1, <3>1, <3>9
    <3> QED
      BY <1>2, <2>1, <3>1, <3>10, FS_AddElement DEF P, G, K, P1, G1, K1
  <2>5. CASE KindOf(e) \in SubscriptionKinds /\ Explicit(e)
    <3>1. /\ P1 = P /\ G1 = G \cup {e} /\ K1 = K
      BY <1>8, <1>13, <2>5
         DEF PeriodsOf, SubscribedOf, AppliedOf, GrantsOf, PacksOf,
             SubscriptionKinds
    <3>2. RefOf(e) = e /\ n = EventOf[e].tokens
      BY <2>5, TokensByPart
    <3>3. e \in G => n = 0 \/ posted
      BY <1>13, <2>3 DEF GrantsOf, SubscribedOf
    <3>4. posted => e \in G
      <4>1. SUFFICES ASSUME posted PROVE e \in G
        OBVIOUS
      <4>2. PICK f \in Events : /\ f \in AppliedOf(u) /\ Grants(f)
                                /\ RefOf(f) = RefOf(e)
                                /\ EntryKindOf(f) = EntryKindOf(e)
        BY <2>2, <4>1
      <4>3. KindOf(f) \in SubscriptionKinds
        BY <2>5, <4>2, KeyTypes
      <4>4. f = e
        BY <3>2, <4>2, <4>3, TokensByPart, PeriodsAssumption
      <4> QED
        BY <2>5, <4>2, <4>4 DEF GrantsOf, SubscribedOf
    <3>5. gg[e] = n /\ \A x \in G : fg[x] \in Int /\ gg[x] = fg[x]
      BY <1>3, <1>5, <3>1, <3>2
    <3>6. (e \in G => gain = 0) /\ (e \notin G => gain = n)
      BY <3>3, <3>4
    <3>7. gg[e] \in Int
      BY <1>7, <3>5
    <3> HIDE DEF P, G, K, P1, G1, K1, fp, fg, fk, gp, gg, gk, n, gain
    <3>8. SumFunctionOnSet(gg, G \cup {e}) =
            SumFunctionOnSet(fg, G) + (IF e \in G THEN 0 ELSE gg[e])
      <4>1. \A x \in G : fg[x] \in Int
        BY <3>5
      <4>2. \A x \in G : gg[x] = fg[x]
        BY <3>5
      <4> QED
        BY <1>2, <4>1, <4>2, <3>7, PartStep
    <3>9. SumFunctionOnSet(gg, G1) = SumFunctionOnSet(fg, G) + gain
      BY <1>6, <3>1, <3>5, <3>6, <3>8
    <3>10. TokensOwed(u)' = TokensOwed(u) + gain
      BY <1>1, <1>6, <1>9, <1>11, <2>1, <3>1, <3>9
    <3> QED
      BY <1>2, <2>1, <3>1, <3>10, FS_AddElement DEF P, G, K, P1, G1, K1
  <2>6. CASE KindOf(e) = "one_time"
    <3>1. /\ P1 = P /\ G1 = G /\ K1 = K \cup {e}
      BY <1>8, <1>13, <2>6
         DEF PeriodsOf, SubscribedOf, AppliedOf, GrantsOf, PacksOf,
             SubscriptionKinds
    <3>2. RefOf(e) = e /\ n = ProductTokens[EventOf[e].product]
      BY <2>6, TokensByPart
    <3>3. e \in K => n = 0 \/ posted
      BY <1>13, <2>3 DEF PacksOf
    <3>4. posted => e \in K
      <4>1. SUFFICES ASSUME posted PROVE e \in K
        OBVIOUS
      <4>2. PICK f \in Events : /\ f \in AppliedOf(u) /\ Grants(f)
                                /\ RefOf(f) = RefOf(e)
                                /\ EntryKindOf(f) = EntryKindOf(e)
        BY <2>2, <4>1
      <4>3. KindOf(f) = "one_time"
        BY <2>6, <4>2, KeyTypes DEF Grants, EntryKindOf, SubscriptionKinds
      <4>4. f = e
        BY <3>2, <4>2, <4>3, TokensByPart
      <4> QED
        BY <2>6, <4>2, <4>4 DEF PacksOf
    <3>5. gk[e] = n /\ \A x \in K : fk[x] \in Int /\ gk[x] = fk[x]
      BY <1>3, <1>5, <3>1, <3>2
    <3>6. (e \in K => gain = 0) /\ (e \notin K => gain = n)
      BY <3>3, <3>4
    <3>7. gk[e] \in Int
      BY <1>7, <3>5
    <3> HIDE DEF P, G, K, P1, G1, K1, fp, fg, fk, gp, gg, gk, n, gain
    <3>8. SumFunctionOnSet(gk, K \cup {e}) =
            SumFunctionOnSet(fk, K) + (IF e \in K THEN 0 ELSE gk[e])
      <4>1. \A x \in K : fk[x] \in Int
        BY <3>5
      <4>2. \A x \in K : gk[x] = fk[x]
        BY <3>5
      <4> QED
        BY <1>2, <4>1, <4>2, <3>7, PartStep
    <3>9. SumFunctionOnSet(gk, K1) = SumFunctionOnSet(fk, K) + gain
      BY <1>6, <3>1, <3>5, <3>6, <3>8
    <3>10. TokensOwed(u)' = TokensOwed(u) + gain
      BY <1>1, <1>6, <1>9, <1>10, <2>1, <3>1, <3>9
    <3> QED
      BY <1>2, <2>1, <3>1, <3>10, FS_AddElement DEF P, G, K, P1, G1, K1
  <2> QED
    BY <1>13, <2>4, <2>5, <2>6 DEF Grants
<1> QED
  BY <1>12, <1>13

-----------------------------------------------------------------------------
(* The steps *)

\* A commit writes under the lock it began with.
LEMMA CommitLedger ==
  ASSUME BillingInv, LocksHold, NEW d \in Deliveries, CommitApply(d),
         NEW e, e = delivery[d].event
  PROVE  /\ e \in Events
         /\ WalletTypeOK /\ WalletTypeOK'
         /\ JournalStep
         /\ CreditsAlone(e)
         /\ \A k \in Keys : k[1] # RefOf(e) => ledger'[k] = ledger[k]
         /\ \A f \in Events : Applied(f)' <=> Applied(f) \/ f = e
<1>1. /\ e \in Events /\ delivery[d].found \in BOOLEAN
      /\ WalletEffects(e, delivery[d].found)
  BY CommitEffects
<1>2. WalletTypeOK
  BY DEF BillingInv, BillingTypeOK
<1>3. delivery[d].found <=> TokensOf(e) > 0 /\ ledger[KeyOf(e)] # None
  BY DEF LocksHold, CommitApply
<1>4. WalletTypeOK'
  BY <1>1, <1>2, EffectsStep
<1>5. /\ JournalStep /\ CreditsAlone(e)
      /\ \A k \in Keys : k[1] # RefOf(e) => ledger'[k] = ledger[k]
  BY <1>1, <1>2, <1>3, EffectsLedger
<1>6. \A f \in Events : Applied(f)' <=> Applied(f) \/ f = e
  BY <1>1 DEF CommitApply, Applied, BillingInv, BillingTypeOK
<1> QED
  BY <1>1, <1>2, <1>4, <1>5, <1>6

LEMMA CommitLocks ==
  ASSUME UsersApart, BillingInv, LocksHold, NEW d \in Deliveries,
         CommitApply(d)
  PROVE  LocksHold'
<1>1. PICK e : e = delivery[d].event
  OBVIOUS
<1>2. /\ e \in Events
      /\ \A k \in Keys : k[1] # RefOf(e) => ledger'[k] = ledger[k]
  BY <1>1, CommitLedger
<1>3. /\ delivery'[d].pc = "idle" /\ delivery[d].pc = "open"
      /\ \A c \in Deliveries : c # d => delivery'[c] = delivery[c]
  BY FreeDelivery DEF CommitApply, BillingInv, BillingTypeOK
<1>4. ASSUME NEW c \in Deliveries, delivery'[c].pc = "open"
      PROVE  /\ delivery'[c] = delivery[c]
             /\ ledger'[KeyOf(delivery[c].event)] =
                  ledger[KeyOf(delivery[c].event)]
  <2>1. c # d /\ delivery'[c] = delivery[c]
    BY <1>3, <1>4
  <2>2. PICK f : f = delivery[c].event
    OBVIOUS
  <2>3. f \in Events /\ UserOf(f) # UserOf(e)
    BY <1>1, <1>3, <1>4, <2>1, <2>2 DEF LocksHold, BillingInv, UnderWay
  <2>4. RefOf(f) # RefOf(e)
    BY <1>2, <2>3 DEF UsersApart
  <2>5. ledger'[KeyOf(f)] = ledger[KeyOf(f)]
    BY <1>2, <2>3, <2>4, KeyTypes
  <2> QED
    BY <2>1, <2>2, <2>5
<1> QED
  BY <1>4 DEF LocksHold

LEMMA CommitExplained ==
  ASSUME BillingInv, LocksHold, CreditsExplained, NEW d \in Deliveries,
         CommitApply(d)
  PROVE  CreditsExplained'
<1>1. PICK e : e = delivery[d].event
  OBVIOUS
<1>2. /\ e \in Events /\ WalletTypeOK /\ JournalStep /\ CreditsAlone(e)
      /\ \A f \in Events : Applied(f)' <=> Applied(f) \/ f = e
  BY <1>1, CommitLedger
<1>3. \A k \in Keys : ledger[k] # None => ledger'[k] = ledger[k]
  BY <1>2 DEF JournalStep
<1>4. CASE Gain(e) = 0
  <2>1. \A k \in Keys : k[2] \in GrantKinds => ledger'[k] = ledger[k]
    BY <1>2, <1>4 DEF CreditsAlone
  <2>2. Grants(e) /\ TokensOf(e) > 0 => ledger[KeyOf(e)] # None
    BY <1>2, <1>4, TokensType DEF Gain
  <2>3. \A f \in Events :
          Applied(f)' /\ Grants(f) /\ TokensOf(f) > 0 => ledger'[KeyOf(f)] # None
    BY <1>2, <1>3, <2>2, KeyTypes DEF CreditsExplained
  <2>4. ASSUME NEW k \in Keys, k[2] \in GrantKinds, ledger'[k] # None
        PROVE  \E f \in Events : /\ Applied(f)' /\ Grants(f) /\ KeyOf(f) = k
                                 /\ ledger'[k].user = UserOf(f)
    BY <1>2, <2>1, <2>4 DEF CreditsExplained
  <2> QED
    BY <2>3, <2>4 DEF CreditsExplained
<1>5. CASE Gain(e) # 0
  <2>1. PICK x \in Entry : /\ x.user = UserOf(e)
                           /\ ledger' = [ledger EXCEPT ![KeyOf(e)] = x]
    BY <1>2, <1>5 DEF CreditsAlone
  <2>2. KeyOf(e) \in Keys /\ Grants(e) /\ x # None
    BY <1>2, <1>5, KeyTypes, NoneAssumption DEF Gain
  <2>3. /\ ledger'[KeyOf(e)] = x
        /\ \A k \in Keys : k # KeyOf(e) => ledger'[k] = ledger[k]
    BY <1>2, <2>1, <2>2 DEF WalletTypeOK
  <2>4. \A f \in Events :
          Applied(f)' /\ Grants(f) /\ TokensOf(f) > 0 => ledger'[KeyOf(f)] # None
    BY <1>2, <1>3, <2>2, <2>3, KeyTypes DEF CreditsExplained
  <2>5. ASSUME NEW k \in Keys, k[2] \in GrantKinds, ledger'[k] # None
        PROVE  \E f \in Events : /\ Applied(f)' /\ Grants(f) /\ KeyOf(f) = k
                                 /\ ledger'[k].user = UserOf(f)
    <3>1. CASE k = KeyOf(e)
      BY <1>2, <2>1, <2>2, <2>3, <3>1
    <3>2. CASE k # KeyOf(e)
      BY <1>2, <2>3, <2>5, <3>2 DEF CreditsExplained
    <3> QED
      BY <3>1, <3>2
  <2> QED
    BY <2>4, <2>5 DEF CreditsExplained
<1> QED
  BY <1>4, <1>5

LEMMA CommitCredits ==
  ASSUME UsersApart, BillingInv, CreditInv, NEW d \in Deliveries,
         CommitApply(d)
  PROVE  CreditInv'
<1>1. PICK e : e = delivery[d].event
  OBVIOUS
<1>2. /\ LocksHold /\ CreditsExplained /\ OwedFinite /\ LedgerFinite
      /\ BalancesRebuild /\ CreditedOnce
  BY DEF CreditInv
<1>3. /\ e \in Events /\ WalletTypeOK /\ WalletTypeOK' /\ JournalStep
      /\ CreditsAlone(e)
      /\ \A f \in Events : Applied(f)' <=> Applied(f) \/ f = e
  BY <1>1, <1>2, CommitLedger
<1>4. LocksHold' /\ CreditsExplained'
  BY <1>2, CommitLocks, CommitExplained
<1>5. LedgerFinite' /\ BalancesRebuild'
  BY <1>2, <1>3, RebuildStep
<1>6. ASSUME NEW u \in Users
      PROVE  /\ IsFiniteSet(PeriodsOf(u)') /\ IsFiniteSet(GrantsOf(u)')
             /\ IsFiniteSet(PacksOf(u)')
             /\ Credited(u)' = TokensOwed(u)'
  <2>1. /\ IsFiniteSet(PeriodsOf(u)') /\ IsFiniteSet(GrantsOf(u)')
        /\ IsFiniteSet(PacksOf(u)')
        /\ TokensOwed(u)' =
             TokensOwed(u) + (IF UserOf(e) = u THEN Gain(e) ELSE 0)
    BY <1>2, <1>3, OwedGrows
  <2>2. Credited(u)' = Credited(u) + (IF UserOf(e) = u THEN Gain(e) ELSE 0)
    BY <1>2, <1>3, CreditedGrows
  <2>3. Credited(u) = TokensOwed(u)
    BY <1>2 DEF CreditedOnce
  <2> QED
    BY <2>1, <2>2, <2>3
<1>7. OwedFinite' /\ CreditedOnce'
  BY <1>6 DEF OwedFinite, CreditedOnce
<1> QED
  BY <1>4, <1>5, <1>7 DEF CreditInv

\* A step that leaves the ledger alone and applies no event changes neither
\* side of CreditedOnce.
LEMMA OwedKept ==
  ASSUME CreditsExplained, OwedFinite, CreditedOnce, ledger' = ledger,
         \A f \in Events : Applied(f)' <=> Applied(f)
  PROVE  CreditsExplained' /\ OwedFinite' /\ CreditedOnce'
<1>1. \A u \in Users : /\ AppliedOf(u)' = AppliedOf(u)
                       /\ CreditsOf(u)' = CreditsOf(u)
  BY DEF AppliedOf, CreditsOf, KeysOf
<1>2. \A u \in Users : /\ PeriodsOf(u)' = PeriodsOf(u)
                       /\ GrantsOf(u)' = GrantsOf(u)
                       /\ PacksOf(u)' = PacksOf(u)
  BY <1>1 DEF PeriodsOf, GrantsOf, PacksOf, SubscribedOf
<1>3. \A u \in Users : /\ TokensOwed(u)' = TokensOwed(u)
                       /\ Credited(u)' = Credited(u)
  BY <1>1, <1>2 DEF TokensOwed, Credited
<1>4. CreditsExplained'
  BY DEF CreditsExplained
<1> QED
  BY <1>2, <1>3, <1>4 DEF OwedFinite, CreditedOnce

\* A step that opens no transaction and leaves the ledger alone keeps the
\* locks.
LEMMA LocksKept ==
  ASSUME LocksHold, ledger' = ledger,
         \A d \in Deliveries :
           delivery'[d].pc = "open" => delivery'[d] = delivery[d]
  PROVE  LocksHold'
  BY DEF LocksHold

LEMMA BeginLocks ==
  ASSUME BillingInv, LocksHold, NEW d \in Deliveries, BeginApply(d)
  PROVE  LocksHold'
<1>1. PICK e : e = delivery[d].event
  OBVIOUS
<1>2. delivery \in [Deliveries -> Delivery] /\ ledger' = ledger
  BY DEF BillingInv, BillingTypeOK, BeginApply, walletVars
<1>3. /\ delivery'[d].event = e
      /\ delivery'[d].found = (TokensOf(e) > 0 /\ Posted(RefOf(e), EntryKindOf(e)))
      /\ \A c \in Deliveries : c # d => delivery'[c] = delivery[c]
  BY <1>1, <1>2 DEF BeginApply, Delivery
<1>4. \A c \in Deliveries :
        delivery[c].pc = "open" => UserOf(delivery[c].event) # UserOf(e)
  BY <1>1 DEF BeginApply, Locked
<1>5. delivery'[d].found <=> TokensOf(e) > 0 /\ ledger'[KeyOf(e)] # None
  BY <1>2, <1>3 DEF Posted, KeyOf
<1>6. \A c \in Deliveries :
        delivery'[c].pc = "open" =>
          (delivery'[c].found <=> /\ TokensOf(delivery'[c].event) > 0
                                  /\ ledger'[KeyOf(delivery'[c].event)] # None)
  BY <1>2, <1>3, <1>5 DEF LocksHold
<1>7. \A b, c \in Deliveries :
        /\ delivery'[b].pc = "open" /\ delivery'[c].pc = "open"
        /\ UserOf(delivery'[b].event) = UserOf(delivery'[c].event)
        => b = c
  BY <1>3, <1>4 DEF LocksHold
<1> QED
  BY <1>6, <1>7 DEF LocksHold

\* Every other step leaves every entry and balance alone.
LEMMA OtherSteps ==
  ASSUME BillingInv, [BillingNext]_billingVars,
         \A d \in Deliveries : ~CommitApply(d)
  PROVE  /\ ledger' = ledger
         /\ \A u \in Users : /\ wallet'[u].available = wallet[u].available
                             /\ wallet'[u].reserved = wallet[u].reserved
         /\ \A f \in Events : Applied(f)' <=> Applied(f)
         /\ \/ \E d \in Deliveries : BeginApply(d)
            \/ \A d \in Deliveries :
                 delivery'[d].pc = "open" => delivery'[d] = delivery[d]
<1>1. BillingTypeOK /\ WalletTypeOK
  BY DEF BillingInv, BillingTypeOK
<1>2. ASSUME NEW d \in Deliveries, NEW e \in Events, ClaimBilling(d, e)
      PROVE  /\ UNCHANGED walletVars
             /\ \A f \in Events : Applied(f)' <=> Applied(f)
             /\ \A c \in Deliveries :
                  delivery'[c].pc = "open" => delivery'[c] = delivery[c]
  BY <1>1, <1>2 DEF ClaimBilling, Applied, BillingTypeOK, Free
<1>3. ASSUME CrashBilling \/ \E d \in Deliveries : FailApply(d)
      PROVE  /\ UNCHANGED walletVars
             /\ \A f \in Events : Applied(f)' <=> Applied(f)
             /\ \A c \in Deliveries :
                  delivery'[c].pc = "open" => delivery'[c] = delivery[c]
  BY <1>1, <1>3, FreeDelivery
     DEF CrashBilling, FailApply, Applied, BillingTypeOK
<1>4. ASSUME NEW u \in Users, ExpireLazily(u)
      PROVE  /\ UNCHANGED <<ledger, processed, delivery>>
             /\ \A v \in Users : /\ wallet'[v].available = wallet[v].available
                                 /\ wallet'[v].reserved = wallet[v].reserved
  BY <1>1, <1>4 DEF ExpireLazily, SetFrozen, WalletTypeOK, Balance
<1>5. ASSUME \/ Tick \/ UNCHANGED billingVars
             \/ \E e \in Events : AnswerDuplicate(e)
      PROVE  UNCHANGED <<walletVars, processed, delivery>>
  BY <1>5 DEF Tick, AnswerDuplicate, billingVars
<1>6. ASSUME NEW d \in Deliveries, BeginApply(d)
      PROVE  UNCHANGED <<walletVars, processed>>
  BY <1>6 DEF BeginApply
<1> QED
  BY <1>2, <1>3, <1>4, <1>5, <1>6 DEF BillingNext, walletVars, Applied

LEMMA OtherCredits ==
  ASSUME BillingInv, BillingInv', CreditInv, [BillingNext]_billingVars,
         \A d \in Deliveries : ~CommitApply(d)
  PROVE  CreditInv' /\ JournalStep
<1>1. /\ LocksHold /\ CreditsExplained /\ OwedFinite /\ LedgerFinite
      /\ BalancesRebuild /\ CreditedOnce
      /\ WalletTypeOK /\ WalletTypeOK'
  BY DEF CreditInv, BillingInv, BillingTypeOK
<1>2. JournalStep
  BY OtherSteps, FlagJournal
<1>3. LedgerFinite' /\ BalancesRebuild'
  BY <1>1, <1>2, RebuildStep
<1>4. CreditsExplained' /\ OwedFinite' /\ CreditedOnce'
  BY <1>1, OtherSteps, OwedKept
<1>5. LocksHold'
  BY <1>1, OtherSteps, BeginLocks, LocksKept
<1> QED
  BY <1>2, <1>3, <1>4, <1>5 DEF CreditInv

LEMMA CreditStepBilling ==
  ASSUME UsersApart, BillingInv, CreditInv, [BillingNext]_billingVars
  PROVE  CreditInv' /\ JournalStep
<1>1. BillingInv'
  BY BillingStep
<1>2. ASSUME NEW d \in Deliveries, CommitApply(d)
      PROVE  CreditInv' /\ JournalStep
  BY <1>2, CommitCredits, CommitLedger DEF CreditInv
<1>3. CASE \A d \in Deliveries : ~CommitApply(d)
  BY <1>1, <1>3, OtherCredits
<1> QED
  BY <1>2, <1>3

LEMMA CreditInit == BillingInit => CreditInv
<1> SUFFICES ASSUME BillingInit PROVE CreditInv
  OBVIOUS
<1>1. LedgerFinite /\ BalancesRebuild
  BY RebuildInit DEF BillingInit
<1>2. LocksHold
  BY FreeDelivery DEF BillingInit, LocksHold
<1>3. CreditsExplained
  BY DEF BillingInit, WalletInit, CreditsExplained, Applied
<1>4. ASSUME NEW u \in Users
      PROVE  /\ PeriodsOf(u) = {} /\ GrantsOf(u) = {} /\ PacksOf(u) = {}
             /\ CreditsOf(u) = {}
  BY DEF BillingInit, WalletInit, PeriodsOf, GrantsOf, PacksOf, SubscribedOf,
         AppliedOf, Applied, CreditsOf, KeysOf
<1>5. OwedFinite
  BY <1>4, FS_EmptySet DEF OwedFinite
<1>6. ASSUME NEW u \in Users
      PROVE  Credited(u) = TokensOwed(u)
  <2>1. /\ Credited(u) =
             SumFunctionOnSet([k \in CreditsOf(u) |-> ledger[k].amount], {})
        /\ TokensOwed(u) =
             SumFunctionOnSet([p \in PeriodsOf(u) |-> ProductTokens[p[1]]], {})
             + SumFunctionOnSet([e \in GrantsOf(u) |-> EventOf[e].tokens], {})
             + SumFunctionOnSet(
                 [e \in PacksOf(u) |-> ProductTokens[EventOf[e].product]], {})
    BY <1>4 DEF Credited, TokensOwed, SumFunction
  <2> QED
    BY <2>1, SumEmpty
<1> QED
  BY <1>1, <1>2, <1>3, <1>5, <1>6 DEF CreditInv, CreditedOnce

LEMMA CreditAlways ==
  ASSUME UsersApart
  PROVE  BillingSpec => [](BillingInv /\ CreditInv)
<1>1. BillingInv /\ CreditInv /\ [BillingNext]_billingVars => CreditInv'
  BY CreditStepBilling
<1> QED
  BY <1>1, CreditInit, BillingAlways, PTL DEF BillingSpec

\* Every user is credited for every purchase, grant and period exactly once,
\* whatever the events, their order, how often they come, how deliveries
\* overlap and where their handling breaks off, as long as no two users share
\* the reference of a period (BillingWebhookService.apply, insert_or_get).
THEOREM EventsCreditedOnce ==
  ASSUME UsersApart
  PROVE  BillingSpec => []CreditedOnce
<1>1. CreditInv => CreditedOnce
  BY DEF CreditInv
<1> QED
  BY <1>1, CreditAlways, PTL

\* Tokens and access together follow the events that were applied: no failed
\* or crashed second phase leaves half of its effects (the one transaction of
\* BillingWebhookService.apply).
THEOREM BillingSettles ==
  ASSUME UsersApart
  PROVE  BillingSpec => []EventsSettled
<1>1. CreditedOnce /\ FrozenWithStatus => EventsSettled
  BY DEF EventsSettled
<1> QED
  BY <1>1, EventsCreditedOnce, FrozenFollowsStatus, PTL

\* The webhooks and the gate keep the ledger an append-only journal, although
\* they look for an entry long before they write it: the lock of the user's
\* rows spans both.
THEOREM BillingJournaled ==
  ASSUME UsersApart
  PROVE  BillingSpec => Journaled
<1>1. BillingInv /\ CreditInv /\ [BillingNext]_billingVars
        => [JournalStep]_walletVars
  BY CreditStepBilling
<1> QED
  BY <1>1, CreditAlways, PTL DEF BillingSpec, Journaled

\* Under the webhooks the balances remain the sums of the ledger.
THEOREM BillingRebuilds ==
  ASSUME UsersApart
  PROVE  BillingSpec => []BalancesRebuild
<1>1. CreditInv => BalancesRebuild
  BY DEF CreditInv
<1> QED
  BY <1>1, CreditAlways, PTL

=============================================================================
