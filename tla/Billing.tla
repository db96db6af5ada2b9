------------------------------ MODULE Billing ------------------------------
(***************************************************************************)
(* The billing webhooks (BillingWebhookService.apply) and the subscription *)
(* gate, over the wallet.                                                  *)
(*                                                                         *)
(* A delivery claims its event in one transaction and applies it in a      *)
(* second one that holds the rows of the user (music_users,                *)
(* subscription_state, token_wallets) to its end.  Nothing else is locked: *)
(* the ledger entry an event would write is looked for when the            *)
(* transaction has just begun and written when it commits, and deliveries  *)
(* of different users overlap in between.  Events arrive in any order      *)
(* after they occurred, and again as long as the sender has no 200.        *)
(*                                                                         *)
(* Times are small numbers.  Of subscription_state the columns that only   *)
(* the display reads (provider, product, started_at, canceled_at,          *)
(* last_event_id) are left out.                                            *)
(***************************************************************************)
EXTENDS Wallet

CONSTANTS Events,        \* billing events, named by their event_id
          EventOf,       \* EventOf[e]: what the parser makes of event e
          ProductTokens, \* token_products: tokens of a product, 0 if unknown
          Deliveries,    \* names for concurrent webhook requests
          Horizon,       \* last moment
          MaxFaults      \* bound on crashes and failed transactions

Products == DOMAIN ProductTokens
Times == 0 .. Horizon

SubscriptionKinds == {"purchased", "renewed"}
EventKinds == SubscriptionKinds \cup {"canceled", "expired", "one_time", "refund"}

\* NormalizedBillingEvent; tokens is token_amount, None where it is absent.
BillingEvent == [user : Users, kind : EventKinds, product : Products,
                 tokens : Nat \cup {None}, occurred : Times,
                 expires : Times \cup {None}]

ASSUME EventsAssumption == /\ EventOf \in [Events -> BillingEvent]
                           /\ None \notin Events \cup Times
ASSUME ProductsAssumption == ProductTokens \in [Products -> Nat]
ASSUME BoundsAssumption == Horizon \in Nat /\ MaxFaults \in Nat

VARIABLES sub,        \* sub[u]: the row of subscription_state
          processed,  \* processed[e]: outcome in processed_webhooks
          acked,      \* events the sender got a 200 for
          delivery,   \* delivery[d]: the locals of a request
          now,
          faults

billingVars == <<walletVars, sub, processed, acked, delivery, now, faults>>

SubscriptionStatuses == {"none", "active", "canceled", "expired"}

Subscription == [status : SubscriptionStatuses, expires : Times \cup {None},
                 last : Times \cup {None}]

\* found: the ledger already had the entry this event would write.
Delivery == [pc : {"idle", "claimed", "open"}, event : Events \cup {None},
             found : BOOLEAN]

BillingTypeOK ==
  /\ WalletTypeOK
  /\ sub \in [Users -> Subscription]
  /\ processed \in [Events -> {"none", "received", "applied"}]
  /\ acked \subseteq Events
  /\ delivery \in [Deliveries -> Delivery]
  /\ now \in Times
  /\ faults \in 0 .. MaxFaults

Free == [pc |-> "idle", event |-> None, found |-> FALSE]

BillingInit ==
  /\ WalletInit
  /\ sub = [u \in Users |-> [status |-> "none", expires |-> None, last |-> None]]
  /\ processed = [e \in Events |-> "none"]
  /\ acked = {}
  /\ delivery = [d \in Deliveries |-> Free]
  /\ now = 0
  /\ faults = 0

-----------------------------------------------------------------------------
(* What an event does *)

UserOf(e) == EventOf[e].user
KindOf(e) == EventOf[e].kind

\* token_amount counts only when it is there and positive.
Explicit(e) == EventOf[e].tokens # None /\ EventOf[e].tokens > 0

\* The tokens an event moves: a purchase always takes those of the product,
\* a refund those of the event even when they are 0.
TokensOf(e) ==
  LET given == IF KindOf(e) = "refund" THEN EventOf[e].tokens # None
               ELSE KindOf(e) \in SubscriptionKinds /\ Explicit(e)
  IN  CASE KindOf(e) \in {"canceled", "expired"} -> 0
        [] given -> EventOf[e].tokens
        [] OTHER -> ProductTokens[EventOf[e].product]

\* The period an event is about: the product and the end of the period, or
\* the event where it has no end.
PeriodOf(e) ==
  <<EventOf[e].product,
    IF EventOf[e].expires = None THEN e ELSE EventOf[e].expires>>

\* Mutant of RefOf: every grant is made once an event.
RefOfEvent(e) == e

\* A grant of the product's tokens is made once a period, everything else
\* once an event.
RefOf(e) ==
  IF KindOf(e) \in SubscriptionKinds /\ ~Explicit(e) THEN PeriodOf(e) ELSE e

ASSUME CreditsAssumption == {RefOf(e) : e \in Events} \subseteq Credits

\* A ledger reference names its type: that of a period ("subscription_period")
\* is never that of an event.
ASSUME PeriodsAssumption == {PeriodOf(e) : e \in Events} \cap Events = {}

EntryKindOf(e) ==
  CASE KindOf(e) \in SubscriptionKinds -> "credit_subscription_grant"
    [] KindOf(e) = "refund" -> "credit_refund"
    [] OTHER -> "credit_purchase"

\* Mutant of Later: what comes last wins.
LaterToCome(a, b) == IF b = None THEN a ELSE b

\* _max_dt
Later(a, b) == IF a = None THEN b ELSE IF b = None \/ a >= b THEN a ELSE b

StatusAfter(s, kind) ==
  CASE kind \in SubscriptionKinds -> "active"
    [] kind \in {"canceled", "expired"} -> kind
    [] OTHER -> s.status

ExpiresAfter(s, e) ==
  CASE KindOf(e) \in SubscriptionKinds -> Later(s.expires, EventOf[e].expires)
    [] KindOf(e) = "expired" /\ s.expires = None -> EventOf[e].occurred
    [] OTHER -> s.expires

SubscriptionAfter(s, e) ==
  [status |-> StatusAfter(s, KindOf(e)),
   expires |-> ExpiresAfter(s, e),
   last |-> Later(s.last, EventOf[e].occurred)]

\* Mutant of CreditNotFound: the entry states the balance before the credit.
CreditNotFoundBefore(u, n, kind, r, w) ==
  /\ wallet' = [wallet EXCEPT ![u] = Moved(w, n, 0)]
  /\ ledger' = [ledger EXCEPT ![<<r, kind>>] =
                   IF @ = None THEN EntryFor(u, w, n, 0) ELSE @]

\* credit_in_session for an event that was not found.  An entry that another
\* user committed since then stays, and the balance moves all the same.
CreditNotFound(u, n, kind, r, w) ==
  LET credited == Moved(w, n, 0)
  IN  /\ wallet' = [wallet EXCEPT ![u] = credited]
      /\ ledger' = [ledger EXCEPT ![<<r, kind>>] =
                      IF @ = None THEN EntryFor(u, credited, n, 0) ELSE @]

\* _apply_wallet_effects
WalletEffects(e, found) ==
  LET u == UserOf(e)
      n == TokensOf(e)
      w == CASE KindOf(e) \in SubscriptionKinds ->
                  [wallet[u] EXCEPT !.frozen = FALSE]
             [] KindOf(e) = "expired" -> [wallet[u] EXCEPT !.frozen = TRUE]
             [] OTHER -> wallet[u]
  IN  \/ /\ n = 0 \/ found
         /\ wallet' = [wallet EXCEPT ![u] = w]
         /\ UNCHANGED ledger
      \/ /\ n > 0 /\ ~found
         /\ KindOf(e) # "refund"
         /\ CreditNotFound(u, n, EntryKindOf(e), RefOf(e), w)
      \/ /\ n > 0 /\ ~found
         /\ KindOf(e) = "refund"
         /\ Refund(u, n, RefOf(e))

-----------------------------------------------------------------------------
(* The webhook *)

\* Phase 1: the event is claimed.
ClaimBilling(d, e) ==
  /\ delivery[d].pc = "idle"
  /\ now >= EventOf[e].occurred
  /\ processed[e] = "none"
  /\ processed' = [processed EXCEPT ![e] = "received"]
  /\ delivery' = [delivery EXCEPT ![d] =
                    [Free EXCEPT !.pc = "claimed", !.event = e]]
  /\ UNCHANGED <<walletVars, sub, acked, now, faults>>

\* A redelivery of a claimed event is answered "duplicate", a 200.
AnswerDuplicate(e) ==
  /\ processed[e] # "none"
  /\ e \notin acked
  /\ acked' = acked \cup {e}
  /\ UNCHANGED <<walletVars, sub, processed, delivery, now, faults>>

\* Some transaction holds the rows of u.
Locked(u) ==
  \E d \in Deliveries : delivery[d].pc = "open" /\ UserOf(delivery[d].event) = u

\* Phase 2 begins: the rows of the user are locked, the entry is looked for.
BeginApply(d) ==
  LET e == delivery[d].event
  IN  /\ delivery[d].pc = "claimed"
      /\ ~Locked(UserOf(e))
      /\ delivery' = [delivery EXCEPT
           ![d].pc = "open",
           ![d].found = TokensOf(e) > 0 /\ Posted(RefOf(e), EntryKindOf(e))]
      /\ UNCHANGED <<walletVars, sub, processed, acked, now, faults>>

\* Mutant of CommitApply: the event is not marked.
CommitApplyUnmarked(d) ==
  LET e == delivery[d].event
      u == UserOf(e)
  IN  /\ delivery[d].pc = "open"
      /\ sub' = [sub EXCEPT ![u] = SubscriptionAfter(@, e)]
      /\ WalletEffects(e, delivery[d].found)
      /\ acked' = acked \cup {e}
      /\ delivery' = [delivery EXCEPT ![d] = Free]
      /\ UNCHANGED <<processed, now, faults>>

\* Phase 2 commits, and the sender gets its 200.
CommitApply(d) ==
  LET e == delivery[d].event
      u == UserOf(e)
  IN  /\ delivery[d].pc = "open"
      /\ sub' = [sub EXCEPT ![u] = SubscriptionAfter(@, e)]
      /\ WalletEffects(e, delivery[d].found)
      /\ processed' = [processed EXCEPT ![e] = "applied"]
      /\ acked' = acked \cup {e}
      /\ delivery' = [delivery EXCEPT ![d] = Free]
      /\ UNCHANGED <<now, faults>>

\* Mutant of FailApply: the wallet effects had a transaction of their own.
FailApplyPartly(d) ==
  /\ delivery[d].pc = "open"
  /\ faults < MaxFaults
  /\ faults' = faults + 1
  /\ WalletEffects(delivery[d].event, delivery[d].found)
  /\ delivery' = [delivery EXCEPT ![d] = Free]
  /\ UNCHANGED <<sub, processed, acked, now>>

\* Phase 2 fails (the database is gone, a statement fails): it is rolled
\* back, the claim is not, and the sender gets a 500.
FailApply(d) ==
  /\ delivery[d].pc # "idle"
  /\ faults < MaxFaults
  /\ faults' = faults + 1
  /\ delivery' = [delivery EXCEPT ![d] = Free]
  /\ UNCHANGED <<walletVars, sub, processed, acked, now>>

CrashBilling ==
  /\ faults < MaxFaults
  /\ faults' = faults + 1
  /\ delivery' = [d \in Deliveries |-> Free]
  /\ UNCHANGED <<walletVars, sub, processed, acked, now>>

-----------------------------------------------------------------------------
(* The gate *)

\* The gate lets u through.
Admitted(u) ==
  /\ sub[u].status \in {"active", "canceled"}
  /\ sub[u].expires # None
  /\ sub[u].expires > now

\* Mutant of ExpireLazily: the wallet is not frozen.
ExpireLazilyUnfrozen(u) ==
  /\ ~Locked(u)
  /\ sub[u].status = "active"
  /\ ~Admitted(u)
  /\ sub' = [sub EXCEPT ![u].status = "expired"]
  /\ UNCHANGED <<walletVars, processed, acked, delivery, now, faults>>

\* ensure_active of an active subscription that has run out, or that has no
\* end.  In every other case the gate changes nothing.
ExpireLazily(u) ==
  /\ ~Locked(u)
  /\ sub[u].status = "active"
  /\ ~Admitted(u)
  /\ sub' = [sub EXCEPT ![u].status = "expired"]
  /\ SetFrozen(u, TRUE)
  /\ UNCHANGED <<processed, acked, delivery, now, faults>>

Tick ==
  /\ now < Horizon
  /\ now' = now + 1
  /\ UNCHANGED <<walletVars, sub, processed, acked, delivery, faults>>

BillingNext ==
  \/ \E d \in Deliveries, e \in Events : ClaimBilling(d, e)
  \/ \E e \in Events : AnswerDuplicate(e)
  \/ \E d \in Deliveries : BeginApply(d) \/ CommitApply(d) \/ FailApply(d)
  \/ CrashBilling
  \/ \E u \in Users : ExpireLazily(u)
  \/ Tick

BillingSpec == BillingInit /\ [][BillingNext]_billingVars

-----------------------------------------------------------------------------
(* Properties *)

Applied(e) == processed[e] = "applied"

AppliedOf(u) == {e \in Events : Applied(e) /\ UserOf(e) = u}
SubscribedOf(u) == {e \in AppliedOf(u) : KindOf(e) \in SubscriptionKinds}

\* What the applied events of u entitle u to: the tokens of every period
\* once, and those of every explicit grant and every other purchase.
PeriodsOf(u) == {PeriodOf(e) : e \in {x \in SubscribedOf(u) : ~Explicit(x)}}
GrantsOf(u) == {e \in SubscribedOf(u) : Explicit(e)}
PacksOf(u) == {e \in AppliedOf(u) : KindOf(e) = "one_time"}

TokensOwed(u) ==
  SumFunction([p \in PeriodsOf(u) |-> ProductTokens[p[1]]])
  + SumFunction([e \in GrantsOf(u) |-> EventOf[e].tokens])
  + SumFunction([e \in PacksOf(u) |-> ProductTokens[EventOf[e].product]])

\* What the ledger says u was credited for events.
CreditsOf(u) == {k \in KeysOf(u) : k[2] \in GrantKinds}
Credited(u) == SumFunction([k \in CreditsOf(u) |-> ledger[k].amount])

\* A user was credited for every purchase, grant and period exactly once, in
\* whatever order and how often the events came and wherever their handling
\* broke off (the ledger keys and the one transaction of phase 2).
CreditedOnce == \A u \in Users : Credited(u) = TokensOwed(u)

\* The wallet is frozen by an expired subscription and by nothing but it: the
\* status and the flag are written by the webhook and by the gate, in the
\* same transaction each.
FrozenWithStatus ==
  \A u \in Users :
    /\ sub[u].status = "expired" => wallet[u].frozen
    /\ sub[u].status \in {"none", "active"} => ~wallet[u].frozen

\* Tokens and access together follow the events that were applied: what a
\* failed or crashed second phase began leaves no trace in either.
EventsSettled == CreditedOnce /\ FrozenWithStatus

\* Whom the gate admits can spend: a canceled subscription gives access to
\* the end of its period (_apply_to_state and ensure_active).
AdmittedMaySpend == \A u \in Users : Admitted(u) => ~wallet[u].frozen

\* The end of a subscription never moves back, however late an older event
\* comes.
ExpiryStep ==
  \A u \in Users :
    sub[u].expires # None =>
      sub'[u].expires # None /\ sub'[u].expires >= sub[u].expires
ExpiryNeverShrinks == [][ExpiryStep]_billingVars

\* An event whose sender was told 200 is applied or is being applied: the
\* sender will not send it again.
NoEventLost ==
  \A e \in acked :
    Applied(e) \/ \E d \in Deliveries : delivery[d].event = e

\* The gate ends an active subscription only when its end has passed.
GateStep ==
  \A u \in Users :
    /\ sub[u].status = "active"
    /\ sub'[u].status = "expired"
    /\ processed' = processed
    => sub[u].expires # None /\ sub[u].expires <= now
GateWaitsForExpiry == [][GateStep]_billingVars

=============================================================================
