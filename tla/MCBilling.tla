----------------------------- MODULE MCBilling -----------------------------
(* Instances of Billing: the life of one subscription (two events of one   *)
(* period, a renewal, an expiry, a token pack and a refund beyond it), and *)
(* small sets of events that meet in a particular way.                     *)
EXTENDS Billing, TLC

CONSTANTS u1, u2, p1, p2, e1, e2, e3, e4, e5, e6, d1, d2

OneUser == {u1}
TwoUsers == {u1, u2}
NoJobs == {}
NoOwner == [j \in {} |-> u1]
NoPrice == [j \in {} |-> 1]
MCAmounts == {1, 2}
MCProductTokens == p1 :> 2 @@ p2 :> 1

Parser == INSTANCE BillingEvents

\* What Adapty sends: an event of u with the access the profile has.
Adapty(e, u, type, access, product, tokens, occurred, expires) ==
  [ids |-> <<e, None, None, None>>, transactions |-> <<None, None>>,
   type |-> type, refund |-> type = "access_level_updated" /\ tokens # None,
   access |-> <<None, access, None, None>>, users |-> <<u, None, None, None>>,
   products |-> <<product, None>>, tokens |-> tokens,
   occurred |-> <<occurred, None, None>>, expires |-> <<expires, None>>]

\* What RuStore sends.
Rustore(e, u, type, product, tokens, occurred, expires) ==
  [ids |-> <<None, e>>, type |-> type, users |-> <<u, None>>,
   products |-> <<product>>, tokens |-> tokens,
   occurred |-> <<occurred, None>>, expires |-> <<expires>>]

\* EventOf by what the endpoints pass on, all of it received at 0.
Heard(answers) ==
  LET passed == answers \ {None}
  IN  [e \in {a.id : a \in passed} |->
         (CHOOSE a \in passed : a.id = e).event]
OfAdapty(payloads) == Heard({Parser!AdaptyWebhook(raw, 0) : raw \in payloads})
OfRustore(payloads) == Heard({Parser!RfWebhook(raw, 0) : raw \in payloads})

\* TLC keeps the value of LifeEvents, not that of the definition a
\* configuration puts for EventOf.  Two events of one period, the second of a type that only its access
\* explains, and the rest of a life; an unknown type, a test and an empty
\* body are not events.
LifeEvents == OfAdapty({
  Adapty(e1, u1, "trial_started", TRUE, p1, None, 0, 1),
  Adapty(e2, u1, "access_level_updated", TRUE, p1, None, 0, 1),
  Adapty(e3, u1, "subscription_renewed", None, p1, None, 1, 3),
  Adapty(e4, u1, "trial_renewal_cancelled", FALSE, p1, None, 2, None),
  Adapty(e5, u1, "non_subscription_purchase", TRUE, p2, None, 0, None),
  Adapty(e6, u1, "access_level_updated", TRUE, p2, 2, 1, None),
  Adapty(d1, u1, "paywall_shown", None, None, None, 0, None),
  Adapty(d2, u1, "test", None, None, None, None, None), None})
Life == LifeEvents

\* Explicit grants and an expiry before anything else, of two users.
ExplicitEvents == OfRustore({
  Rustore(e1, u1, "SUBSCRIPTION_PURCHASED", p1, 1, 0, 2),
  Rustore(e2, u2, "SUBSCRIPTION_RENEWED", p1, None, 0, 2),
  Rustore(e3, u1, "SUBSCRIPTION_CANCELED", p1, None, 1, None),
  Rustore(e4, u2, "SUBSCRIPTION_EXPIRED", p1, None, 1, None),
  Rustore(e5, u1, "REFUND", p2, None, 1, None)})
Explicitly == ExplicitEvents

SamePeriod == OfRustore({
  Rustore(e1, u1, "SUBSCRIPTION_PURCHASED", p1, None, 0, 1),
  Rustore(e2, u2, "SUBSCRIPTION_PURCHASED", p1, None, 0, 1)})

CanceledLate == OfRustore({
  Rustore(e1, u1, "SUBSCRIPTION_PURCHASED", p1, None, 0, 2),
  Rustore(e2, u1, "SUBSCRIPTION_CANCELED", p1, None, 0, None),
  Rustore(e3, u1, "SUBSCRIPTION_EXPIRED", p1, None, 1, None)})

OnePack == OfRustore({Rustore(e1, u1, "ONE_TIME_PURCHASE", p2, None, 0, None)})

NoEnd == OfRustore({Rustore(e1, u1, "SUBSCRIPTION_PURCHASED", p1, None, 0, None)})

Events1 == {e1}
Events2 == {e1, e2}
Events3 == {e1, e2, e3}
Events5 == {e1, e2, e3, e4, e5}
Events6 == {e1, e2, e3, e4, e5, e6}

MCCredits == {RefOf(e) : e \in Events}

=============================================================================
