---------------------------- MODULE BillingEvents ----------------------------
(***************************************************************************)
(* What the parsers of the two billing providers make of a payload.  A     *)
(* payload is a record of the fields the parser looks at, None where one   *)
(* is absent; a field that is searched under several names is the          *)
(* sequence of what stands under them, in the order of the search.         *)
(***************************************************************************)
EXTENDS Integers, Sequences

CONSTANT None

\* The first that is there.
FirstOf(s) ==
  LET present == {i \in DOMAIN s : s[i] # None}
  IN  IF present = {} THEN None
      ELSE s[CHOOSE i \in present : \A k \in present : i <= k]

-----------------------------------------------------------------------------
(* Adapty *)

RefundTypes == {"refund", "subscription_refunded"}

\* _EVENT_MAP
AdaptyKindByName(type) ==
  CASE type \in {"subscription_started", "subscription_initial_purchase",
                 "trial_started"} -> "purchased"
    [] type \in {"subscription_renewed", "trial_converted"} -> "renewed"
    [] type \in {"subscription_cancelled", "subscription_renewal_cancelled",
                 "trial_renewal_cancelled"} -> "canceled"
    [] type \in {"subscription_expired", "trial_expired"} -> "expired"
    [] type = "non_subscription_purchase" -> "one_time"
    [] type \in RefundTypes -> "refund"
    [] OTHER -> None

\* _resolve_kind: whether the profile has access counts more than the name
\* of the event.
AdaptyKind(raw) ==
  LET access == FirstOf(raw.access)
  IN  CASE raw.type \in RefundTypes \/ raw.refund -> "refund"
        [] raw.type = "non_subscription_purchase" /\ ~raw.refund -> "one_time"
        [] OTHER -> IF access = None THEN AdaptyKindByName(raw.type)
                    ELSE IF access THEN "purchased" ELSE "expired"

\* Without an id of its own an event goes by its transaction and its type.
AdaptyId(raw) ==
  IF FirstOf(raw.ids) # None THEN FirstOf(raw.ids)
  ELSE IF FirstOf(raw.transactions) # None
       THEN <<FirstOf(raw.transactions), raw.type>>
       ELSE None

-----------------------------------------------------------------------------
(* RuStore *)

RustoreKind(raw) ==
  CASE raw.type = "SUBSCRIPTION_PURCHASED" -> "purchased"
    [] raw.type = "SUBSCRIPTION_RENEWED" -> "renewed"
    [] raw.type = "SUBSCRIPTION_CANCELED" -> "canceled"
    [] raw.type = "SUBSCRIPTION_EXPIRED" -> "expired"
    [] raw.type = "ONE_TIME_PURCHASE" -> "one_time"
    [] raw.type = "REFUND" -> "refund"
    [] OTHER -> None

RustoreId(raw) == FirstOf(raw.ids)

-----------------------------------------------------------------------------

\* A payload without a kind, an id or a user is refused.
Parsed(raw, kind, id) ==
  kind # None /\ id # None /\ FirstOf(raw.users) # None

\* The event of a payload that arrives at the given moment, which stands in
\* for a missing time of occurrence.
Normalized(raw, kind, arrival) ==
  [user |-> FirstOf(raw.users), kind |-> kind,
   product |-> FirstOf(raw.products), tokens |-> raw.tokens,
   occurred |-> IF FirstOf(raw.occurred) = None THEN arrival
                ELSE FirstOf(raw.occurred),
   expires |-> FirstOf(raw.expires)]

AdaptyEvent(raw, arrival) == Normalized(raw, AdaptyKind(raw), arrival)
RustoreEvent(raw, arrival) == Normalized(raw, RustoreKind(raw), arrival)

-----------------------------------------------------------------------------
(* The endpoints.  An empty body, a test and a payload the parser refuses   *)
(* are all answered 200 and change nothing: no event comes of them.        *)

\* _is_test_payload
TestTypes == {"test", "ping", "test_event"}
IsTest(raw) == raw.type \in TestTypes

AdaptyWebhook(raw, arrival) ==
  IF raw = None THEN None
  ELSE IF IsTest(raw) \/ ~Parsed(raw, AdaptyKind(raw), AdaptyId(raw)) THEN None
  ELSE [id |-> AdaptyId(raw), event |-> AdaptyEvent(raw, arrival)]

RfWebhook(raw, arrival) ==
  IF raw = None THEN None
  ELSE IF IsTest(raw) \/ ~Parsed(raw, RustoreKind(raw), RustoreId(raw)) THEN None
  ELSE [id |-> RustoreId(raw), event |-> RustoreEvent(raw, arrival)]

=============================================================================
