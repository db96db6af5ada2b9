------------------------------- MODULE Pricing -------------------------------
(***************************************************************************)
(* PricingService: what a request sets aside and what a track costs.       *)
(*                                                                         *)
(* A Decimal is a fraction <<n, d>>.  Quotients and products are rounded   *)
(* half-even to the significant digits of the decimal context, as Python   *)
(* does, before the rounding mode of the rule sees them: with 28 digits,   *)
(* 100 seconds at 3 tokens a minute cost 6.  Fewer digits round more       *)
(* often.  Rates, durations and units are not negative.                    *)
(***************************************************************************)
EXTENDS Integers

CONSTANTS Digits,  \* precision of the decimal context
          Unset    \* a column or a parameter that is None

ASSUME DigitsAssumption == Digits \in Nat \ {0}

BillingModes == {"per_track", "per_minute"}
RoundingModes == {"ceil", "floor", "nearest"}

HalfEven(n, d) ==
  LET q == n \div d
      r == n % d
  IN  IF 2 * r > d \/ (2 * r = d /\ q % 2 = 1) THEN q + 1 ELSE q

\* The fraction n/d as the context stores it.
Decimal(n, d) ==
  LET enough(i) == n * 10^i >= d * 10^(Digits - 1)
      shift == CHOOSE i \in 0 .. 2 * Digits :
                 enough(i) /\ (i > 0 => ~enough(i - 1))
  IN  IF n = 0 THEN <<0, 1>>
      ELSE <<HalfEven(n * 10^shift, d), 10^shift>>

Product(x, y) == Decimal(x[1] * y[1], x[2] * y[2])

Minutes(seconds) == Decimal(seconds, 60)

\* _round
Rounded(x, mode) ==
  LET half == Decimal(2 * x[1] + x[2], 2 * x[2])
  IN  CASE mode = "ceil"    -> -((-x[1]) \div x[2])
        [] mode = "floor"   -> x[1] \div x[2]
        [] mode = "nearest" -> half[1] \div half[2]

AtLeastOne(n) == IF n < 1 THEN 1 ELSE n

\* The price by a rule of a track of so many minutes.
Required(rule, minutes) ==
  AtLeastOne(Rounded(IF rule.mode = "per_track" THEN rule.rate
                     ELSE Product(rule.rate, minutes),
                     rule.rounding))

\* required_tokens_for_precharge
Precharge(rule, requested) ==
  Required(rule, CASE requested # Unset  -> Minutes(requested)
                   [] requested = Unset /\ rule.units # Unset -> rule.units
                   [] OTHER -> <<1, 1>>)

\* The amount _finalize captures: the price of the actual duration (0 where
\* it could not be found out), at most what was set aside.
Captured(rule, actual, reserved) ==
  LET price == IF actual > 0 THEN Required(rule, Minutes(actual)) ELSE reserved
  IN  IF price <= reserved THEN price ELSE reserved

\* get_active_rule: the latest rule of the model that is in force.
ActiveRule(rules, model, at) ==
  LET inForce == {r \in rules : r.model = model /\ r.from <= at}
  IN  CHOOSE r \in inForce : \A other \in inForce : other.from <= r.from

=============================================================================
