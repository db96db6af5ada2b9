------------------------------- MODULE Wallet -------------------------------
(***************************************************************************)
(* The token wallet and its append-only ledger.                            *)
(*                                                                         *)
(* Every method of WalletService runs in one database transaction that     *)
(* first locks the wallet row (SELECT ... FOR UPDATE), so each method is   *)
(* one action here.  An outcome of a method (done, duplicate, refused,     *)
(* aborted by a CHECK constraint) is an operator of its own: the modules   *)
(* that call the wallet choose their next step by it.                      *)
(*                                                                         *)
(* A ledger key is "ref_type:ref_id:kind".  References of type "job" are   *)
(* Jobs, those of the billing events are Credits.  The clamp entry of a    *)
(* refund is written under "<ref_id>:clamp" with a kind that nothing else  *)
(* uses, so <<r, "debit_adjustment">> stands for it.                       *)
(***************************************************************************)
EXTENDS Integers, FiniteSetsExt

CONSTANTS Users,    \* owners of a wallet
          Jobs,     \* references of type "job"
          Credits,  \* references of the billing events
          Owner,    \* Owner[j]: the user a job belongs to
          Price,    \* Price[j]: jobs.reserved_tokens, fixed when j is created
          Amounts,  \* token amounts of the billing events
          None      \* no value

Refs == Jobs \cup Credits

Kinds == {"credit_purchase", "credit_subscription_grant", "debit_reserve",
          "debit_capture", "credit_release", "credit_refund",
          "debit_adjustment"}

\* The kinds a billing event credits with.
GrantKinds == {"credit_purchase", "credit_subscription_grant"}

Keys == Refs \X Kinds

Balance == [available : Nat, reserved : Nat, frozen : BOOLEAN]

\* available and reserved are the balances after the operation; prev is
\* meta["previously_reserved"] of a capture and 0 in every other entry.
Entry == [user : Users, amount : Int, available : Nat, reserved : Nat,
          prev : Nat]

ASSUME OwnerAssumption == Owner \in [Jobs -> Users]
ASSUME PriceAssumption == Price \in [Jobs -> Nat \ {0}]
ASSUME AmountsAssumption == Amounts \subseteq Nat \ {0}
ASSUME NoneAssumption == None \notin Entry
ASSUME RefsAssumption == Jobs \cap Credits = {}

VARIABLES wallet,  \* wallet[u]: the row of token_wallets
          ledger   \* ledger[k]: the row of token_ledger with this key

walletVars == <<wallet, ledger>>

WalletTypeOK ==
  /\ wallet \in [Users -> Balance]
  /\ ledger \in [Keys -> Entry \cup {None}]

WalletInit ==
  /\ wallet = [u \in Users |->
                 [available |-> 0, reserved |-> 0, frozen |-> FALSE]]
  /\ ledger = [k \in Keys |-> None]

-----------------------------------------------------------------------------

Posted(r, kind) == ledger[<<r, kind>>] # None

\* The entry insert_or_get writes for user u whose balances are now w.
EntryFor(u, w, amount, prev) ==
  [user |-> u, amount |-> amount, available |-> w.available,
   reserved |-> w.reserved, prev |-> prev]

\* The balances of w moved by a available and h reserved tokens.
Moved(w, a, h) ==
  [w EXCEPT !.available = @ + a, !.reserved = @ + h]

\* Moves the balances of u and records the move under <<r, kind>>.
Post(u, r, kind, amount, a, h, prev) ==
  LET w == Moved(wallet[u], a, h)
  IN  /\ wallet' = [wallet EXCEPT ![u] = w]
      /\ ledger' = [ledger EXCEPT ![<<r, kind>>] = EntryFor(u, w, amount, prev)]

\* The call was already made: nothing moves.
Duplicate(r, kind) == Posted(r, kind) /\ UNCHANGED walletVars

ReserveAllowed(u, n) == ~wallet[u].frozen /\ wallet[u].available >= n

Reserve(u, n, r) ==
  /\ ~Posted(r, "debit_reserve")
  /\ ReserveAllowed(u, n)
  /\ Post(u, r, "debit_reserve", -n, -n, n, 0)

ReserveRefused(u, n, r) ==
  /\ ~Posted(r, "debit_reserve")
  /\ ~ReserveAllowed(u, n)
  /\ UNCHANGED walletVars

\* Mutant of Capture: the part of the hold that was not spent is lost.
CaptureWhole(u, n, prev, r) ==
  /\ ~Posted(r, "debit_capture")
  /\ wallet[u].reserved >= prev
  /\ Post(u, r, "debit_capture", -n, 0, -prev, prev)

Capture(u, n, prev, r) ==
  /\ ~Posted(r, "debit_capture")
  /\ n <= prev
  /\ wallet[u].reserved >= prev
  /\ Post(u, r, "debit_capture", -n, prev - n, -prev, prev)

\* A capture above the hold is refused before the transaction opens.
CaptureRefused(n, prev) == n > prev /\ UNCHANGED walletVars

\* reserved_tokens would go below zero: the CHECK constraint aborts the
\* transaction and the caller gets the database error.
CaptureAborts(u, prev, r) ==
  /\ ~Posted(r, "debit_capture")
  /\ wallet[u].reserved < prev
  /\ UNCHANGED walletVars

Least(m, n) == IF m <= n THEN m ELSE n

\* Mutants of Release: no clamp, the entry states what was asked for, and
\* everything that is reserved is given back.
ReleaseUnclamped(u, n, r) ==
  /\ ~Posted(r, "credit_release")
  /\ Post(u, r, "credit_release", n, n, -n, 0)

ReleaseAsAsked(u, n, r) ==
  LET back == Least(n, wallet[u].reserved)
  IN  /\ ~Posted(r, "credit_release")
      /\ Post(u, r, "credit_release", n, back, -back, 0)

ReleaseEverything(u, n, r) ==
  LET back == wallet[u].reserved
  IN  /\ ~Posted(r, "credit_release")
      /\ Post(u, r, "credit_release", back, back, -back, 0)

Release(u, n, r) ==
  LET back == Least(n, wallet[u].reserved)
  IN  /\ ~Posted(r, "credit_release")
      /\ Post(u, r, "credit_release", back, back, -back, 0)

\* Mutant of Credit: the balance moves before the entry is looked for.
CreditUnlooked(u, n, kind, r) ==
  LET w == Moved(wallet[u], n, 0)
  IN  /\ wallet' = [wallet EXCEPT ![u] = w]
      /\ ledger' = [ledger EXCEPT ![<<r, kind>>] =
                       IF @ = None THEN EntryFor(u, w, n, 0) ELSE @]

Credit(u, n, kind, r) ==
  /\ ~Posted(r, kind)
  /\ Post(u, r, kind, n, n, 0, 0)

\* Mutants of Refund: no clamp, and the entry states what was asked for.
RefundUnclamped(u, n, r) ==
  /\ ~Posted(r, "credit_refund")
  /\ Post(u, r, "credit_refund", -n, -n, 0, 0)

RefundAsAsked(u, n, r) ==
  LET taken == Least(n, wallet[u].available)
  IN  /\ ~Posted(r, "credit_refund")
      /\ Post(u, r, "credit_refund", -n, -taken, 0, 0)

\* credit() with a negative amount: takes what is available and, when that
\* is less than n, writes the shortfall as an entry that moves nothing.
Refund(u, n, r) ==
  LET taken == Least(n, wallet[u].available)
      w     == Moved(wallet[u], -taken, 0)
      clamp == <<r, "debit_adjustment">>
  IN  /\ ~Posted(r, "credit_refund")
      /\ wallet' = [wallet EXCEPT ![u] = w]
      /\ ledger' = [k \in Keys |->
           IF k = <<r, "credit_refund">> THEN EntryFor(u, w, -taken, 0)
           ELSE IF k = clamp /\ taken < n /\ ledger[clamp] = None
                THEN EntryFor(u, w, taken - n, 0)
                ELSE ledger[k]]

SetFrozen(u, frozen) ==
  /\ wallet' = [wallet EXCEPT ![u].frozen = frozen]
  /\ UNCHANGED ledger

-----------------------------------------------------------------------------

\* The calls the generation pipeline makes for job j.
JobCall(j) ==
  LET u == Owner[j]
      n == Price[j]
  IN  \/ Reserve(u, n, j)
      \/ ReserveRefused(u, n, j)
      \/ Duplicate(j, "debit_reserve")
      \/ \E m \in 0 .. n : Capture(u, m, n, j)
      \/ CaptureRefused(n + 1, n)
      \/ CaptureAborts(u, n, j)
      \/ Duplicate(j, "debit_capture")
      \/ Release(u, n, j)
      \/ Duplicate(j, "credit_release")

\* The calls the billing webhooks make: two users may meet under one key.
BillingCall(u, n, r) ==
  \/ \E kind \in GrantKinds : Credit(u, n, kind, r) \/ Duplicate(r, kind)
  \/ Refund(u, n, r)
  \/ Duplicate(r, "credit_refund")

WalletNext ==
  \/ \E j \in Jobs : JobCall(j)
  \/ \E u \in Users, n \in Amounts, r \in Credits : BillingCall(u, n, r)
  \/ \E u \in Users, frozen \in BOOLEAN : SetFrozen(u, frozen)

WalletSpec == WalletInit /\ [][WalletNext]_walletVars

-----------------------------------------------------------------------------
(* What an entry did to the balances of its user. *)

AvailableEffect(kind, e) ==
  CASE kind \in GrantKinds \cup {"credit_refund", "debit_reserve",
                                 "credit_release"} -> e.amount
    [] kind = "debit_capture" -> e.prev + e.amount
    [] kind = "debit_adjustment" -> 0

ReservedEffect(kind, e) ==
  CASE kind \in {"debit_reserve", "credit_release"} -> -e.amount
    [] kind = "debit_capture" -> -e.prev
    [] OTHER -> 0

KeysOf(u) == {k \in Keys : ledger[k] # None /\ ledger[k].user = u}

\* What the entries of u did to its balances, entry by entry.
AvailableEffects(u) ==
  [k \in KeysOf(u) |-> AvailableEffect(k[2], ledger[k])]
ReservedEffects(u) ==
  [k \in KeysOf(u) |-> ReservedEffect(k[2], ledger[k])]

\* The balances can be rebuilt from the ledger alone: nothing moves tokens
\* without an entry and no entry claims a move that did not happen, whatever
\* the order of reserves, captures, clamped releases and clamped refunds
\* (every method of wallet_service.py).
BalancesRebuild ==
  \A u \in Users :
    /\ wallet[u].available = SumFunction(AvailableEffects(u))
    /\ wallet[u].reserved = SumFunction(ReservedEffects(u))

\* The keys under which a step posts an entry of user u.
NewKeys(u) ==
  {k \in Keys : /\ ledger[k] = None
                /\ ledger'[k] # None
                /\ ledger'[k].user = u}

\* Those of them whose entry moves tokens: the clamp entry of a refund
\* accompanies the refund and moves nothing itself.
Moves(u) == {k \in NewKeys(u) : k[2] # "debit_adjustment"}

\* One step of the ledger: entries are never rewritten, the balances of a
\* user move only together with a new entry of that user, there is one such
\* entry, and it states the move exactly.  A new entry also states the
\* balances it left, the clamp entry of a refund included.
JournalStep ==
  /\ \A k \in Keys : ledger[k] # None => ledger'[k] = ledger[k]
  /\ \A u \in Users :
       /\ Moves(u) = {} =>
            /\ NewKeys(u) = {}
            /\ wallet'[u].available = wallet[u].available
            /\ wallet'[u].reserved = wallet[u].reserved
       /\ \A k \in NewKeys(u) :
            /\ ledger'[k].available = wallet'[u].available
            /\ ledger'[k].reserved = wallet'[u].reserved
       /\ \A k \in Moves(u) :
            /\ NewKeys(u) \subseteq {k, <<k[1], "debit_adjustment">>}
            /\ wallet'[u].available - wallet[u].available =
                 AvailableEffect(k[2], ledger'[k])
            /\ wallet'[u].reserved - wallet[u].reserved =
                 ReservedEffect(k[2], ledger'[k])

\* Every step of the system is a step of the ledger (append-only journal of
\* wallet_service.py and LedgerRepository.insert_or_get).
Journaled == [][JournalStep]_walletVars

=============================================================================
