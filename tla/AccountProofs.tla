---------------------------- MODULE AccountProofs ----------------------------
(***************************************************************************)
(* Generation implements TokenAccount, and reserved_tokens is the sum of   *)
(* the open holds, in every run in which no job is both charged and        *)
(* refunded and nothing is refunded that was never set aside               *)
(* (SettlesHolds): whatever tasks ran, whatever crashed.  That condition   *)
(* is what the code can break (see the README); the rest of the promise    *)
(* follows from it here.                                                   *)
(*                                                                         *)
(* With one channel, the poller or the webhook, and no crash the condition *)
(* holds, and so does the whole promise.                                   *)
(***************************************************************************)
EXTENDS ChannelProofs

\* A hold is given back only where there is one, and not after it was spent.
SettlesHolds ==
  \A j \in Jobs :
    Posted(j, "credit_release") =>
      Posted(j, "debit_reserve") /\ ~Posted(j, "debit_capture")

\* The ways a step may use the wallet in such a run.
AccountMove ==
  \/ UNCHANGED walletVars
  \/ \E u \in Users, n \in Amounts, r \in Credits :
       Credit(u, n, "credit_subscription_grant", r)
  \/ \E u \in Users, frozen \in BOOLEAN : SetFrozen(u, frozen)
  \/ \E j \in Jobs : Fate(j) = "none" /\ Reserve(Owner[j], Price[j], j)
  \/ \E j \in Jobs : \E n \in 0 .. Price[j] :
       OpenHold(j) /\ Capture(Owner[j], n, Price[j], j)
  \/ \E j \in Jobs : OpenHold(j) /\ Release(Owner[j], Price[j], j)

-----------------------------------------------------------------------------
(* What the calls for a job write. *)

\* A post for job j moves the balances of its owner, adds one entry and
\* leaves the rest.
LEMMA PostEffect ==
  ASSUME WalletTypeOK, WalletTypeOK',
         NEW u \in Users, NEW r \in Refs, NEW kind \in Kinds,
         NEW amount \in Int, NEW a \in Int, NEW h \in Int, NEW prev \in Nat,
         wallet[u].available + a >= 0,
         wallet[u].reserved + h >= 0,
         Post(u, r, kind, amount, a, h, prev)
  PROVE  /\ wallet'[u].available = wallet[u].available + a
         /\ wallet'[u].reserved = wallet[u].reserved + h
         /\ \A v \in Users \ {u} : wallet'[v] = wallet[v]
         /\ Posted(r, kind)'
         /\ ledger'[<<r, kind>>].amount = amount
         /\ \A k \in Keys : k # <<r, kind>> => ledger'[k] = ledger[k]
<1> DEFINE w == Moved(wallet[u], a, h)
           e == EntryFor(u, w, amount, prev)
<1>1. /\ wallet' = [wallet EXCEPT ![u] = w]
      /\ ledger' = [ledger EXCEPT ![<<r, kind>>] = e]
  BY DEF Post
<1>2. <<r, kind>> \in Keys
  BY DEF Keys
<1>3. wallet[u] \in Balance
  BY DEF WalletTypeOK
<1>4. /\ w \in Balance
      /\ w.available = wallet[u].available + a
      /\ w.reserved = wallet[u].reserved + h
  BY <1>3, MovedType
<1>5. e.amount = amount
  BY DEF EntryFor
<1> HIDE DEF w, e
<1>6. wallet'[u] = w /\ \A v \in Users \ {u} : wallet'[v] = wallet[v]
  BY <1>1 DEF WalletTypeOK
<1>7. ledger'[<<r, kind>>] = e
  BY <1>1, <1>2 DEF WalletTypeOK
<1>8. /\ Posted(r, kind)'
      /\ \A k \in Keys : k # <<r, kind>> => ledger'[k] = ledger[k]
  BY PostWrites DEF Post
<1> QED
  BY <1>4, <1>5, <1>6, <1>7, <1>8

\* What a reserve, a capture and a release do, in one form: the balances of
\* the owner move by a and h, and job j gets an entry of the given kind.
HoldMoves(j, kind, amount, a, h) ==
  LET u == Owner[j]
  IN  /\ wallet'[u].available = wallet[u].available + a
      /\ wallet'[u].reserved = wallet[u].reserved + h
      /\ \A v \in Users \ {u} : wallet'[v] = wallet[v]
      /\ Posted(j, kind)'
      /\ ledger'[<<j, kind>>].amount = amount
      /\ \A k \in Keys : k # <<j, kind>> => ledger'[k] = ledger[k]

LEMMA JobTypes ==
  ASSUME WalletTypeOK, NEW j \in Jobs
  PROVE  /\ Owner[j] \in Users /\ j \in Refs
         /\ Price[j] \in Nat \ {0}
         /\ wallet[Owner[j]].available \in Nat
         /\ wallet[Owner[j]].reserved \in Nat
<1>1. Owner[j] \in Users /\ j \in Refs
  BY RefTypes
<1>2. Price[j] \in Nat \ {0}
  BY PriceAssumption
<1> QED
  BY <1>1, <1>2, BalanceType

LEMMA ReserveMoves ==
  ASSUME WalletTypeOK, WalletTypeOK', NEW j \in Jobs,
         Reserve(Owner[j], Price[j], j)
  PROVE  /\ wallet[Owner[j]].available >= Price[j]
         /\ HoldMoves(j, "debit_reserve", -Price[j], -Price[j], Price[j])
<1>1. /\ wallet[Owner[j]].available >= Price[j]
      /\ Post(Owner[j], j, "debit_reserve", -Price[j], -Price[j], Price[j], 0)
  BY DEF Reserve, ReserveAllowed
<1>2. /\ Owner[j] \in Users /\ j \in Refs /\ -Price[j] \in Int /\ Price[j] \in Int
      /\ wallet[Owner[j]].available + (-Price[j]) >= 0
      /\ wallet[Owner[j]].reserved + Price[j] >= 0
      /\ "debit_reserve" \in Kinds /\ 0 \in Nat
  BY <1>1, JobTypes, KindTypes
<1> QED
  BY <1>1, <1>2, PostEffect DEF HoldMoves

LEMMA CaptureMoves ==
  ASSUME WalletTypeOK, WalletTypeOK', NEW j \in Jobs,
         NEW n \in 0 .. Price[j], Capture(Owner[j], n, Price[j], j)
  PROVE  HoldMoves(j, "debit_capture", -n, Price[j] - n, -Price[j])
<1>1. /\ n <= Price[j]
      /\ wallet[Owner[j]].reserved >= Price[j]
      /\ Post(Owner[j], j, "debit_capture", -n, Price[j] - n, -Price[j], Price[j])
  BY DEF Capture
<1>2. /\ Owner[j] \in Users /\ j \in Refs /\ Price[j] \in Nat
      /\ -n \in Int /\ Price[j] - n \in Int /\ -Price[j] \in Int
      /\ wallet[Owner[j]].available + (Price[j] - n) >= 0
      /\ wallet[Owner[j]].reserved + (-Price[j]) >= 0
      /\ "debit_capture" \in Kinds
  BY <1>1, JobTypes, KindTypes
<1> QED
  BY <1>1, <1>2, PostEffect DEF HoldMoves

\* A release gives the whole hold back where the owner has that much set
\* aside: the clamp does not bite.
LEMMA ReleaseMoves ==
  ASSUME WalletTypeOK, WalletTypeOK', NEW j \in Jobs,
         Release(Owner[j], Price[j], j),
         Price[j] <= wallet[Owner[j]].reserved
  PROVE  HoldMoves(j, "credit_release", Price[j], Price[j], -Price[j])
<1>1. Least(Price[j], wallet[Owner[j]].reserved) = Price[j]
  BY DEF Least
<1>2. Post(Owner[j], j, "credit_release", Price[j], Price[j], -Price[j], 0)
  BY <1>1 DEF Release
<1>3. /\ Owner[j] \in Users /\ j \in Refs /\ -Price[j] \in Int /\ Price[j] \in Int
      /\ wallet[Owner[j]].available + Price[j] >= 0
      /\ wallet[Owner[j]].reserved + (-Price[j]) >= 0
      /\ "credit_release" \in Kinds /\ 0 \in Nat
  BY JobTypes, KindTypes
<1> QED
  BY <1>2, <1>3, PostEffect DEF HoldMoves

\* Such a move posts one entry of one job.
LEMMA MovesPost ==
  ASSUME NEW j \in Jobs, NEW kind \in Kinds, NEW amount, NEW a, NEW h,
         HoldMoves(j, kind, amount, a, h)
  PROVE  /\ Posted(j, kind)'
         /\ \A i \in Jobs, k \in Kinds : i # j \/ k # kind =>
              /\ Posted(i, k)' <=> Posted(i, k)
              /\ ledger'[<<i, k>>] = ledger[<<i, k>>]
<1>1. ASSUME NEW i \in Jobs, NEW k \in Kinds, i # j \/ k # kind
      PROVE  /\ <<i, k>> \in Keys
             /\ <<i, k>> # <<j, kind>>
  BY <1>1, RefTypes DEF Keys
<1> QED
  BY <1>1 DEF HoldMoves, Posted

LEMMA OthersHold ==
  ASSUME NEW j \in Jobs, NEW kind \in Kinds, NEW amount, NEW a, NEW h,
         HoldMoves(j, kind, amount, a, h), NEW i \in Jobs, i # j
  PROVE  /\ OpenHold(i)' <=> OpenHold(i)
         /\ Fate(i)' = Fate(i)
         /\ Posted(i, "debit_capture")' <=> Posted(i, "debit_capture")
         /\ ledger'[<<i, "debit_capture">>] = ledger[<<i, "debit_capture">>]
<1>1. \A k \in Kinds : /\ Posted(i, k)' <=> Posted(i, k)
                       /\ ledger'[<<i, k>>] = ledger[<<i, k>>]
  BY MovesPost
<1> QED
  BY <1>1, KindTypes DEF OpenHold, Fate

LEMMA AccountUse ==
  ASSUME GenInv, GenInv', SettlesHolds, SettlesHolds', WalletUse
  PROVE  AccountMove
<1>1. WalletTypeOK /\ WalletTypeOK' /\ WorkIsHeld /\ WorkIsHeld'
  BY DEF GenInv, GenTypeOK
<1>2. ASSUME NEW j \in Jobs, JobCall(j)
      PROVE  AccountMove
  <2> DEFINE u == Owner[j]
             n == Price[j]
  <2>1. CASE Reserve(u, n, j)
    <3>1. ~Posted(j, "debit_reserve")
      BY <2>1 DEF Reserve
    <3>2. ~Posted(j, "debit_capture") /\ ~Posted(j, "credit_release")
      BY <1>1, <3>1 DEF WorkIsHeld, SettlesHolds
    <3>3. Fate(j) = "none"
      BY <3>1, <3>2 DEF Fate
    <3> QED
      BY <2>1, <3>3 DEF AccountMove
  <2>2. ASSUME NEW m \in 0 .. n, Capture(u, m, n, j)
        PROVE  AccountMove
    <3>1. HoldMoves(j, "debit_capture", -m, n - m, -n)
      BY <1>1, <2>2, CaptureMoves
    <3>2. /\ Posted(j, "debit_capture")'
          /\ Posted(j, "debit_reserve")' <=> Posted(j, "debit_reserve")
          /\ Posted(j, "credit_release")' <=> Posted(j, "credit_release")
      BY <3>1, MovesPost, KindTypes
    <3>3. ~Posted(j, "debit_capture")
      BY <2>2 DEF Capture
    <3>4. Posted(j, "debit_reserve")' /\ ~Posted(j, "credit_release")'
      BY <1>1, <3>2 DEF WorkIsHeld, SettlesHolds
    <3>5. OpenHold(j)
      BY <3>2, <3>3, <3>4 DEF OpenHold
    <3> QED
      BY <2>2, <3>5 DEF AccountMove
  <2>3. CASE Release(u, n, j)
    <3>1. ~Posted(j, "credit_release")
      BY <2>3 DEF Release
    <3>2. PICK back \in Nat : Post(u, j, "credit_release", back, back, -back, 0)
      <4>1. Least(n, wallet[u].reserved) \in Nat
        BY <1>1, JobTypes, LeastType
      <4> QED
        BY <2>3, <4>1 DEF Release
    <3>3. /\ Posted(j, "credit_release")'
          /\ \A k \in Keys : k # <<j, "credit_release">> =>
               ledger'[k] = ledger[k]
      BY <1>1, <3>2, JobTypes, KindTypes, PostWrites
    <3>4. /\ <<j, "debit_reserve">> \in Keys
          /\ <<j, "debit_capture">> \in Keys
      BY RefTypes, KindTypes DEF Keys
    <3>5. Posted(j, "debit_reserve")' /\ ~Posted(j, "debit_capture")'
      BY <3>3 DEF SettlesHolds
    <3>6. Posted(j, "debit_reserve") /\ ~Posted(j, "debit_capture")
      BY <3>3, <3>4, <3>5 DEF Posted
    <3> QED
      BY <2>3, <3>1, <3>6 DEF AccountMove, OpenHold
  <2>4. CASE \/ ReserveRefused(u, n, j) \/ Duplicate(j, "debit_reserve")
             \/ CaptureRefused(n + 1, n) \/ CaptureAborts(u, n, j)
             \/ Duplicate(j, "debit_capture") \/ Duplicate(j, "credit_release")
    BY <2>4 DEF ReserveRefused, Duplicate, CaptureRefused, CaptureAborts,
                AccountMove
  <2> QED
    BY <1>2, <2>1, <2>2, <2>3, <2>4 DEF JobCall
<1> QED
  BY <1>2 DEF WalletUse, AccountMove

-----------------------------------------------------------------------------
(* reserved_tokens is the sum of the open holds. *)

HoldsFinite == \A u \in Users : IsFiniteSet(HoldsOf(u))

Reserved == HoldsFinite /\ ReservedIsOpenHolds

\* An open hold is no more than what is set aside.
LEMMA HoldIsReserved ==
  ASSUME Reserved, NEW j \in Jobs, OpenHold(j)
  PROVE  Price[j] <= wallet[Owner[j]].reserved
<1>1. Owner[j] \in Users
  BY RefTypes
<1>2. /\ IsFiniteSet(HoldsOf(Owner[j]))
      /\ wallet[Owner[j]].reserved = SumFunctionOnSet(Price, HoldsOf(Owner[j]))
  BY <1>1 DEF Reserved, HoldsFinite, ReservedIsOpenHolds
<1>3. j \in HoldsOf(Owner[j])
  BY DEF HoldsOf
<1>4. \A i \in HoldsOf(Owner[j]) : Price[i] \in Nat
  BY RefTypes DEF HoldsOf
<1> QED
  BY <1>2, <1>3, <1>4, SumBound

\* The holds of a user other than the owner of j stay, with their sum.
LEMMA OtherHolds ==
  ASSUME Reserved, NEW j \in Jobs, NEW kind \in Kinds, NEW amount, NEW a, NEW h,
         HoldMoves(j, kind, amount, a, h),
         NEW u \in Users, u # Owner[j]
  PROVE  /\ HoldsOf(u)' = HoldsOf(u)
         /\ wallet'[u].reserved = wallet[u].reserved
<1>1. \A i \in Jobs : Owner[i] = u => (OpenHold(i)' <=> OpenHold(i))
  BY OthersHold
<1>2. HoldsOf(u)' = HoldsOf(u)
  BY <1>1 DEF HoldsOf
<1> QED
  BY <1>2 DEF HoldMoves

LEMMA HoldOpened ==
  ASSUME GenInv, Reserved, NEW j \in Jobs, Fate(j) = "none",
         HoldMoves(j, "debit_reserve", -Price[j], -Price[j], Price[j])
  PROVE  Reserved'
<1>1. /\ Posted(j, "debit_reserve")'
      /\ Posted(j, "debit_capture")' <=> Posted(j, "debit_capture")
      /\ Posted(j, "credit_release")' <=> Posted(j, "credit_release")
  BY MovesPost, KindTypes
<1>2. ~OpenHold(j) /\ OpenHold(j)'
  BY <1>1 DEF Fate, OpenHold
<1>3. \A i \in Jobs : i # j => (OpenHold(i)' <=> OpenHold(i))
  BY OthersHold, KindTypes
<1> DEFINE o == Owner[j]
           S == HoldsOf(o)
<1>4. HoldsOf(o)' = S \cup {j} /\ j \notin S
  BY <1>2, <1>3 DEF HoldsOf
<1>5. /\ o \in Users
      /\ IsFiniteSet(S)
      /\ wallet[o].reserved = SumFunctionOnSet(Price, S)
  BY RefTypes DEF Reserved, HoldsFinite, ReservedIsOpenHolds
<1>6. \A i \in S \cup {j} : Price[i] \in Int
  BY RefTypes DEF HoldsOf
<1>7. wallet'[o].reserved = wallet[o].reserved + Price[j]
  BY DEF HoldMoves
<1>8. wallet[o].reserved \in Nat
  BY JobTypes DEF GenInv, GenTypeOK
<1> HIDE DEF S, o
<1>9. /\ SumFunctionOnSet(Price, S \cup {j}) =
           Price[j] + SumFunctionOnSet(Price, S)
      /\ IsFiniteSet(S \cup {j})
  BY <1>4, <1>5, <1>6, SumAdd, FS_AddElement
<1>10. /\ IsFiniteSet(HoldsOf(o)')
       /\ wallet'[o].reserved = SumFunctionOnSet(Price, HoldsOf(o)')
  BY <1>4, <1>5, <1>6, <1>7, <1>8, <1>9
<1>11. ASSUME NEW u \in Users, u # o
       PROVE  /\ IsFiniteSet(HoldsOf(u)')
              /\ wallet'[u].reserved = SumFunctionOnSet(Price, HoldsOf(u)')
  <2>1. /\ HoldsOf(u)' = HoldsOf(u)
        /\ wallet'[u].reserved = wallet[u].reserved
    BY <1>11, OtherHolds, KindTypes DEF o
  <2> QED
    BY <2>1 DEF Reserved, HoldsFinite, ReservedIsOpenHolds
<1>12. \A u \in Users :
         /\ IsFiniteSet(HoldsOf(u)')
         /\ wallet'[u].reserved = SumFunctionOnSet(Price, HoldsOf(u)')
  BY <1>10, <1>11
<1> QED
  BY <1>12 DEF Reserved, HoldsFinite, ReservedIsOpenHolds

LEMMA HoldClosed ==
  ASSUME GenInv, Reserved, NEW j \in Jobs, OpenHold(j),
         NEW kind \in {"debit_capture", "credit_release"},
         NEW amount, NEW a, HoldMoves(j, kind, amount, a, -Price[j])
  PROVE  Reserved'
<1>1. Posted(j, kind)' /\ kind \in Kinds
  BY MovesPost, KindTypes
<1>2. ~OpenHold(j)'
  BY <1>1 DEF OpenHold
<1>3. \A i \in Jobs : i # j => (OpenHold(i)' <=> OpenHold(i))
  BY <1>1, OthersHold
<1> DEFINE o == Owner[j]
           S == HoldsOf(o)
<1>4. HoldsOf(o)' = S \ {j} /\ j \in S
  BY <1>2, <1>3 DEF HoldsOf
<1>5. /\ o \in Users
      /\ IsFiniteSet(S)
      /\ wallet[o].reserved = SumFunctionOnSet(Price, S)
  BY RefTypes DEF Reserved, HoldsFinite, ReservedIsOpenHolds
<1>6. \A i \in S : Price[i] \in Int
  BY RefTypes DEF HoldsOf
<1>7. wallet'[o].reserved = wallet[o].reserved + (-Price[j])
  BY DEF HoldMoves
<1> HIDE DEF S, o
<1>8. /\ SumFunctionOnSet(Price, S) = Price[j] + SumFunctionOnSet(Price, S \ {j})
      /\ IsFiniteSet(S \ {j})
  BY <1>4, <1>5, <1>6, SumRemove, FS_RemoveElement
<1>9. SumFunctionOnSet(Price, S \ {j}) \in Int /\ Price[j] \in Int
  BY <1>4, <1>6, <1>8, SumInt
<1>10. /\ IsFiniteSet(HoldsOf(o)')
       /\ wallet'[o].reserved = SumFunctionOnSet(Price, HoldsOf(o)')
  BY <1>4, <1>5, <1>7, <1>8, <1>9
<1>11. ASSUME NEW u \in Users, u # o
       PROVE  /\ IsFiniteSet(HoldsOf(u)')
              /\ wallet'[u].reserved = SumFunctionOnSet(Price, HoldsOf(u)')
  <2>1. /\ HoldsOf(u)' = HoldsOf(u)
        /\ wallet'[u].reserved = wallet[u].reserved
    BY <1>1, <1>11, OtherHolds DEF o
  <2> QED
    BY <2>1 DEF Reserved, HoldsFinite, ReservedIsOpenHolds
<1>12. \A u \in Users :
         /\ IsFiniteSet(HoldsOf(u)')
         /\ wallet'[u].reserved = SumFunctionOnSet(Price, HoldsOf(u)')
  BY <1>10, <1>11
<1> QED
  BY <1>12 DEF Reserved, HoldsFinite, ReservedIsOpenHolds

\* What the billing side does: it moves available tokens of one user, or
\* none, and touches no entry of a job.
BillingMove(u, n) ==
  /\ \A v \in Users :
       /\ wallet'[v].available = wallet[v].available + (IF v = u THEN n ELSE 0)
       /\ wallet'[v].reserved = wallet[v].reserved
  /\ \A j \in Jobs, kind \in Kinds :
       ledger'[<<j, kind>>] = ledger[<<j, kind>>]

LEMMA GrantMoves ==
  ASSUME WalletTypeOK, WalletTypeOK', NEW u \in Users, NEW n \in Amounts,
         NEW r \in Credits, Credit(u, n, "credit_subscription_grant", r)
  PROVE  BillingMove(u, n)
<1> DEFINE k == <<r, "credit_subscription_grant">>
           w == Moved(wallet[u], n, 0)
           e == EntryFor(u, w, n, 0)
<1>1. /\ wallet' = [wallet EXCEPT ![u] = w]
      /\ ledger' = [ledger EXCEPT ![k] = e]
  BY DEF Credit, Post
<1>2. /\ w.available = wallet[u].available + n
      /\ w.reserved = wallet[u].reserved
  BY RefTypes, BalanceType DEF Moved, WalletTypeOK, Balance
<1> HIDE DEF w, e
<1>3. ASSUME NEW v \in Users
      PROVE  /\ wallet'[v].available =
                  wallet[v].available + (IF v = u THEN n ELSE 0)
             /\ wallet'[v].reserved = wallet[v].reserved
  <2>1. wallet'[v] = IF v = u THEN w ELSE wallet[v]
    BY <1>1 DEF WalletTypeOK
  <2>2. wallet[v].available \in Nat /\ wallet[v].reserved \in Nat
    BY BalanceType
  <2>3. CASE v = u
    BY <1>2, <2>1, <2>3
  <2>4. CASE v # u
    BY <2>1, <2>2, <2>4
  <2> QED
    BY <2>3, <2>4
<1>4. ASSUME NEW j \in Jobs, NEW kind \in Kinds
      PROVE  ledger'[<<j, kind>>] = ledger[<<j, kind>>]
  <2>1. <<j, kind>> \in Keys /\ <<j, kind>> # k
    BY RefTypes, RefsAssumption DEF Keys
  <2> QED
    BY <1>1, <2>1 DEF WalletTypeOK
<1> QED
  BY <1>3, <1>4 DEF BillingMove

LEMMA FreezeMoves ==
  ASSUME WalletTypeOK, NEW u \in Users, NEW frozen \in BOOLEAN,
         SetFrozen(u, frozen)
  PROVE  BillingMove(u, 0)
<1>1. \A v \in Users : /\ wallet'[v].available = wallet[v].available
                       /\ wallet'[v].reserved = wallet[v].reserved
  BY DEF SetFrozen, WalletTypeOK, Balance
<1>2. \A v \in Users : wallet[v].available \in Nat
  BY BalanceType
<1>3. ledger' = ledger
  BY DEF SetFrozen
<1> QED
  BY <1>1, <1>2, <1>3 DEF BillingMove

LEMMA UnusedMoves ==
  ASSUME WalletTypeOK, UNCHANGED walletVars, NEW u \in Users
  PROVE  BillingMove(u, 0)
<1>1. \A v \in Users : wallet[v].available \in Nat
  BY BalanceType
<1>2. wallet' = wallet /\ ledger' = ledger
  BY DEF walletVars
<1> QED
  BY <1>1, <1>2 DEF BillingMove

\* It changes nothing in what is known of a job.
LEMMA JobsUntouched ==
  ASSUME NEW u, NEW n, BillingMove(u, n), NEW j \in Jobs
  PROVE  /\ OpenHold(j)' <=> OpenHold(j)
         /\ Fate(j)' = Fate(j)
         /\ Posted(j, "debit_capture")' <=> Posted(j, "debit_capture")
         /\ ledger'[<<j, "debit_capture">>] = ledger[<<j, "debit_capture">>]
<1>1. \A kind \in Kinds : ledger'[<<j, kind>>] = ledger[<<j, kind>>]
  BY DEF BillingMove
<1> QED
  BY <1>1, KindTypes DEF OpenHold, Fate, Posted

LEMMA BillingReserved ==
  ASSUME Reserved, NEW u, NEW n, BillingMove(u, n)
  PROVE  Reserved'
<1>1. ASSUME NEW v \in Users
      PROVE  /\ IsFiniteSet(HoldsOf(v)')
             /\ wallet'[v].reserved = SumFunctionOnSet(Price, HoldsOf(v)')
  <2>1. HoldsOf(v)' = HoldsOf(v)
    BY JobsUntouched DEF HoldsOf
  <2>2. wallet'[v].reserved = wallet[v].reserved
    BY DEF BillingMove
  <2> QED
    BY <2>1, <2>2 DEF Reserved, HoldsFinite, ReservedIsOpenHolds
<1> QED
  BY <1>1 DEF Reserved, HoldsFinite, ReservedIsOpenHolds

LEMMA UnusedReserved ==
  ASSUME Reserved, UNCHANGED walletVars
  PROVE  Reserved'
<1>1. \A v \in Users : HoldsOf(v)' = HoldsOf(v)
  BY DEF HoldsOf, OpenHold, Posted, walletVars
<1>2. wallet' = wallet
  BY DEF walletVars
<1>3. ASSUME NEW v \in Users
      PROVE  /\ IsFiniteSet(HoldsOf(v)')
             /\ wallet'[v].reserved = SumFunctionOnSet(Price, HoldsOf(v)')
  BY <1>1, <1>2 DEF Reserved, HoldsFinite, ReservedIsOpenHolds
<1> QED
  BY <1>3 DEF Reserved, HoldsFinite, ReservedIsOpenHolds

LEMMA ReservedStep ==
  ASSUME GenInv, GenInv', Reserved, AccountMove
  PROVE  Reserved'
<1>1. WalletTypeOK /\ WalletTypeOK'
  BY DEF GenInv, GenTypeOK
<1>2. CASE UNCHANGED walletVars
  BY <1>2, UnusedReserved
<1>3. ASSUME NEW u \in Users, NEW n \in Amounts, NEW r \in Credits,
             Credit(u, n, "credit_subscription_grant", r)
      PROVE  Reserved'
  <2>1. BillingMove(u, n)
    BY <1>1, <1>3, GrantMoves
  <2> QED
    BY <2>1, BillingReserved
<1>4. ASSUME NEW u \in Users, NEW frozen \in BOOLEAN, SetFrozen(u, frozen)
      PROVE  Reserved'
  <2>1. BillingMove(u, 0)
    BY <1>1, <1>4, FreezeMoves
  <2> QED
    BY <2>1, BillingReserved
<1>5. ASSUME NEW j \in Jobs, Fate(j) = "none", Reserve(Owner[j], Price[j], j)
      PROVE  Reserved'
  BY <1>1, <1>5, ReserveMoves, HoldOpened
<1>6. ASSUME NEW j \in Jobs, NEW n \in 0 .. Price[j], OpenHold(j),
             Capture(Owner[j], n, Price[j], j)
      PROVE  Reserved'
  <2>1. HoldMoves(j, "debit_capture", -n, Price[j] - n, -Price[j])
    BY <1>1, <1>6, CaptureMoves
  <2> QED
    BY <1>6, <2>1, HoldClosed
<1>7. ASSUME NEW j \in Jobs, OpenHold(j), Release(Owner[j], Price[j], j)
      PROVE  Reserved'
  <2>1. HoldMoves(j, "credit_release", Price[j], Price[j], -Price[j])
    BY <1>1, <1>7, HoldIsReserved, ReleaseMoves
  <2> QED
    BY <1>7, <2>1, HoldClosed
<1> QED
  BY <1>2, <1>3, <1>4, <1>5, <1>6, <1>7 DEF AccountMove

LEMMA ReservedInit == GenInit => Reserved
<1> SUFFICES ASSUME GenInit, NEW u \in Users
             PROVE  /\ IsFiniteSet(HoldsOf(u))
                    /\ wallet[u].reserved = SumFunctionOnSet(Price, HoldsOf(u))
  BY DEF Reserved, HoldsFinite, ReservedIsOpenHolds
<1>1. HoldsOf(u) = {}
  BY KindTypes, RefTypes
     DEF GenInit, WalletInit, HoldsOf, OpenHold, Posted, Keys
<1>2. wallet[u].reserved = 0
  BY DEF GenInit, WalletInit
<1> QED
  BY <1>1, <1>2, SumEmpty, FS_EmptySet

LEMMA ReservedAlways == GenSpec /\ []SettlesHolds => []Reserved
<1>1. GenInv /\ [GenNext]_vars => WalletUse
  BY WalletUsed
<1>2. /\ GenInv /\ GenInv' /\ SettlesHolds /\ SettlesHolds' /\ WalletUse
      /\ Reserved
      => Reserved'
  BY AccountUse, ReservedStep
<1> QED
  BY <1>1, <1>2, ReservedInit, AlwaysInv, PTL DEF GenSpec

\* As long as no job is both charged and refunded, and no hold is refunded
\* that was never made, reserved_tokens of every user is the sum of the
\* prices of the jobs whose hold is open: no capture or release of
\* wallet_service.py reaches into the hold of another job, whatever tasks
\* ran and whatever crashed.
THEOREM ReservedUnderSettling ==
  GenSpec /\ []SettlesHolds => []ReservedIsOpenHolds
<1>1. Reserved => ReservedIsOpenHolds
  BY DEF Reserved
<1> QED
  BY <1>1, ReservedAlways, PTL

-----------------------------------------------------------------------------
(* Generation implements TokenAccount. *)

\* The state of the account as Generation shows it.
Free == [u \in Users |-> wallet[u].available]
Held == [u \in Users |-> wallet[u].reserved]
Fates == [j \in Jobs |-> Fate(j)]
SpentOn(j) == IF Posted(j, "debit_capture")
              THEN -ledger[<<j, "debit_capture">>].amount
              ELSE 0
Spent == [j \in Jobs |-> SpentOn(j)]

\* The account sees a post for job j as a move of the balances of its owner
\* and a new fate of j.
LEMMA MoveShown ==
  ASSUME WalletTypeOK, NEW j \in Jobs, NEW kind \in Kinds, NEW amount,
         NEW a \in Int, NEW h \in Int, HoldMoves(j, kind, amount, a, h)
  PROVE  /\ Free' = [Free EXCEPT ![Owner[j]] = @ + a]
         /\ Held' = [Held EXCEPT ![Owner[j]] = @ + h]
         /\ Fates' = [Fates EXCEPT ![j] = Fate(j)']
         /\ Spent' = [Spent EXCEPT ![j] = SpentOn(j)']
<1>1. Owner[j] \in Users
  BY RefTypes
<1>2. \A u \in Users :
        /\ wallet'[u].available = IF u = Owner[j] THEN wallet[u].available + a
                                  ELSE wallet[u].available
        /\ wallet'[u].reserved = IF u = Owner[j] THEN wallet[u].reserved + h
                                 ELSE wallet[u].reserved
  BY <1>1 DEF HoldMoves
<1>3. \A i \in Jobs : i # j => Fate(i)' = Fate(i) /\ SpentOn(i)' = SpentOn(i)
  BY OthersHold DEF SpentOn
<1>4. /\ Free' = [Free EXCEPT ![Owner[j]] = @ + a]
      /\ Held' = [Held EXCEPT ![Owner[j]] = @ + h]
  BY <1>1, <1>2 DEF Free, Held
<1>5. /\ Fates' = [Fates EXCEPT ![j] = Fate(j)']
      /\ Spent' = [Spent EXCEPT ![j] = SpentOn(j)']
  BY <1>3 DEF Fates, Spent
<1> QED
  BY <1>4, <1>5

\* What a billing step looks like from there.
LEMMA BillingShown ==
  ASSUME WalletTypeOK, NEW u \in Users, NEW n \in Nat, BillingMove(u, n)
  PROVE  /\ Free' = [Free EXCEPT ![u] = @ + n]
         /\ Held' = Held /\ Fates' = Fates /\ Spent' = Spent
<1>1. \A v \in Users : wallet[v].available \in Nat
  BY BalanceType
<1>2. \A v \in Users :
        /\ wallet'[v].available = IF v = u THEN wallet[v].available + n
                                  ELSE wallet[v].available
        /\ wallet'[v].reserved = wallet[v].reserved
  BY <1>1 DEF BillingMove
<1>3. Fates' = Fates
  BY JobsUntouched DEF Fates
<1>4. Spent' = Spent
  BY JobsUntouched DEF Spent, SpentOn
<1>5. Free' = [Free EXCEPT ![u] = @ + n] /\ Held' = Held
  BY <1>2 DEF Free, Held
<1> QED
  BY <1>3, <1>4, <1>5

\* The actions of TokenAccount, in these terms.
LEMMA AccountSteps ==
  /\ \A u \in Users, n \in Amounts :
       /\ Free' = [Free EXCEPT ![u] = @ + n]
       /\ Held' = Held /\ Fates' = Fates /\ Spent' = Spent
       => Account!Deposit(u, n)
  /\ \A j \in Jobs :
       /\ Fates[j] = "none"
       /\ Free[Owner[j]] >= Price[j]
       /\ Free' = [Free EXCEPT ![Owner[j]] = @ - Price[j]]
       /\ Held' = [Held EXCEPT ![Owner[j]] = @ + Price[j]]
       /\ Fates' = [Fates EXCEPT ![j] = "open"]
       /\ Spent' = Spent
       => Account!SetAside(j)
  /\ \A j \in Jobs, n \in Nat, fate \in {"spent", "returned"} :
       /\ Fates[j] = "open"
       /\ Free' = [Free EXCEPT ![Owner[j]] = @ + Price[j] - n]
       /\ Held' = [Held EXCEPT ![Owner[j]] = @ - Price[j]]
       /\ Fates' = [Fates EXCEPT ![j] = fate]
       /\ Spent' = [Spent EXCEPT ![j] = n]
       => Account!Settle(j, n, fate)
  /\ Free' = Free /\ Held' = Held /\ Fates' = Fates /\ Spent' = Spent
       => UNCHANGED Account!accountVars
BY DEF Free, Held, Fates, Spent, SpentOn, Account!Deposit, Account!SetAside,
       Account!Settle, Account!accountVars

LEMMA DepositShown ==
  ASSUME WalletTypeOK, WalletTypeOK', NEW u \in Users, NEW n \in Amounts,
         NEW r \in Credits, Credit(u, n, "credit_subscription_grant", r)
  PROVE  Account!Deposit(u, n)
<1>1. n \in Nat
  BY RefTypes
<1>2. BillingMove(u, n)
  BY GrantMoves
<1> QED
  BY <1>1, <1>2, BillingShown, AccountSteps

LEMMA SetAsideShown ==
  ASSUME WalletTypeOK, WalletTypeOK', NEW j \in Jobs, Fate(j) = "none",
         Reserve(Owner[j], Price[j], j)
  PROVE  Account!SetAside(j)
<1>1. /\ wallet[Owner[j]].available >= Price[j]
      /\ HoldMoves(j, "debit_reserve", -Price[j], -Price[j], Price[j])
  BY ReserveMoves
<1>2. /\ Owner[j] \in Users /\ Price[j] \in Int /\ -Price[j] \in Int
      /\ wallet[Owner[j]].available \in Nat
      /\ wallet[Owner[j]].reserved \in Nat
  BY JobTypes
<1>3. /\ Posted(j, "debit_reserve")'
      /\ Posted(j, "debit_capture")' <=> Posted(j, "debit_capture")
      /\ Posted(j, "credit_release")' <=> Posted(j, "credit_release")
  BY <1>1, MovesPost, KindTypes
<1>4. Fate(j)' = "open" /\ SpentOn(j)' = SpentOn(j)
  BY <1>3 DEF Fate, SpentOn
<1>5. /\ Free' = [Free EXCEPT ![Owner[j]] = @ + (-Price[j])]
      /\ Held' = [Held EXCEPT ![Owner[j]] = @ + Price[j]]
      /\ Fates' = [Fates EXCEPT ![j] = Fate(j)']
      /\ Spent' = [Spent EXCEPT ![j] = SpentOn(j)']
  BY <1>1, <1>2, KindTypes, MoveShown
<1>6. Free' = [Free EXCEPT ![Owner[j]] = @ - Price[j]]
  <2>1. Free[Owner[j]] \in Int
    BY <1>2 DEF Free
  <2>2. Free[Owner[j]] + (-Price[j]) = Free[Owner[j]] - Price[j]
    BY <1>2, <2>1
  <2> QED
    BY <1>5, <2>2
<1>7. Spent' = Spent
  BY <1>4, <1>5 DEF Spent
<1>8. Fates[j] = "none" /\ Free[Owner[j]] >= Price[j]
  BY <1>1, <1>2 DEF Fates, Free
<1> QED
  BY <1>4, <1>5, <1>6, <1>7, <1>8, AccountSteps

LEMMA SettleShown ==
  ASSUME WalletTypeOK, NEW j \in Jobs, OpenHold(j), NEW n \in 0 .. Price[j],
         NEW fate \in {"spent", "returned"}, NEW kind \in Kinds, NEW amount,
         HoldMoves(j, kind, amount, Price[j] - n, -Price[j]),
         Fate(j)' = fate, SpentOn(j)' = n
  PROVE  Account!Settle(j, n, fate)
<1>1. /\ Owner[j] \in Users /\ Price[j] \in Int /\ -Price[j] \in Int
      /\ n \in Nat /\ Price[j] - n \in Int
      /\ wallet[Owner[j]].available \in Nat
      /\ wallet[Owner[j]].reserved \in Nat
  BY JobTypes
<1>2. /\ Free' = [Free EXCEPT ![Owner[j]] = @ + (Price[j] - n)]
      /\ Held' = [Held EXCEPT ![Owner[j]] = @ + (-Price[j])]
      /\ Fates' = [Fates EXCEPT ![j] = Fate(j)']
      /\ Spent' = [Spent EXCEPT ![j] = SpentOn(j)']
  BY <1>1, MoveShown
<1>3. Free' = [Free EXCEPT ![Owner[j]] = @ + Price[j] - n]
  BY <1>1, <1>2 DEF Free
<1>4. Held' = [Held EXCEPT ![Owner[j]] = @ - Price[j]]
  <2>1. Held[Owner[j]] \in Int
    BY <1>1 DEF Held
  <2>2. Held[Owner[j]] + (-Price[j]) = Held[Owner[j]] - Price[j]
    BY <1>1, <2>1
  <2> QED
    BY <1>2, <2>2
<1>5. Fates[j] = "open"
  BY DEF Fates, Fate, OpenHold
<1>6. /\ Fates' = [Fates EXCEPT ![j] = fate]
      /\ Spent' = [Spent EXCEPT ![j] = n]
  BY <1>2
<1>7. n \in Nat
  OBVIOUS
<1> QED
  BY <1>3, <1>4, <1>5, <1>6, <1>7, AccountSteps

LEMMA SpendShown ==
  ASSUME WalletTypeOK, WalletTypeOK', NEW j \in Jobs, OpenHold(j),
         NEW n \in 0 .. Price[j], Capture(Owner[j], n, Price[j], j)
  PROVE  Account!Settle(j, n, "spent")
<1>1. HoldMoves(j, "debit_capture", -n, Price[j] - n, -Price[j])
  BY CaptureMoves
<1>2. Posted(j, "debit_capture")' /\ ledger'[<<j, "debit_capture">>].amount = -n
  BY <1>1 DEF HoldMoves
<1>3. Fate(j)' = "spent" /\ SpentOn(j)' = n
  BY <1>2, JobTypes DEF Fate, SpentOn
<1> QED
  BY <1>1, <1>3, KindTypes, SettleShown

LEMMA ReturnShown ==
  ASSUME WalletTypeOK, WalletTypeOK', Reserved, NEW j \in Jobs, OpenHold(j),
         Release(Owner[j], Price[j], j)
  PROVE  Account!Settle(j, 0, "returned")
<1>1. HoldMoves(j, "credit_release", Price[j], Price[j], -Price[j])
  BY HoldIsReserved, ReleaseMoves
<1>2. /\ Posted(j, "credit_release")'
      /\ Posted(j, "debit_capture")' <=> Posted(j, "debit_capture")
  BY <1>1, MovesPost, KindTypes
<1>3. Fate(j)' = "returned" /\ SpentOn(j)' = 0
  BY <1>2 DEF Fate, SpentOn, OpenHold
<1>4. 0 \in 0 .. Price[j] /\ Price[j] - 0 = Price[j]
  BY JobTypes
<1>5. HoldMoves(j, "credit_release", Price[j], Price[j] - 0, -Price[j])
  BY <1>1, <1>4
<1> QED
  BY <1>3, <1>4, <1>5, KindTypes, SettleShown

LEMMA AccountStep ==
  ASSUME GenInv, GenInv', Reserved, AccountMove
  PROVE  [Account!AccountNext]_(Account!accountVars)
<1>1. WalletTypeOK /\ WalletTypeOK'
  BY DEF GenInv, GenTypeOK
<1>2. CASE UNCHANGED walletVars
  <2>1. /\ Free' = Free /\ Held' = Held /\ Fates' = Fates /\ Spent' = Spent
    BY <1>2 DEF walletVars, Free, Held, Fates, Spent, SpentOn, Fate, Posted
  <2> QED
    BY <2>1, AccountSteps
<1>3. ASSUME NEW u \in Users, NEW n \in Amounts, NEW r \in Credits,
             Credit(u, n, "credit_subscription_grant", r)
      PROVE  Account!AccountNext
  BY <1>1, <1>3, DepositShown DEF Account!AccountNext
<1>4. ASSUME NEW u \in Users, NEW frozen \in BOOLEAN, SetFrozen(u, frozen)
      PROVE  UNCHANGED Account!accountVars
  <2>1. /\ Free' = Free /\ Held' = Held /\ Fates' = Fates /\ Spent' = Spent
    BY <1>1, <1>4 DEF SetFrozen, WalletTypeOK, Balance,
                      Free, Held, Fates, Spent, SpentOn, Fate, Posted
  <2> QED
    BY <2>1, AccountSteps
<1>5. ASSUME NEW j \in Jobs, Fate(j) = "none", Reserve(Owner[j], Price[j], j)
      PROVE  Account!AccountNext
  BY <1>1, <1>5, SetAsideShown DEF Account!AccountNext
<1>6. ASSUME NEW j \in Jobs, NEW n \in 0 .. Price[j], OpenHold(j),
             Capture(Owner[j], n, Price[j], j)
      PROVE  Account!AccountNext
  BY <1>1, <1>6, SpendShown DEF Account!AccountNext
<1>7. ASSUME NEW j \in Jobs, OpenHold(j), Release(Owner[j], Price[j], j)
      PROVE  Account!AccountNext
  BY <1>1, <1>7, ReturnShown DEF Account!AccountNext
<1> QED
  BY <1>2, <1>3, <1>4, <1>5, <1>6, <1>7, AccountSteps
     DEF AccountMove, walletVars

LEMMA AccountStart == GenInit => Account!AccountInit
<1> SUFFICES ASSUME GenInit
             PROVE  Account!AccountInit
  OBVIOUS
<1>1. \A j \in Jobs, kind \in Kinds : ~Posted(j, kind)
  BY RefTypes DEF GenInit, WalletInit, Posted, Keys
<1>2. \A j \in Jobs : Fate(j) = "none" /\ ~Posted(j, "debit_capture")
  BY <1>1, KindTypes DEF Fate
<1> QED
  BY <1>2 DEF GenInit, WalletInit, Account!AccountInit

\* In the same runs Generation implements TokenAccount: the tokens of a job
\* are set aside once and then spent or given back exactly once, and a user
\* can always tell from the balances which (wallet_service.py as
\* generation_service.py, pipeline.py and recovery.py call it).
THEOREM AccountUnderSettling == GenSpec /\ []SettlesHolds => KeepsAccount
<1>1. GenInv /\ [GenNext]_vars => WalletUse
  BY WalletUsed
<1>2. /\ GenInv /\ GenInv' /\ SettlesHolds /\ SettlesHolds' /\ WalletUse
      /\ Reserved
      => [Account!AccountNext]_(Account!accountVars)
  BY AccountUse, AccountStep
<1> QED
  BY <1>1, <1>2, AccountStart, ReservedAlways, AlwaysInv, PTL
     DEF GenSpec, KeepsAccount, Account!AccountSpec

-----------------------------------------------------------------------------
(* Without a crash no hold is given back that was never made: who releases  *)
(* comes from "submit" or "fail", and there the tokens are set aside.       *)

\* A task at "release" was there, or comes from where its hold is known.
FromHeld(t) ==
  At(t, "release")' =>
    task[t].pc \in {"release", "submit", "fail"} /\ JobOf(t)' = JobOf(t)

LEMMA OthersFromHeld ==
  ASSUME GenInv, NEW t \in Tasks, NEW x, task' = [task EXCEPT ![t] = x],
         x.pc = "release" =>
           x.job = JobOf(t) /\ task[t].pc \in {"release", "submit", "fail"}
  PROVE  \A s \in Tasks : FromHeld(s)
<1> SUFFICES ASSUME NEW s \in Tasks, At(s, "release")'
             PROVE  /\ task[s].pc \in {"release", "submit", "fail"}
                    /\ JobOf(s)' = JobOf(s)
  BY DEF FromHeld
<1>1. CASE s = t
  <2>1. task'[s] = x
    BY <1>1 DEF GenInv, GenTypeOK
  <2> QED
    BY <1>1, <2>1 DEF At, JobOf
<1>2. CASE s # t
  <2>1. task'[s] = task[s]
    BY <1>2 DEF GenInv, GenTypeOK
  <2> QED
    BY <2>1 DEF At, JobOf
<1> QED
  BY <1>1, <1>2

\* A step that only moves t on leaves everybody else where they are.
LEMMA MovedOn ==
  ASSUME GenInv, NEW t \in Tasks, task[t] \in Task,
         \/ Return(t) \/ Raise(t)
         \/ \E pc \in PCs \ {"release"} :
              \/ GoTo(t, pc)
              \/ \E out : task' = [task EXCEPT ![t].pc = pc, ![t].out = out]
              \/ \E rid : task' = [task EXCEPT ![t].pc = pc, ![t].rid = rid]
              \/ \E code : task' = [task EXCEPT ![t].pc = pc, ![t].code = code]
              \/ \E rid : task' = [task EXCEPT ![t] = [Only(t, pc) EXCEPT !.rid = rid]]
              \/ \E n : task' = [task EXCEPT ![t] = [Only(t, pc) EXCEPT !.captured = n]]
  PROVE  \A s \in Tasks : FromHeld(s)
<1>1. CASE Return(t) \/ Raise(t)
  <2>1. \/ task' = [task EXCEPT ![t] = Returned(t)]
        \/ task' = [task EXCEPT ![t] = Idle]
    BY <1>1 DEF Return, Raise
  <2>2. Returned(t).pc # "release" /\ Idle.pc # "release"
    BY LeavingNeedsNoRow DEF RowPCs
  <2> QED
    BY <2>1, <2>2, OthersFromHeld
<1>2. ASSUME NEW pc \in PCs \ {"release"}, GoTo(t, pc)
      PROVE  \A s \in Tasks : FromHeld(s)
  BY <1>2, GoToStep, OthersFromHeld
<1>3. ASSUME NEW pc \in PCs \ {"release"}, NEW out,
             task' = [task EXCEPT ![t].pc = pc, ![t].out = out]
      PROVE  \A s \in Tasks : FromHeld(s)
  <2> DEFINE x == [task[t] EXCEPT !.pc = pc, !.out = out]
  <2>1. task' = [task EXCEPT ![t] = x] /\ x.pc = pc
    BY <1>3 DEF Task
  <2> HIDE DEF x
  <2> QED
    BY <2>1, OthersFromHeld
<1>4. ASSUME NEW pc \in PCs \ {"release"}, NEW rid,
             task' = [task EXCEPT ![t].pc = pc, ![t].rid = rid]
      PROVE  \A s \in Tasks : FromHeld(s)
  <2> DEFINE x == [task[t] EXCEPT !.pc = pc, !.rid = rid]
  <2>1. task' = [task EXCEPT ![t] = x] /\ x.pc = pc
    BY <1>4 DEF Task
  <2> HIDE DEF x
  <2> QED
    BY <2>1, OthersFromHeld
<1>5. ASSUME NEW pc \in PCs \ {"release"}, NEW code,
             task' = [task EXCEPT ![t].pc = pc, ![t].code = code]
      PROVE  \A s \in Tasks : FromHeld(s)
  <2> DEFINE x == [task[t] EXCEPT !.pc = pc, !.code = code]
  <2>1. task' = [task EXCEPT ![t] = x] /\ x.pc = pc
    BY <1>5 DEF Task
  <2> HIDE DEF x
  <2> QED
    BY <2>1, OthersFromHeld
<1>6. ASSUME NEW pc \in PCs \ {"release"}, NEW v,
             \/ task' = [task EXCEPT ![t] = [Only(t, pc) EXCEPT !.rid = v]]
             \/ task' = [task EXCEPT ![t] = [Only(t, pc) EXCEPT !.captured = v]]
      PROVE  \A s \in Tasks : FromHeld(s)
  <2>1. /\ [Only(t, pc) EXCEPT !.rid = v].pc = pc
        /\ [Only(t, pc) EXCEPT !.captured = v].pc = pc
    BY DEF Only, Idle
  <2> QED
    BY <1>6, <2>1, OthersFromHeld
<1> QED
  BY <1>1, <1>2, <1>3, <1>4, <1>5, <1>6

LEMMA PipelineMovesOn ==
  ASSUME GenInv, NEW t \in Tasks, PipelineStep(t)
  PROVE  \A s \in Tasks : FromHeld(s)
<1>1. task[t] \in Task
  BY RunningTask
<1>2. CASE Advance(t)
  BY <1>1, <1>2, MovedOn DEF Advance, PCs
<1>3. CASE PersistRuntime(t)
  <2>1. NextStep(PlanOf(t), task[t].stage) \in PCs \ {"release"}
    BY DEF NextStep, PCs
  <2> QED
    BY <1>1, <1>3, <2>1, MovedOn DEF PersistRuntime
<1>4. CASE SubmitRefine(t)
  <2>1. CASE task' = [task EXCEPT ![t] = [Only(t, "setstage") EXCEPT !.rid = "refine"]]
    BY <1>1, <2>1, MovedOn DEF PCs
  <2>2. CASE ProviderError(t)
    BY <1>1, <2>2, MovedOn DEF ProviderError, PCs
  <2>3. CASE task' = [task EXCEPT
               ![t].pc = IF PlanOf(t).voice THEN "tts" ELSE "finalize",
               ![t].out = RowOf(t).out]
    <3>1. (IF PlanOf(t).voice THEN "tts" ELSE "finalize") \in PCs \ {"release"}
      BY DEF PCs
    <3> QED
      BY <1>1, <2>3, <3>1, MovedOn
  <2> QED
    BY <1>4, <2>1, <2>2, <2>3 DEF SubmitRefine
<1>5. CASE CloneVoice(t)
  <2>1. PICK pc \in {"finalize", "speech", "saveclone"} :
          task' = [task EXCEPT ![t].pc = pc, ![t].out = RowOf(t).out]
    BY <1>5 DEF CloneVoice
  <2> QED
    BY <1>1, <2>1, MovedOn DEF PCs
<1>6. CASE SaveClonedVoice(t)
  BY <1>1, <1>6, MovedOn DEF SaveClonedVoice, PCs
<1>7. CASE SubmitSpeech(t)
  BY <1>1, <1>7, MovedOn DEF SubmitSpeech, PCs
<1>8. CASE RecordSubmission(t) \/ FinalizeWithoutAudio(t) \/ MarkFallback(t)
             \/ FailJob(t) \/ CommitTrack(t)
  BY <1>1, <1>8, MovedOn DEF RecordSubmission, FinalizeWithoutAudio,
                             MarkFallback, FailJob, CommitTrack
<1>9. CASE CaptureTokens(t)
  BY <1>1, <1>9, MovedOn DEF CaptureTokens, PCs
<1>10. CASE Fail(t)
  <2>1. CASE \E kind \in FallbackKinds :
               task' = [task EXCEPT ![t] = [Only(t, "fallback") EXCEPT !.rid = kind]]
    BY <1>1, <2>1, MovedOn DEF PCs
  <2>2. CASE task' = [task EXCEPT ![t] = Only(t, "release")]
    BY <1>10, <2>2, LeavingNeedsNoRow, OthersFromHeld DEF Fail, At, PCs
  <2> QED
    BY <1>10, <2>1, <2>2 DEF Fail, FallbacksOf, FallbackKinds
<1>11. CASE ReleaseHold(t)
  BY <1>1, <1>11, MovedOn DEF ReleaseHold, PCs
<1> QED
  BY <1>2, <1>3, <1>4, <1>5, <1>6, <1>7, <1>8, <1>9, <1>10, <1>11
     DEF PipelineStep

LEMMA RequestMovesOn ==
  ASSUME GenInv, NEW j \in Jobs, CreateJob(j)
  PROVE  \A s \in Tasks : FromHeld(s)
<1>1. j \in Tasks /\ task[j] \in Task
  BY TaskNames, RunningTask
<1>2. CASE LookUpKey(j)
  <2> DEFINE x == [Idle EXCEPT !.job = j,
                     !.pc = IF Existing(j) = {} THEN "add" ELSE "replied"]
  <2>1. task' = [task EXCEPT ![j] = x] /\ x.pc \in {"add", "replied"}
    BY <1>2 DEF LookUpKey, Idle
  <2> HIDE DEF x
  <2> QED
    BY <1>1, <2>1, OthersFromHeld
<1>3. CASE AddJob(j)
  BY <1>1, <1>3, MovedOn DEF AddJob, PCs
<1>4. CASE ReserveTokens(j)
  BY <1>1, <1>4, MovedOn DEF ReserveTokens, PCs
<1>5. CASE SubmitMusic(j)
  <2>1. CASE task' = [task EXCEPT ![j].pc = "setstage", ![j].rid = "music"]
    BY <1>1, <2>1, MovedOn DEF PCs
  <2>2. CASE GoTo(j, "release")
    <3>1. \E x : task' = [task EXCEPT ![j] = x] /\ x.job = JobOf(j)
      BY <1>1, <2>2, GoToStep DEF PCs, JobOf
    <3> QED
      BY <1>1, <1>5, <3>1, OthersFromHeld DEF SubmitMusic, At
  <2> QED
    BY <1>5, <2>1, <2>2 DEF SubmitMusic
<1> QED
  BY <1>2, <1>3, <1>4, <1>5 DEF CreateJob

LEMMA OthersMoveOn ==
  ASSUME GenInv, \/ \E h \in Hooks : Webhook(h)
                 \/ Poll \/ Environment \/ UNCHANGED vars
  PROVE  \A s \in Tasks : FromHeld(s)
<1>1. ASSUME UNCHANGED task
      PROVE  \A s \in Tasks : FromHeld(s)
  BY <1>1 DEF FromHeld, At, JobOf
<1>2. ASSUME NEW t \in Tasks, NEW stage, NEW outcome
      PROVE  /\ Dispatched(t, stage, outcome).pc \in {"advance", "fail"}
             /\ \A j : [Dispatched(t, stage, outcome) EXCEPT !.job = j].pc
                         \in {"advance", "fail"}
  <2>1. task[t] \in Task
    BY RunningTask
  <2> QED
    BY <2>1 DEF Dispatched, Task
<1>3. ASSUME NEW h \in Hooks, Webhook(h)
      PROVE  \A s \in Tasks : FromHeld(s)
  <2>1. h \in Tasks
    BY TaskNames
  <2>2. ASSUME NEW j \in Jobs, NEW kind \in SubmitKinds, ClaimEvent(h, j, kind)
        PROVE  \A s \in Tasks : FromHeld(s)
    <3> DEFINE x == [Idle EXCEPT !.pc = "claimed", !.job = j, !.event = kind]
    <3>1. task' = [task EXCEPT ![h] = x] /\ x.pc = "claimed"
      BY <2>2 DEF ClaimEvent, Idle
    <3> HIDE DEF x
    <3> QED
      BY <2>1, <3>1, OthersFromHeld
  <2>3. CASE LookUpRequest(h)
    <3> DEFINE x == Dispatched(h, CurrentStage(job[JobOf(h)].stage),
                               fal[JobOf(h)][task[h].event])
    <3>1. task' = [task EXCEPT ![h] = Returned(h)] \/ task' = [task EXCEPT ![h] = x]
      BY <2>3 DEF LookUpRequest
    <3>2. x.pc # "release" /\ Returned(h).pc # "release"
      BY <1>2, <2>1, LeavingNeedsNoRow DEF RowPCs
    <3> HIDE DEF x
    <3> QED
      BY <2>1, <3>1, <3>2, OthersFromHeld
  <2>4. CASE MarkApplied(h)
    BY <2>1, <2>4, LeavingNeedsNoRow, OthersFromHeld DEF MarkApplied, RowPCs
  <2> QED
    BY <1>3, <2>2, <2>3, <2>4 DEF Webhook
<1>4. CASE Poll
  <2>1. ASSUME NEW row, PollFinished(row)
        PROVE  \A s \in Tasks : FromHeld(s)
    <3>1. PICK outcome \in Reported(row) :
            task' = [task EXCEPT ![Poller] =
              [Dispatched(Poller, CurrentStage(row.stage), outcome)
                 EXCEPT !.job = row.job]]
      BY <2>1 DEF PollFinished
    <3> DEFINE x == [Dispatched(Poller, CurrentStage(row.stage), outcome)
                       EXCEPT !.job = row.job]
    <3>2. x.pc # "release"
      BY <1>2, TaskNames
    <3>3. task' = [task EXCEPT ![Poller] = x]
      BY <3>1
    <3> HIDE DEF x
    <3> QED
      BY <3>2, <3>3, TaskNames, OthersFromHeld
  <2> QED
    BY <1>1, <1>4, <2>1 DEF Poll, FetchActiveJobs, PollPending
<1>5. CASE Environment \/ UNCHANGED vars
  BY <1>1, <1>5 DEF Environment, FinishSubmission, Grant, Freeze, vars, genVars
<1> QED
  BY <1>3, <1>4, <1>5

\* Only a task at "release" gives the hold of its job back.
LEMMA WhoReleases ==
  ASSUME GenInv, GenInv', [GenNext]_vars, NEW j \in Jobs,
         Posted(j, "credit_release")', ~Posted(j, "credit_release")
  PROVE  \E t \in Tasks : At(t, "release") /\ JobOf(t) = j
<1>1. /\ WalletTypeOK /\ WalletTypeOK' /\ j \in Refs
      /\ <<j, "credit_release">> \in Keys
  BY RefTypes, KindTypes DEF GenInv, GenTypeOK, Keys
<1>2. ledger' # ledger
  BY DEF Posted
<1>3. ASSUME NEW u \in Users, NEW r \in Refs, NEW kind \in Kinds,
             NEW amount \in Int, NEW a, NEW h, NEW prev \in Nat,
             Post(u, r, kind, amount, a, h, prev),
             r # j \/ kind # "credit_release"
      PROVE  FALSE
  BY <1>1, <1>3, PostWrites DEF Posted
<1>4. ASSUME NEW i \in Jobs
      PROVE  /\ Owner[i] \in Users /\ i \in Refs
             /\ Price[i] \in Nat /\ Price[i] \in Int /\ -Price[i] \in Int
             /\ 0 \in Nat
             /\ Least(Price[i], wallet[Owner[i]].reserved) \in Nat
  <2>1. /\ Owner[i] \in Users /\ i \in Refs
        /\ Price[i] \in Nat
        /\ wallet[Owner[i]].reserved \in Nat
    BY <1>1, JobTypes
  <2>2. Least(Price[i], wallet[Owner[i]].reserved) \in Nat
    BY <2>1, LeastType
  <2>3. Price[i] \in Int /\ -Price[i] \in Int /\ 0 \in Nat
    BY <2>1
  <2> QED
    BY <2>1, <2>2, <2>3
<1>5. ASSUME NEW i \in Jobs, CreateJob(i)
      PROVE  FALSE
  <2>1. Reserve(Owner[i], Price[i], i)
    BY <1>2, <1>5
       DEF CreateJob, LookUpKey, AddJob, ReserveTokens, SubmitMusic,
           ReserveRefused, walletVars
  <2>2. Post(Owner[i], i, "debit_reserve", -Price[i], -Price[i], Price[i], 0)
    BY <2>1 DEF Reserve
  <2>3. Owner[i] \in Users /\ i \in Refs /\ -Price[i] \in Int /\ 0 \in Nat
    BY <1>4
  <2> QED
    BY <1>3, <2>2, <2>3, KindTypes
<1>6. ASSUME NEW t \in Tasks, CaptureTokens(t)
      PROVE  FALSE
  <2>1. JobOf(t) \in Jobs
    BY <1>6, RunningTask DEF CaptureTokens, At, NoJobPCs
  <2>2. PICK n \in Charge[JobOf(t)] :
          Capture(Owner[JobOf(t)], n, Price[JobOf(t)], JobOf(t))
    BY <1>2, <1>6 DEF CaptureTokens, Duplicate, CaptureAborts, walletVars
  <2>3. -n \in Int
    BY <2>1, <1>4, ChargeAssumption
  <2> QED
    BY <1>3, <1>4, <2>1, <2>2, <2>3, KindTypes DEF Capture
<1>7. ASSUME NEW t \in Tasks, ReleaseHold(t)
      PROVE  At(t, "release") /\ JobOf(t) = j
  <2> DEFINE i == JobOf(t)
             back == Least(Price[i], wallet[Owner[i]].reserved)
  <2>1. i \in Jobs /\ At(t, "release")
    BY <1>7, RunningTask DEF ReleaseHold, At, NoJobPCs
  <2>2. Release(Owner[i], Price[i], i)
    BY <1>2, <1>7 DEF ReleaseHold, Duplicate, walletVars
  <2>3. Post(Owner[i], i, "credit_release", back, back, -back, 0)
    BY <2>2 DEF Release
  <2>4. back \in Nat /\ back \in Int
    BY <1>4, <2>1
  <2> HIDE DEF back
  <2> QED
    BY <1>3, <1>4, <2>1, <2>3, <2>4, KindTypes
<1>8. ASSUME NEW t \in Tasks, PipelineStep(t), ~CaptureTokens(t), ~ReleaseHold(t)
      PROVE  FALSE
  BY <1>2, <1>8
     DEF PipelineStep, Advance, PersistRuntime, SubmitRefine, CloneVoice,
         SaveClonedVoice, SubmitSpeech, RecordSubmission, FinalizeWithoutAudio,
         CommitTrack, Fail, MarkFallback, FailJob, walletVars
<1>9. ASSUME NEW h \in Hooks, Webhook(h)
      PROVE  FALSE
  BY <1>2, <1>9 DEF Webhook, ClaimEvent, LookUpRequest, MarkApplied, walletVars
<1>10. ASSUME Poll \/ Crash \/ (\E i \in Jobs : RecoverOrphan(i)) \/ UNCHANGED vars
       PROVE  FALSE
  BY <1>2, <1>10 DEF Poll, FetchActiveJobs, PollPending, PollFinished, Crash,
                     RecoverOrphan, walletVars, vars
<1>11. ASSUME Environment
       PROVE  FALSE
  <2>1. PICK u \in Users, n \in Amounts, r \in Credits :
          Credit(u, n, "credit_subscription_grant", r)
    BY <1>2, <1>11 DEF Environment, FinishSubmission, Grant, Freeze, SetFrozen,
                       walletVars
  <2>2. /\ r \in Refs /\ n \in Int /\ 0 \in Nat
        /\ "credit_subscription_grant" \in Kinds
    BY RefTypes DEF Kinds
  <2> QED
    BY <1>3, <2>1, <2>2 DEF Credit
<1> QED
  BY <1>5, <1>6, <1>7, <1>8, <1>9, <1>10, <1>11 DEF GenNext

\* What a release gives back was set aside before.
ReturnedWasHeld ==
  \A j \in Jobs : Posted(j, "credit_release") => Posted(j, "debit_reserve")

Backed ==
  /\ orphans = {}
  /\ \A t \in Tasks : At(t, "release") => Posted(JobOf(t), "debit_reserve")
  /\ ReturnedWasHeld

LEMMA BackedStep ==
  ASSUME MaxCrashes = 0, GenInv, GenInv', Backed, [GenNext]_vars
  PROVE  Backed'
<1>1. WalletGrows
  <2>1. WalletTypeOK' /\ JournalStep
    BY UsesWallet, WalletStep DEF GenInv, GenTypeOK
  <2> QED
    BY <2>1, JournalGrows
<1>2. \A j \in Jobs : Posted(j, "debit_reserve") => Posted(j, "debit_reserve")'
  BY <1>1, RefTypes, KindTypes DEF WalletGrows
<1>3. ~Crash /\ \A j \in Jobs : ~RecoverOrphan(j)
  BY DEF Crash, RecoverOrphan, GenInv, GenTypeOK, Backed
<1>4. orphans' = {}
  BY <1>3
     DEF Backed, GenNext, CreateJob, LookUpKey, AddJob, ReserveTokens,
         SubmitMusic, PipelineStep, Advance, PersistRuntime, SubmitRefine,
         CloneVoice, SaveClonedVoice, SubmitSpeech, RecordSubmission,
         FinalizeWithoutAudio, CaptureTokens, CommitTrack, Fail, MarkFallback,
         ReleaseHold, FailJob, Webhook, ClaimEvent, LookUpRequest, MarkApplied,
         Poll, FetchActiveJobs, PollPending, PollFinished, Environment,
         FinishSubmission, Grant, Freeze, vars, genVars
<1>5. \A t \in Tasks : FromHeld(t)
  BY <1>3, PipelineMovesOn, RequestMovesOn, OthersMoveOn DEF GenNext
<1>6. ASSUME NEW t \in Tasks, At(t, "release")'
      PROVE  Posted(JobOf(t), "debit_reserve")'
  <2>1. /\ task[t].pc \in {"release", "submit", "fail"}
        /\ JobOf(t)' = JobOf(t) /\ JobOf(t) \in Jobs
        /\ LocalsOf(t)
    BY <1>5, <1>6, RunningTask DEF FromHeld, NoJobPCs
  <2>2. Posted(JobOf(t), "debit_reserve")
    BY <2>1 DEF Backed, At, LocalsOf, UnheldPCs, NoJobPCs
  <2> QED
    BY <1>2, <2>1, <2>2
<1>7. ASSUME NEW j \in Jobs, Posted(j, "credit_release")'
      PROVE  Posted(j, "debit_reserve")'
  <2>1. CASE Posted(j, "credit_release")
    BY <1>2, <2>1 DEF Backed, ReturnedWasHeld
  <2>2. CASE ~Posted(j, "credit_release")
    BY <1>2, <1>7, <2>2, WhoReleases DEF Backed
  <2> QED
    BY <2>1, <2>2
<1> QED
  BY <1>4, <1>6, <1>7 DEF Backed, ReturnedWasHeld

\* Without a crash nothing is given back that was not set aside, whichever
\* webhooks, polls and requests run at once: create_job and Pipeline.fail
\* release only after the reserve.  (The sweep of recovery.py does not look;
\* after a crash between the insert of the job and its reserve it releases a
\* hold that was never made.)
THEOREM NoPhantomReturn == MaxCrashes = 0 /\ GenSpec => []ReturnedWasHeld
<1>1. GenInit => Backed
  <2> SUFFICES ASSUME GenInit
               PROVE  Backed
    OBVIOUS
  <2>1. \A t \in Tasks : ~At(t, "release")
    BY DEF GenInit, Idle, At
  <2>2. \A j \in Jobs : ~Posted(j, "credit_release")
    BY RefTypes, KindTypes DEF GenInit, WalletInit, Posted, Keys
  <2> QED
    BY <2>1, <2>2 DEF GenInit, Backed, ReturnedWasHeld
<1>2. MaxCrashes = 0 /\ GenInv /\ GenInv' /\ Backed /\ [GenNext]_vars => Backed'
  BY BackedStep
<1>3. Backed => ReturnedWasHeld
  BY DEF Backed
<1> SUFFICES ASSUME MaxCrashes = 0
             PROVE  GenSpec => []ReturnedWasHeld
  OBVIOUS
<1>4. GenInv /\ GenInv' /\ Backed /\ [GenNext]_vars => Backed'
  BY <1>2
<1> QED
  BY <1>1, <1>3, <1>4, AlwaysInv, PTL DEF GenSpec

-----------------------------------------------------------------------------
(* One channel, polling or the webhook. *)

LEMMA ChannelSettles == OneChannel /\ GenSpec => []SettlesHolds
<1>1. ChargedOrReturned /\ ReturnedWasHeld => SettlesHolds
  BY DEF ChargedOrReturned, ReturnedWasHeld, SettlesHolds
<1>2. OneChannel => MaxCrashes = 0
  BY DEF OneChannel
<1> SUFFICES ASSUME OneChannel
             PROVE  GenSpec => []SettlesHolds
  OBVIOUS
<1>3. GenSpec => []ChargedOrReturned
  BY SettledOnce
<1>4. GenSpec => []ReturnedWasHeld
  BY <1>2, NoPhantomReturn
<1> QED
  BY <1>1, <1>3, <1>4, PTL

\* There the code keeps the whole promise of TokenAccount.
THEOREM ChannelKeepsAccount == OneChannel /\ GenSpec => KeepsAccount
  BY ChannelSettles, AccountUnderSettling, PTL

\* There reserved_tokens is always the sum of the open holds.
THEOREM ChannelReserves == OneChannel /\ GenSpec => []ReservedIsOpenHolds
  BY ChannelSettles, ReservedUnderSettling, PTL

\* And where every finished submission leaves an audio URL, the tokens of a
\* job are settled in every respect the runs check.
THEOREM ChannelSettlesTokens ==
  OneChannel /\ Sounding /\ GenSpec => []TokensSettled
<1>1. /\ ChargedOrReturned /\ ReservedIsOpenHolds /\ HeldWhileOpen
      /\ FallbackAwaited /\ ChargeIsReported
      => TokensSettled
  BY DEF TokensSettled
<1> SUFFICES ASSUME OneChannel, Sounding
             PROVE  GenSpec => []TokensSettled
  OBVIOUS
<1>2. GenSpec => []ChargedOrReturned
  BY SettledOnce
<1>3. GenSpec => []ReservedIsOpenHolds
  BY ChannelReserves
<1>4. GenSpec => []HeldWhileOpen
  BY HeldExactlyWhileOpen
<1>5. GenSpec => []FallbackAwaited
  BY FallbackIsAwaited
<1>6. GenSpec => []ChargeIsReported
  BY ReportedAsCharged
<1> QED
  BY <1>1, <1>2, <1>3, <1>4, <1>5, <1>6, PTL

=============================================================================
