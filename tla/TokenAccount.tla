---------------------------- MODULE TokenAccount ----------------------------
(***************************************************************************)
(* What the wallet promises the owner of a job: the tokens of a job are    *)
(* set aside once, and then either spent (in part, the rest comes back) or *)
(* given back in full, exactly once, whatever other jobs of the same user  *)
(* do.  There is no ledger here and there are no retries.                  *)
(***************************************************************************)
EXTENDS Integers

CONSTANTS Users, Jobs, Owner, Price, Amounts

VARIABLES free,  \* free[u]: tokens u may spend
          held,  \* held[u]: tokens set aside for the jobs of u
          hold,  \* hold[j]: what became of the tokens of j
          spent  \* spent[j]: how many of them were spent

accountVars == <<free, held, hold, spent>>

AccountInit ==
  /\ free = [u \in Users |-> 0]
  /\ held = [u \in Users |-> 0]
  /\ hold = [j \in Jobs |-> "none"]
  /\ spent = [j \in Jobs |-> 0]

Deposit(u, n) ==
  /\ free' = [free EXCEPT ![u] = @ + n]
  /\ UNCHANGED <<held, hold, spent>>

SetAside(j) ==
  /\ hold[j] = "none"
  /\ free[Owner[j]] >= Price[j]
  /\ free' = [free EXCEPT ![Owner[j]] = @ - Price[j]]
  /\ held' = [held EXCEPT ![Owner[j]] = @ + Price[j]]
  /\ hold' = [hold EXCEPT ![j] = "open"]
  /\ UNCHANGED spent

\* n of the tokens are spent, the rest is free again.
Settle(j, n, fate) ==
  /\ hold[j] = "open"
  /\ free' = [free EXCEPT ![Owner[j]] = @ + Price[j] - n]
  /\ held' = [held EXCEPT ![Owner[j]] = @ - Price[j]]
  /\ hold' = [hold EXCEPT ![j] = fate]
  /\ spent' = [spent EXCEPT ![j] = n]

AccountNext ==
  \/ \E u \in Users, n \in Amounts : Deposit(u, n)
  \/ \E j \in Jobs :
       \/ SetAside(j)
       \/ \E n \in 0 .. Price[j] : Settle(j, n, "spent")
       \/ Settle(j, 0, "returned")

AccountSpec == AccountInit /\ [][AccountNext]_accountVars

=============================================================================
