------------------------------ MODULE MCWallet ------------------------------
(* One user owns the job; both users meet under the one billing reference. *)
(* A refund of 3 exceeds what a grant of 1 left, a hold of 2 does too.     *)
EXTENDS Wallet, TLC

CONSTANTS u1, u2, j1, c1

MCUsers == {u1, u2}
MCJobs == {j1}
MCCredits == {c1}
MCOwner == j1 :> u1
MCPrice == j1 :> 2
MCAmounts == {1, 3}

=============================================================================
