SPECIFICATION WalletSpec
CONSTANTS
  u1 = u1
  u2 = u2
  j1 = j1
  c1 = c1
  None = None
  Users <- MCUsers
  Jobs <- MCJobs
  Credits <- MCCredits
  Owner <- MCOwner
  Price <- MCPrice
  Amounts <- MCAmounts
INVARIANTS
  WalletTypeOK
  BalancesRebuild
PROPERTIES
  Journaled
