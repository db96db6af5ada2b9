SPECIFICATION BillingSpec
CONSTANTS
  u1 = u1
  u2 = u2
  p1 = p1
  p2 = p2
  e1 = e1
  e2 = e2
  e3 = e3
  e4 = e4
  e5 = e5
  e6 = e6
  d1 = d1
  d2 = d2
  None = None
  Users <- OneUser
  Jobs <- NoJobs
  Credits <- MCCredits
  Owner <- NoOwner
  Price <- NoPrice
  Amounts <- MCAmounts
  Events <- Events1
  EventOf <- OnePack
  ProductTokens <- MCProductTokens
  Deliveries = {d1, d2}
  Horizon = 1
  MaxFaults = 1
INVARIANTS
  NoEventLost
CHECK_DEADLOCK FALSE
