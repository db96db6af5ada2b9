SPECIFICATION GenSpec
CONSTANTS
  u1 = u1
  j1 = j1
  j2 = j2
  g1 = g1
  h1 = h1
  h2 = h2
  key1 = key1
  None = None
  Users <- OneUser
  Jobs <- TwoJobs
  Credits <- OneGrant
  Owner <- TwoOwner
  Price <- TwoPrice
  Charge <- TwoCharge
  Digits = 3
  Unset = Unset
  Amounts <- Grant3
  ClientKey <- TwoKeys
  Plan <- FullAndPlain
  Hooks <- TwoHooks
  PollEnabled = FALSE
  Outcomes = {"ok", "failed", "canceled"}
  MaxCrashes = 0
  Freezes = {}
INVARIANTS
  TokensSettled
PROPERTIES
  FinalStatus
  KeepsAccount
CHECK_DEADLOCK FALSE
