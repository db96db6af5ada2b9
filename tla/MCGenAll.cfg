SPECIFICATION GenSpec
CONSTANTS
  u1 = u1
  j1 = j1
  j2 = j2
  g1 = g1
  h1 = h1
  h2 = h2
  key1 = key1
  None = None
  Users <- OneUser
  Jobs <- OneJob
  Credits <- OneGrant
  Owner <- OneOwner
  Price <- OnePrice
  Charge <- OneCharge
  Digits = 3
  Unset = Unset
  Amounts <- Grant3
  ClientKey <- OneKey
  Plan <- OneHummed
  Hooks <- OneHook
  PollEnabled = TRUE
  Outcomes = {"ok", "empty", "failed", "canceled"}
  MaxCrashes = 1
  Freezes = {}
INVARIANTS
  GenTypeOK
  PaidBeforeDelivered
  WorkIsHeld
  LocalsHold
PROPERTIES
  Journaled
CHECK_DEADLOCK FALSE
