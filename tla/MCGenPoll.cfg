SPECIFICATION GenSpec
CONSTANTS
  u1 = u1
  j1 = j1
  j2 = j2
  g1 = g1
  h1 = h1
  h2 = h2
  key1 = key1
  None = None
  Users <- OneUser
  Jobs <- TwoJobs
  Credits <- OneGrant
  Owner <- TwoOwner
  Price <- TwoPrice
  Charge <- TwoCharge
  Digits = 3
  Unset = Unset
  Amounts <- Grant23
  ClientKey <- TwoKeys
  Plan <- SongAndSung
  Hooks <- NoHook
  PollEnabled = TRUE
  Outcomes = {"ok", "failed", "canceled"}
  MaxCrashes = 0
  Freezes = {TRUE, FALSE}
INVARIANTS
  ChargedOrReturned
  ReservedIsOpenHolds
  HeldWhileOpen
  FallbackAwaited
  ChargeIsReported
PROPERTIES
  FinalStatus
  KeepsAccount
CHECK_DEADLOCK FALSE
