SPECIFICATION Spec
CONSTANTS
  api_key_map <- Keys
  Paths = {"/v1/beats", "/healthz"}
  Tokens = {"k1", "k2", "wrong"}
  PerMinute = 25
  Burst = 2
  TicksPerSecond = 1
  MaxTime = 15
INVARIANTS RateTypeOK WindowBound RetryAfterHonoured
