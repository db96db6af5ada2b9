----------------------------- MODULE RateLimit -----------------------------
(* app/middleware/rate_limit.py: a token bucket for every user an API key       *)
(* resolves to, kept in the memory of the process. Time is counted in ticks and  *)
(* a bucket in parts of a request, so that the arithmetic stays in the integers:  *)
(* a request costs 60 * TicksPerSecond parts and a tick refills PerMinute.        *)
EXTENDS Integers

CONSTANTS api_key_map,     \* Settings.api_key_map: API key -> user
          Paths, Tokens,   \* of requests: paths and bearer tokens
          PerMinute,       \* RATE_LIMIT_PER_MINUTE
          Burst,           \* RATE_LIMIT_BURST
          TicksPerSecond,
          MaxTime          \* the bound of the clock

(* main.py mounts the middleware only when the rate is positive. *)
ASSUME RateAssumption ==
  /\ PerMinute \in Nat \ {0} /\ Burst \in Int
  /\ TicksPerSecond \in Nat \ {0} /\ MaxTime \in Nat

Users == {api_key_map[k] : k \in DOMAIN api_key_map}
NoBucket == [tokens |-> -1, last_refill |-> -1]
NoTime == -1

SKIP_PATHS == {"/healthz", "/health", "/docs", "/redoc", "/openapi.json",
               "/v1/webhooks/fal", "/v1/webhooks/billing/adapty", "/v1/webhooks/billing/rf"}

Cost == 60 * TicksPerSecond
Capacity == (IF Burst > 1 THEN Burst ELSE 1) * Cost

VARIABLES
  now,      \* time.monotonic()
  buckets,  \* _buckets
  opened,   \* the start of a window of time, for each user any
  granted,  \* how many requests were let through since then
  due       \* when a refused request was told to come again, at the earliest

vars == <<now, buckets, opened, granted, due>>

(* The elapsed time is clamped and the bucket is filled no further than its
   capacity.
   Mutant of Refilled: it is filled without the limit. *)
RefilledUnbounded(b, t) == b.tokens + (IF t > b.last_refill THEN t - b.last_refill ELSE 0) * PerMinute

Refilled(b, t) ==
  LET elapsed == IF t > b.last_refill THEN t - b.last_refill ELSE 0
      sum == b.tokens + elapsed * PerMinute
  IN IF sum < Capacity THEN sum ELSE Capacity

(* retry_after in seconds, rounded up, at least one: what is missing to a
   request over what a second refills.
   Mutant of RetryAfter: rounded down. *)
RetryAfterFloor(tokens) ==
  LET seconds == (Cost - tokens) \div (PerMinute * TicksPerSecond)
  IN IF seconds < 1 THEN 1 ELSE seconds

RetryAfter(tokens) ==
  LET second == PerMinute * TicksPerSecond
      seconds == (Cost - tokens + second - 1) \div second
  IN IF seconds < 1 THEN 1 ELSE seconds

(* A user without a bucket gets a full one. *)
BucketOf(u) ==
  IF buckets[u] = NoBucket THEN [tokens |-> Capacity, last_refill |-> now] ELSE buckets[u]

Available(u) == Refilled(BucketOf(u), now)

Keep(u, tokens) == buckets' = [buckets EXCEPT ![u] = [tokens |-> tokens, last_refill |-> now]]

(* TokenBucket.consume. *)
Allow(u) ==
  /\ Available(u) >= Cost
  /\ Keep(u, Available(u) - Cost)
  /\ granted' = [granted EXCEPT ![u] = @ + 1]
  /\ due' = [due EXCEPT ![u] = NoTime]

Refuse(u) ==
  /\ Available(u) < Cost
  /\ Keep(u, Available(u))
  /\ due' = [due EXCEPT ![u] =
               IF @ # NoTime THEN @ ELSE now + RetryAfter(Available(u)) * TicksPerSecond]
  /\ UNCHANGED granted

(* A path of SKIP_PATHS and a request without a known key pass by the limiter:
   the second is answered 401 by get_current_user. *)
dispatch(path, token) ==
  \/ /\ path \in SKIP_PATHS \/ token \notin DOMAIN api_key_map
     /\ UNCHANGED vars
  \/ /\ path \notin SKIP_PATHS /\ token \in DOMAIN api_key_map
     /\ Allow(api_key_map[token]) \/ Refuse(api_key_map[token])
     /\ UNCHANGED <<now, opened>>

Tick == now < MaxTime /\ now' = now + 1 /\ UNCHANGED <<buckets, opened, granted, due>>

(* A window of time begins: the bound is on every one. *)
Open(u) ==
  /\ opened' = [opened EXCEPT ![u] = now] /\ granted' = [granted EXCEPT ![u] = 0]
  /\ UNCHANGED <<now, buckets, due>>

(* The process is started again: the buckets are gone, and a window does not
   reach over it. *)
Restart ==
  /\ buckets' = [u \in Users |-> NoBucket]
  /\ opened' = [u \in Users |-> now] /\ granted' = [u \in Users |-> 0]
  /\ UNCHANGED <<now, due>>

Init ==
  /\ now = 0 /\ buckets = [u \in Users |-> NoBucket]
  /\ opened = [u \in Users |-> 0] /\ granted = [u \in Users |-> 0]
  /\ due = [u \in Users |-> NoTime]

Next ==
  \/ Tick \/ Restart
  \/ \E u \in Users : Open(u)
  \/ \E path \in Paths, token \in Tokens : dispatch(path, token)

Spec == Init /\ [][Next]_vars

-----------------------------------------------------------------------------
(* A bucket is a bucket: never below nothing, never above its capacity. *)
Bucket == [tokens : 0..Capacity, last_refill : 0..now]

RateTypeOK ==
  /\ now \in Nat
  /\ buckets \in [Users -> Bucket \cup {NoBucket}]
  /\ opened \in [Users -> 0..now] /\ granted \in [Users -> Nat]
  /\ due \in [Users -> Nat \cup {NoTime}]

(* In any stretch of time a user is let through no more than the burst and what
   the rate allows in that time, however the requests are spread and whichever
   keys of the user they use. *)
WindowBound ==
  \A u \in Users : Cost * granted[u] <= Capacity + (now - opened[u]) * PerMinute

(* Whoever waits as long as Retry-After says is let through, unless another
   request of the same user was let through meanwhile; refused ones in between,
   and a restart, do not push the moment away. *)
RetryAfterHonoured ==
  \A u \in Users : due[u] # NoTime /\ now >= due[u] => Available(u) >= Cost
=============================================================================
