-------------------------- MODULE RateLimitProofs --------------------------
(* Proofs about RateLimit, for every set of keys, every rate, burst and length  *)
(* of a tick. The bound of a window and the promise of Retry-After are not       *)
(* inductive: both speak of the present moment, while a bucket only knows the    *)
(* moment of its last request. BucketInv states them at that moment.             *)
EXTENDS RateLimit, TLAPS

(* Products are made of unknown factors: these three facts are all that is used
   of them. *)
LEMMA Distribute ==
  ASSUME NEW a \in Int, NEW b \in Int, NEW r \in Int
  PROVE  (a + b) * r = a * r + b * r
  OBVIOUS

LEMMA ProductNat ==
  ASSUME NEW a \in Nat, NEW r \in Nat
  PROVE  a * r \in Nat
  OBVIOUS

LEMMA CeilingReaches ==
  ASSUME NEW a \in Nat, NEW b \in Nat \ {0}
  PROVE  /\ (a + b - 1) \div b \in Nat
         /\ ((a + b - 1) \div b) * b >= a
  OBVIOUS
LEMMA ProductMono ==
  ASSUME NEW a \in Int, NEW b \in Int, a <= b, NEW r \in Nat
  PROVE  a * r <= b * r
  <1>1. (b - a) * r \in Nat
    BY ProductNat
  <1>2. b * r = (b - a) * r + a * r
    BY Distribute
  <1> QED BY <1>1, <1>2

LEMMA Constants ==
  /\ Cost \in Nat \ {0} /\ Capacity \in Nat /\ Capacity >= Cost
  /\ PerMinute \in Nat \ {0} /\ PerMinute * TicksPerSecond \in Nat \ {0}
  <1>1. Cost \in Nat \ {0}
    BY RateAssumption DEF Cost
  <1>2. (IF Burst > 1 THEN Burst ELSE 1) \in Nat /\ 1 <= (IF Burst > 1 THEN Burst ELSE 1)
    BY RateAssumption
  <1>3. Capacity \in Nat /\ Capacity >= Cost
    <2>1. 1 * Cost <= (IF Burst > 1 THEN Burst ELSE 1) * Cost
      BY <1>1, <1>2, ProductMono
    <2> QED BY <1>1, <1>2, <2>1, ProductNat DEF Capacity
  <1>4. PerMinute * TicksPerSecond \in Nat \ {0}
    <2>1. 1 * TicksPerSecond <= PerMinute * TicksPerSecond
      BY RateAssumption, ProductMono
    <2> QED BY <2>1, RateAssumption, ProductNat
  <1> QED BY <1>1, <1>3, <1>4, RateAssumption

(* What a bucket holds after a time: not more than its capacity, and exactly
   what has come in since while it is not full. *)
LEMMA RefilledFacts ==
  ASSUME NEW b \in [tokens : 0..Capacity, last_refill : Nat],
         NEW t \in Nat, b.last_refill <= t
  PROVE  /\ Refilled(b, t) \in 0..Capacity
         /\ Refilled(b, t) <= b.tokens + (t - b.last_refill) * PerMinute
         /\ Refilled(b, t) < Capacity
              => Refilled(b, t) = b.tokens + (t - b.last_refill) * PerMinute
  <1> DEFINE elapsed == IF t > b.last_refill THEN t - b.last_refill ELSE 0
  <1>1. elapsed = t - b.last_refill /\ elapsed \in Nat
    OBVIOUS
  <1>2. elapsed * PerMinute \in Nat
    BY <1>1, Constants, ProductNat
  <1>3. b.tokens + elapsed * PerMinute \in Nat
    BY <1>2, Constants
  <1>4. Refilled(b, t) = IF b.tokens + elapsed * PerMinute < Capacity
                         THEN b.tokens + elapsed * PerMinute ELSE Capacity
    BY DEF Refilled
  <1> HIDE DEF elapsed
  <1> QED BY <1>1, <1>3, <1>4, Constants

(* Whoever is refused with so many parts of a request has the rest after the
   seconds he is told. *)
LEMMA RetryAfterSuffices ==
  ASSUME NEW tokens \in Nat, tokens < Cost
  PROVE  /\ RetryAfter(tokens) * TicksPerSecond \in Nat
         /\ tokens + (RetryAfter(tokens) * TicksPerSecond) * PerMinute >= Cost
  <1> DEFINE second == PerMinute * TicksPerSecond
             seconds == (Cost - tokens + second - 1) \div second
  <1>1. second \in Nat \ {0} /\ Cost - tokens \in Nat
    BY Constants
  <1> HIDE DEF second
  <1>2. seconds \in Nat /\ seconds * second >= Cost - tokens
    BY <1>1, CeilingReaches
  <1>3. RetryAfter(tokens) = IF seconds < 1 THEN 1 ELSE seconds
    BY DEF RetryAfter, second
  <1> HIDE DEF seconds
  <1>4. RetryAfter(tokens) \in Nat /\ seconds <= RetryAfter(tokens)
    BY <1>2, <1>3
  <1>5. seconds * second <= RetryAfter(tokens) * second
    BY <1>1, <1>2, <1>4, ProductMono
  <1>6. RetryAfter(tokens) * second = (RetryAfter(tokens) * TicksPerSecond) * PerMinute
    BY <1>4, RateAssumption DEF second
  <1>7. RetryAfter(tokens) * TicksPerSecond \in Nat
    BY <1>4, RateAssumption, ProductNat
  <1>8. RetryAfter(tokens) * second \in Nat
    BY <1>1, <1>4, ProductNat
  <1>9. seconds * second \in Nat
    BY <1>1, <1>2, ProductNat
  <1> QED BY <1>1, <1>2, <1>5, <1>6, <1>7, <1>8, <1>9, Constants

-----------------------------------------------------------------------------
(* What a bucket, a window and a promise say at the moment of the last request:
   - a user without a bucket has not been let through;
   - what was granted in the window and what is left came out of one capacity
     and what was refilled since the window began;
   - at the promised moment there will be a whole request. *)
WindowInv(u) ==
  IF buckets[u] # NoBucket /\ opened[u] <= buckets[u].last_refill
  THEN buckets[u].tokens + Cost * granted[u]
         <= Capacity + (buckets[u].last_refill - opened[u]) * PerMinute
  ELSE granted[u] = 0

DueInv(u) ==
  due[u] # NoTime /\ buckets[u] # NoBucket =>
    IF buckets[u].last_refill <= due[u]
    THEN buckets[u].tokens + (due[u] - buckets[u].last_refill) * PerMinute >= Cost
    ELSE buckets[u].tokens >= Cost

BucketInv == \A u \in Users : WindowInv(u) /\ DueInv(u)

Inv == RateTypeOK /\ BucketInv

(* A bucket, or the new one of a user without, as the request finds it. *)
LEMMA BucketOfType ==
  ASSUME RateTypeOK, NEW u \in Users
  PROVE  /\ BucketOf(u) \in [tokens : 0..Capacity, last_refill : Nat]
         /\ BucketOf(u).last_refill <= now
         /\ buckets[u] # NoBucket => BucketOf(u) = buckets[u] /\ buckets[u] \in Bucket
         /\ buckets[u] = NoBucket => BucketOf(u) = [tokens |-> Capacity, last_refill |-> now]
         /\ Available(u) \in 0..Capacity
         /\ Available(u) <= BucketOf(u).tokens + (now - BucketOf(u).last_refill) * PerMinute
         /\ Available(u) < Capacity => Available(u) =
              BucketOf(u).tokens + (now - BucketOf(u).last_refill) * PerMinute
  <1>1. CASE buckets[u] = NoBucket
    <2>1. BucketOf(u) = [tokens |-> Capacity, last_refill |-> now]
      BY <1>1 DEF BucketOf
    <2>2. BucketOf(u) \in [tokens : 0..Capacity, last_refill : Nat] /\ BucketOf(u).last_refill <= now
      BY <2>1, Constants DEF RateTypeOK
    <2> QED BY <1>1, <2>1, <2>2, RefilledFacts DEF Available, RateTypeOK
  <1>2. CASE buckets[u] # NoBucket
    <2>1. BucketOf(u) = buckets[u] /\ buckets[u] \in Bucket
      BY <1>2 DEF BucketOf, RateTypeOK
    <2>2. BucketOf(u) \in [tokens : 0..Capacity, last_refill : Nat] /\ BucketOf(u).last_refill <= now
      BY <2>1 DEF Bucket, RateTypeOK
    <2> QED BY <1>2, <2>1, <2>2, RefilledFacts DEF Available, RateTypeOK
  <1> QED BY <1>1, <1>2

(* The two inequalities at the moment of a request, before it is answered. *)
LEMMA AtRequest ==
  ASSUME Inv, NEW u \in Users
  PROVE  /\ granted[u] \in Nat /\ opened[u] \in 0..now
         /\ Available(u) + Cost * granted[u] <= Capacity + (now - opened[u]) * PerMinute
         /\ due[u] # NoTime /\ now >= due[u] => Available(u) >= Cost
         /\ due[u] # NoTime /\ now < due[u] /\ Available(u) < Cost =>
              Available(u) + (due[u] - now) * PerMinute >= Cost
  <1> DEFINE A == Available(u)
             since == (now - opened[u]) * PerMinute
  <1>1. /\ now \in Nat /\ opened[u] \in 0..now /\ granted[u] \in Nat
        /\ due[u] \in Nat \cup {NoTime} /\ A \in 0..Capacity
    BY BucketOfType DEF Inv, RateTypeOK
  <1>2. since \in Nat /\ Cost * granted[u] \in Nat
    BY <1>1, Constants, ProductNat
  <1>3. CASE buckets[u] = NoBucket
    <2>1. granted[u] = 0
      BY <1>3 DEF Inv, BucketInv, WindowInv
    <2>2. Cost * granted[u] = 0
      BY <2>1, Constants
    <2>3. A = Capacity
      <3>1. BucketOf(u).tokens = Capacity /\ BucketOf(u).last_refill = now
        BY <1>3, BucketOfType DEF Inv
      <3> DEFINE refill == (now - BucketOf(u).last_refill) * PerMinute
      <3>2. refill = 0
        BY <3>1, <1>1, Constants
      <3>3. A < Capacity => A = BucketOf(u).tokens + refill
        BY BucketOfType DEF Inv
      <3> HIDE DEF A, refill
      <3> QED BY <3>1, <3>2, <3>3, <1>1, Constants
    <2>4. A >= Cost
      BY <2>3, Constants
    <2>5. A + Cost * granted[u] <= Capacity + since
      <3> HIDE DEF A, since
      <3> QED BY <2>2, <2>3, <1>1, <1>2, Constants
    <2>6. ~ (A < Cost)
      <3> HIDE DEF A
      <3> QED BY <2>4, <1>1, Constants
    <2> QED BY <1>1, <2>4, <2>5, <2>6
  <1>4. CASE buckets[u] # NoBucket
    <2> DEFINE last == buckets[u].last_refill
               left == buckets[u].tokens
               refill == (now - last) * PerMinute
    <2>1. last \in 0..now /\ left \in 0..Capacity
      BY <1>4, BucketOfType DEF Inv, Bucket
    <2>2. A <= left + refill /\ (A < Capacity => A = left + refill)
      BY <1>4, BucketOfType DEF Inv
    <2>3. refill \in Nat
      BY <2>1, <1>1, Constants, ProductNat
    <2>4. A + Cost * granted[u] <= Capacity + since
      <3>1. CASE opened[u] <= last
        <4>1. left + Cost * granted[u] <= Capacity + (last - opened[u]) * PerMinute
          BY <3>1, <1>4 DEF Inv, BucketInv, WindowInv
        <4>2. since = refill + (last - opened[u]) * PerMinute
          <5>1. now - opened[u] = (now - last) + (last - opened[u])
            BY <1>1, <2>1
          <5> QED BY <5>1, <1>1, <2>1, Constants, Distribute
        <4>3. (last - opened[u]) * PerMinute \in Nat
          BY <3>1, <1>1, <2>1, Constants, ProductNat
        <4> HIDE DEF A, since, last, left, refill
        <4> QED BY <4>1, <4>2, <4>3, <2>1, <2>2, <2>3, <1>1, <1>2, Constants
      <3>2. CASE ~(opened[u] <= last)
        <4>1. granted[u] = 0
          BY <3>2 DEF Inv, BucketInv, WindowInv
        <4>2. Cost * granted[u] = 0
          BY <4>1, Constants
        <4> HIDE DEF A, since
        <4> QED BY <4>2, <1>1, <1>2, Constants
      <3> QED BY <3>1, <3>2
    <2>5. ASSUME due[u] # NoTime, now >= due[u]
          PROVE  A >= Cost
      <3>1. CASE last <= due[u]
        <4>1. left + (due[u] - last) * PerMinute >= Cost
          BY <3>1, <1>4, <2>5 DEF Inv, BucketInv, DueInv
        <4>2. due[u] \in Nat
          BY <1>1, <2>5
        <4>3. (due[u] - last) * PerMinute <= refill
          BY <4>2, <2>1, <2>5, <1>1, Constants, ProductMono
        <4>4. (due[u] - last) * PerMinute \in Nat
          BY <4>2, <3>1, <2>1, <1>1, Constants, ProductNat
        <4> HIDE DEF A, last, left, refill
        <4> QED BY <4>1, <4>3, <4>4, <2>1, <2>2, <2>3, <1>1, Constants
      <3>2. CASE ~(last <= due[u])
        <4>1. left >= Cost
          BY <3>2, <1>4, <2>5 DEF Inv, BucketInv, DueInv
        <4> HIDE DEF A, last, left, refill
        <4> QED BY <4>1, <2>1, <2>2, <2>3, <1>1, Constants
      <3> QED BY <3>1, <3>2
    <2>6. ASSUME due[u] # NoTime, now < due[u], A < Cost
          PROVE  A + (due[u] - now) * PerMinute >= Cost
      <3>1. due[u] \in Nat /\ last <= due[u]
        BY <1>1, <2>1, <2>6
      <3>2. left + (due[u] - last) * PerMinute >= Cost
        BY <3>1, <1>4, <2>6 DEF Inv, BucketInv, DueInv
      <3>3. (due[u] - last) * PerMinute = refill + (due[u] - now) * PerMinute
        <4>1. due[u] - last = (now - last) + (due[u] - now)
          BY <3>1, <2>1, <1>1
        <4> QED BY <4>1, <3>1, <2>1, <1>1, Constants, Distribute
      <3>4. (due[u] - now) * PerMinute \in Nat
        BY <3>1, <2>6, <1>1, Constants, ProductNat
      <3>5. A = left + refill
        BY <2>2, <2>6, <1>1, Constants
      <3> HIDE DEF A, last, left, refill
      <3> QED BY <3>2, <3>3, <3>4, <3>5, <2>1, <2>3
    <2> QED BY <1>1, <2>4, <2>5, <2>6
  <1> QED BY <1>3, <1>4

-----------------------------------------------------------------------------
LEMMA InitInv == Init => Inv
  BY DEF Init, Inv, RateTypeOK, BucketInv, WindowInv, DueInv, NoTime

(* What a request leaves behind, let through or refused. *)
LEMMA RequestKeepsInv ==
  ASSUME Inv, NEW u \in Users, Allow(u) \/ Refuse(u), UNCHANGED <<now, opened>>
  PROVE  Inv'
  <1> DEFINE A == Available(u)
             since == (now - opened[u]) * PerMinute
  <1>1. /\ now \in Nat /\ opened[u] \in 0..now /\ granted[u] \in Nat
        /\ A \in 0..Capacity /\ A + Cost * granted[u] <= Capacity + since
    BY AtRequest, BucketOfType DEF Inv, RateTypeOK
  <1>2. since \in Nat /\ Cost * granted[u] \in Nat
    BY <1>1, Constants, ProductNat
  <1>3. \A w \in Users : w # u => /\ buckets'[w] = buckets[w] /\ granted'[w] = granted[w]
                                  /\ due'[w] = due[w]
    BY DEF Allow, Refuse, Keep, Inv, RateTypeOK
  <1>4. \A w \in Users : w # u => WindowInv(w)' /\ DueInv(w)'
    BY <1>3 DEF Inv, BucketInv, WindowInv, DueInv
  <1>5. CASE Allow(u)
    <2>1. A >= Cost /\ A - Cost \in 0..Capacity
      BY <1>5, <1>1, Constants DEF Allow
    <2>2. /\ buckets' = [buckets EXCEPT ![u] = [tokens |-> A - Cost, last_refill |-> now]]
          /\ granted' = [granted EXCEPT ![u] = @ + 1] /\ due' = [due EXCEPT ![u] = NoTime]
      BY <1>5 DEF Allow, Keep
    <2> HIDE DEF A
    <2>3. RateTypeOK'
      <3>1. [tokens |-> A - Cost, last_refill |-> now] \in Bucket
        BY <2>1, <1>1 DEF Bucket
      <3> QED BY <3>1, <2>2, <1>1 DEF Inv, RateTypeOK, Bucket
    <2>4. WindowInv(u)'
      <3>1. /\ buckets'[u] = [tokens |-> A - Cost, last_refill |-> now]
            /\ granted'[u] = granted[u] + 1 /\ opened'[u] = opened[u]
        BY <2>2 DEF Inv, RateTypeOK
      <3>2. Cost * (granted[u] + 1) = Cost * granted[u] + Cost
        BY <1>1, Constants
      <3>3. buckets'[u] # NoBucket /\ opened'[u] <= buckets'[u].last_refill
        BY <3>1, <2>1, <1>1 DEF NoBucket
      <3>4. (buckets'[u].last_refill - opened'[u]) * PerMinute = since
        BY <3>1
      <3> HIDE DEF since
      <3>5. (A - Cost) + Cost * granted'[u] <= Capacity + since
        BY <3>1, <3>2, <1>1, <1>2, <2>1, Constants
      <3> QED BY <3>1, <3>3, <3>4, <3>5 DEF WindowInv
    <2>5. DueInv(u)'
      BY <2>2 DEF DueInv, Inv, RateTypeOK
    <2> QED BY <1>4, <2>3, <2>4, <2>5 DEF Inv, BucketInv
  <1>6. CASE Refuse(u)
    <2> DEFINE wait == RetryAfter(A) * TicksPerSecond
    <2>1. A < Cost
      BY <1>6 DEF Refuse
    <2>2. /\ buckets' = [buckets EXCEPT ![u] = [tokens |-> A, last_refill |-> now]]
          /\ granted' = granted
          /\ due' = [due EXCEPT ![u] = IF @ # NoTime THEN @ ELSE now + wait]
      BY <1>6 DEF Refuse, Keep
    <2>3. wait \in Nat /\ A + wait * PerMinute >= Cost
      <3>1. A \in Nat
        BY <1>1, Constants
      <3> HIDE DEF A
      <3> QED BY <3>1, <2>1, RetryAfterSuffices
    <2>4. due[u] \in Nat \cup {NoTime}
      BY DEF Inv, RateTypeOK
    <2>5. due[u] # NoTime => now < due[u] /\ A + (due[u] - now) * PerMinute >= Cost
      <3>1. due[u] # NoTime /\ now >= due[u] => A >= Cost
        BY AtRequest
      <3>2. due[u] # NoTime /\ now < due[u] /\ A < Cost =>
              A + (due[u] - now) * PerMinute >= Cost
        BY AtRequest
      <3>3. due[u] # NoTime => due[u] \in Nat
        BY <2>4
      <3>4. due[u] # NoTime => now < due[u]
        <4> HIDE DEF A
        <4> QED BY <3>1, <3>3, <2>1, <1>1, Constants
      <3> QED BY <3>2, <3>4, <2>1
    <2> HIDE DEF A, wait
    <2>6. RateTypeOK'
      <3>1. [tokens |-> A, last_refill |-> now] \in Bucket
        BY <1>1 DEF Bucket
      <3> QED BY <3>1, <2>2, <2>3, <1>1 DEF Inv, RateTypeOK, Bucket
    <2>7. /\ buckets'[u] = [tokens |-> A, last_refill |-> now] /\ granted'[u] = granted[u]
          /\ opened'[u] = opened[u]
          /\ due'[u] = IF due[u] # NoTime THEN due[u] ELSE now + wait
      BY <2>2 DEF Inv, RateTypeOK
    <2>8. buckets'[u] # NoBucket /\ opened'[u] <= buckets'[u].last_refill
      BY <2>7, <1>1 DEF NoBucket
    <2>9. WindowInv(u)'
      BY <2>7, <2>8, <1>1 DEF WindowInv
    <2>10. DueInv(u)'
      <3>1. CASE due[u] # NoTime
        <4>1. /\ buckets'[u].last_refill = now /\ buckets'[u].tokens = A
              /\ due'[u] = due[u] /\ now <= due[u]
          BY <3>1, <2>4, <2>5, <2>7, <1>1
        <4>2. A + (due'[u] - buckets'[u].last_refill) * PerMinute >= Cost
          BY <3>1, <4>1, <2>5
        <4> QED BY <4>1, <4>2 DEF DueInv
      <3>2. CASE due[u] = NoTime
        <4>1. due'[u] = now + wait /\ (now + wait) - now = wait /\ now <= now + wait
          BY <3>2, <2>7, <2>3, <1>1
        <4> QED BY <4>1, <2>3, <2>7 DEF DueInv
      <3> QED BY <3>1, <3>2
    <2> QED BY <1>4, <2>6, <2>9, <2>10 DEF Inv, BucketInv
  <1> QED BY <1>5, <1>6

LEMMA NextInv == Inv /\ [Next]_vars => Inv'
  <1> SUFFICES ASSUME Inv, [Next]_vars
               PROVE  Inv'
    OBVIOUS
  <1>1. CASE UNCHANGED vars
    BY <1>1 DEF vars, Inv, RateTypeOK, Bucket, BucketInv, WindowInv, DueInv
  <1>2. CASE Tick
    <2>1. now' = now + 1 /\ UNCHANGED <<buckets, opened, granted, due>>
      BY <1>2 DEF Tick
    <2>2. RateTypeOK'
      BY <2>1 DEF Inv, RateTypeOK, Bucket
    <2> QED BY <2>1, <2>2 DEF Inv, BucketInv, WindowInv, DueInv
  <1>3. ASSUME NEW u \in Users, Open(u)
        PROVE  Inv'
    <2>1. /\ opened' = [opened EXCEPT ![u] = now] /\ granted' = [granted EXCEPT ![u] = 0]
          /\ UNCHANGED <<now, buckets, due>>
      BY <1>3 DEF Open
    <2>2. RateTypeOK'
      BY <2>1 DEF Inv, RateTypeOK, Bucket
    <2>3. opened'[u] = now /\ granted'[u] = 0
      BY <2>1 DEF Inv, RateTypeOK
    <2>4. WindowInv(u)'
      <3>1. CASE buckets[u] # NoBucket /\ now <= buckets[u].last_refill
        <4>1. buckets[u].tokens \in 0..Capacity /\ buckets[u].last_refill = now
          BY <3>1 DEF Inv, RateTypeOK, Bucket
        <4>2. Cost * granted'[u] = 0 /\ (buckets[u].last_refill - now) * PerMinute = 0
          BY <4>1, <2>3, Constants DEF Inv, RateTypeOK
        <4>3. buckets[u].tokens + Cost * granted'[u]
                <= Capacity + (buckets[u].last_refill - now) * PerMinute
          BY <4>1, <4>2, Constants
        <4> QED BY <4>3, <2>1, <2>3, <3>1 DEF WindowInv
      <3>2. CASE ~(buckets[u] # NoBucket /\ now <= buckets[u].last_refill)
        BY <3>2, <2>1, <2>3 DEF WindowInv
      <3> QED BY <3>1, <3>2
    <2>5. \A w \in Users : w # u => opened'[w] = opened[w] /\ granted'[w] = granted[w]
      BY <2>1 DEF Inv, RateTypeOK
    <2>6. \A w \in Users : w # u => WindowInv(w)'
      BY <2>1, <2>5 DEF Inv, BucketInv, WindowInv
    <2>7. \A w \in Users : DueInv(w)'
      BY <2>1 DEF Inv, BucketInv, DueInv
    <2> QED BY <2>2, <2>4, <2>6, <2>7 DEF Inv, BucketInv
  <1>4. CASE Restart
    <2>1. /\ buckets' = [u \in Users |-> NoBucket] /\ opened' = [u \in Users |-> now]
          /\ granted' = [u \in Users |-> 0] /\ UNCHANGED <<now, due>>
      BY <1>4 DEF Restart
    <2>2. RateTypeOK'
      BY <2>1 DEF Inv, RateTypeOK, Bucket
    <2> QED BY <2>1, <2>2 DEF Inv, BucketInv, WindowInv, DueInv
  <1>5. ASSUME NEW path \in Paths, NEW token \in Tokens, dispatch(path, token)
        PROVE  Inv'
    <2>1. CASE UNCHANGED vars
      BY <2>1, <1>1
    <2>2. CASE token \in DOMAIN api_key_map
               /\ (Allow(api_key_map[token]) \/ Refuse(api_key_map[token]))
               /\ UNCHANGED <<now, opened>>
      <3>1. api_key_map[token] \in Users
        BY <2>2 DEF Users
      <3> QED BY <3>1, <2>2, RequestKeepsInv
    <2> QED BY <1>5, <2>1, <2>2 DEF dispatch
  <1> QED BY <1>1, <1>2, <1>3, <1>4, <1>5 DEF Next

\* The bounds of the bucket, of the window and of the promise hold in every state,
\* whatever requests, ticks and restarts come.
THEOREM InvHolds == Spec => []Inv
  BY InitInv, NextInv, PTL DEF Spec

(* Every bucket stays between nothing and its capacity, whatever the rate. *)
THEOREM RateTypeCorrect == Spec => []RateTypeOK
  BY InvHolds, PTL DEF Inv

(* The bound of the limiter, for every stretch of time, rate and burst. *)
THEOREM WindowBounded == Spec => []WindowBound
  <1>1. Inv => WindowBound
    <2> SUFFICES ASSUME Inv, NEW u \in Users
                 PROVE  Cost * granted[u] <= Capacity + (now - opened[u]) * PerMinute
      BY DEF WindowBound
    <2> DEFINE since == (now - opened[u]) * PerMinute
    <2>1. Available(u) + Cost * granted[u] <= Capacity + since /\ Available(u) \in 0..Capacity
      BY AtRequest, BucketOfType DEF Inv
    <2>2. since \in Nat /\ Cost * granted[u] \in Nat
      BY AtRequest, Constants, ProductNat DEF Inv, RateTypeOK
    <2> HIDE DEF since
    <2>3. Cost * granted[u] <= Capacity + since
      BY <2>1, <2>2, Constants
    <2> QED BY <2>3 DEF since
  <1> QED BY <1>1, InvHolds, PTL

(* Retry-After is enough, for every rate, however the seconds round. *)
THEOREM RetryAfterKept == Spec => []RetryAfterHonoured
  <1>1. Inv => RetryAfterHonoured
    BY AtRequest DEF RetryAfterHonoured
  <1> QED BY <1>1, InvHolds, PTL
=============================================================================
