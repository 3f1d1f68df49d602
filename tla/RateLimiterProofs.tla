------------------------- MODULE RateLimiterProofs -------------------------
(***************************************************************************)
(* Proofs about the concurrency gate and the two rate limiters             *)
(* (RateLimiter), for every number of requests and tenants, every tier and *)
(* either backend: the gate counts exactly, a waited-out Retry-After is    *)
(* honoured, and the lazy, swept, expiring buckets are those of            *)
(* TokenBuckets.                                                           *)
(***************************************************************************)
EXTENDS RateLimiter, FiniteSetTheorems, TLAPS

-----------------------------------------------------------------------------
(* Arithmetic *)

\* Least and greatest of two.
LEMMA MinOfTwo ==
    ASSUME NEW a \in Int, NEW b \in Int
    PROVE  Min({a, b}) = IF a <= b THEN a ELSE b
<1>1. \E x \in {a, b} : \A y \in {a, b} : x <= y
  OBVIOUS
<1> QED BY <1>1 DEF Min

LEMMA MaxOfTwo ==
    ASSUME NEW a \in Int, NEW b \in Int
    PROVE  Max({a, b}) = IF a >= b THEN a ELSE b
<1>1. \E x \in {a, b} : \A y \in {a, b} : x >= y
  OBVIOUS
<1> QED BY <1>1 DEF Max

\* The greatest of a value per dimension.
LEMMA MaxOverDims ==
    ASSUME NEW D \in SUBSET Dims, D # {}, NEW f, \A d \in D : f[d] \in Nat
    PROVE  /\ Max({f[d] : d \in D}) \in Nat
           /\ \A e \in D : f[e] <= Max({f[d] : d \in D})
<1> DEFINE S == {f[d] : d \in D}
<1>1. \E x \in S : \A y \in S : x >= y
  <2>1. D = {"rpm"} \/ D = {"tpm"} \/ D = {"rpm", "tpm"}
    BY DEF Dims
  <2>2. CASE D = {"rpm"}
    BY <2>2
  <2>3. CASE D = {"tpm"}
    BY <2>3
  <2>4. CASE D = {"rpm", "tpm"}
    <3>1. f["rpm"] \in Nat /\ f["tpm"] \in Nat /\ f["rpm"] \in S /\ f["tpm"] \in S
      BY <2>4
    <3>2. \A y \in S : y = f["rpm"] \/ y = f["tpm"]
      BY <2>4
    <3> HIDE DEF S
    <3>3. CASE f["rpm"] >= f["tpm"]
      <4>1. \A y \in S : f["rpm"] >= y
        BY <3>1, <3>2, <3>3
      <4> QED BY <3>1, <4>1
    <3>4. CASE f["tpm"] >= f["rpm"]
      <4>1. \A y \in S : f["tpm"] >= y
        BY <3>1, <3>2, <3>4
      <4> QED BY <3>1, <4>1
    <3> QED BY <3>1, <3>3, <3>4
  <2> QED BY <2>1, <2>2, <2>3, <2>4
<1>2. Max(S) \in S /\ \A y \in S : Max(S) >= y
  BY <1>1 DEF Max
<1>3. \A d \in D : f[d] \in S
  OBVIOUS
<1>4. S \subseteq Nat
  OBVIOUS
<1> QED BY <1>2, <1>3, <1>4

\* Products grow with their factors.
LEMMA Scaled ==
    ASSUME NEW a \in Nat, NEW b \in Nat, NEW c \in Nat, a <= b
    PROVE  a * c <= b * c /\ a * c \in Nat /\ b * c \in Nat
OBVIOUS

\* A rounded-up quotient covers the dividend.
LEMMA CeilCovers ==
    ASSUME NEW a \in Nat, NEW b \in Nat \ {0}
    PROVE  CeilDiv(a, b) \in Nat /\ CeilDiv(a, b) * b >= a
<1>1. ASSUME NEW x \in Nat PROVE x \div b \in Nat /\ (x \div b) * b <= x /\ x < (x \div b) * b + b
  OBVIOUS
<1>2. a + b - 1 \in Nat
  OBVIOUS
<1> QED BY <1>1, <1>2 DEF CeilDiv

-----------------------------------------------------------------------------
(* The levels *)

\* What a stored bucket of capacity cap holds now.
LevelOf(b, cap) ==
    IF b = Absent THEN cap * Minute
    ELSE IF cap > 0 THEN Min({cap * Minute, b.tokens + b.age * cap})
    ELSE b.tokens

\* A bucket that was stored holds no more than its capacity.
Sound(b, cap) ==
    \/ b = Absent
    \/ /\ b \in [tokens : Nat, age : 0 .. Horizon]
       /\ b.tokens <= cap * Minute

\* What the assumptions say of a tier.
LEMMA Ceilings ==
    /\ Minute \in Nat \ {0} /\ WideMax \in Nat /\ Horizon = 2 * Minute
    /\ \A t \in Tenants, d \in Dims :
        /\ Capacity[t][d] \in 0 .. WideMax
        /\ Capacity[t][d] * Minute \in 0 .. WideMax * Minute
        /\ Full(t, d) = Capacity[t][d] * Minute
<1>1. Minute \in Nat \ {0} /\ WideMax \in Nat /\ Horizon = 2 * Minute
  BY LimiterAssumption DEF LimiterAssumption, Horizon
<1>2. ASSUME NEW t \in Tenants, NEW d \in Dims
      PROVE  Capacity[t][d] \in 0 .. WideMax
  BY <1>2, LimiterAssumption DEF LimiterAssumption, Capacity, Dims
<1>3. ASSUME NEW t \in Tenants, NEW d \in Dims
      PROVE  Capacity[t][d] * Minute \in 0 .. WideMax * Minute
  BY <1>1, <1>2, <1>3, Scaled
<1> QED BY <1>1, <1>2, <1>3 DEF Full

LEMMA LevelIs ==
    ASSUME NEW t \in Tenants, NEW d \in Dims
    PROVE  /\ Level(t, d) = LevelOf(bucket[t][d], Capacity[t][d])
           /\ Level(t, d)' = LevelOf(bucket'[t][d], Capacity[t][d])
BY DEF Level, LevelOf, Full

\* A level is within the capacity.
LEMMA LevelBounds ==
    ASSUME NEW cap \in Nat, NEW b, Sound(b, cap)
    PROVE  /\ LevelOf(b, cap) \in 0 .. cap * Minute
           /\ cap = 0 => LevelOf(b, cap) = 0
<1> USE Ceilings
<1>1. cap * Minute \in Nat
  OBVIOUS
<1>2. CASE b = Absent
  BY <1>1, <1>2 DEF LevelOf
<1>3. CASE b # Absent
  <2>1. b.tokens \in Nat /\ b.tokens <= cap * Minute /\ b.age * cap \in Nat
    BY <1>3, <1>1 DEF Sound
  <2>2. CASE cap > 0
    <3>1. LevelOf(b, cap) = Min({cap * Minute, b.tokens + b.age * cap})
      BY <1>3, <2>2 DEF LevelOf
    <3>2. PICK full \in Nat, x \in Nat : full = cap * Minute /\ x = b.tokens + b.age * cap
      BY <1>1, <2>1
    <3>3. Min({full, x}) \in 0 .. full
      BY MinOfTwo
    <3> QED BY <3>1, <3>2, <3>3, <2>2
  <2>3. CASE cap = 0
    <3>1. cap * Minute = 0 /\ b.tokens = 0
      BY <2>1, <2>3
    <3> QED BY <1>3, <2>3, <3>1 DEF LevelOf
  <2> QED BY <2>2, <2>3
<1> QED BY <1>2, <1>3

\* A bucket just refilled holds what was put in.
LEMMA LevelFresh ==
    ASSUME NEW cap \in Nat, NEW n \in 0 .. cap * Minute
    PROVE  /\ LevelOf([tokens |-> n, age |-> 0], cap) = n
           /\ Sound([tokens |-> n, age |-> 0], cap)
<1> USE Ceilings
<1> DEFINE b == [tokens |-> n, age |-> 0]
<1>1. b # Absent /\ b.tokens = n /\ b.age = 0 /\ b \in [tokens : Nat, age : 0 .. Horizon]
  BY DEF Absent
<1>2. cap * Minute \in Nat /\ n + 0 * cap = n
  OBVIOUS
<1>3. Min({cap * Minute, n}) = n
  BY <1>2, MinOfTwo
<1> HIDE DEF b
<1> QED BY <1>1, <1>2, <1>3 DEF LevelOf, Sound, b

\* A bucket that was idle for the horizon is full: dropping it changes nothing.
LEMMA IdleIsFull ==
    ASSUME NEW cap \in Nat, NEW b, Sound(b, cap), IdleOut(b)
    PROVE  LevelOf(b, cap) = cap * Minute
<1> USE Ceilings
<1>1. b # Absent /\ b.age = 2 * Minute /\ b.tokens \in Nat /\ b.tokens <= cap * Minute
  BY DEF Sound, IdleOut
<1>2. cap * Minute \in Nat /\ (2 * Minute) * cap = 2 * (cap * Minute)
  OBVIOUS
<1>3. CASE cap > 0
  <2>1. cap * Minute <= b.tokens + b.age * cap /\ b.tokens + b.age * cap \in Int
    BY <1>1, <1>2
  <2> QED BY <1>1, <1>2, <1>3, <2>1, MinOfTwo DEF LevelOf
<1>4. CASE cap = 0
  BY <1>1, <1>2, <1>4 DEF LevelOf
<1> QED BY <1>3, <1>4

\* A second raises a level by the capacity, up to full, and a bucket that
\* reaches the horizon is full.
LEMMA LevelAged ==
    ASSUME NEW cap \in Nat, NEW b, Sound(b, cap)
    PROVE  /\ Sound(Aged(b), cap)
           /\ LevelOf(Aged(b), cap) = Min({cap * Minute, LevelOf(b, cap) + cap})
<1> USE Ceilings
<1> DEFINE full == cap * Minute
<1>0. full \in Nat /\ full <= full + cap /\ Min({full, full + cap}) = full /\ Min({full, full}) = full
  BY MinOfTwo
<1>1. CASE b = Absent
  BY <1>1, <1>0 DEF Aged, LevelOf, Sound
<1>2. CASE b # Absent
  <2>1. /\ b \in [tokens : Nat, age : 0 .. Horizon]
        /\ b.tokens <= full /\ b.age \in Nat /\ b.tokens \in Nat
    BY <1>2 DEF Sound
  <2>2. Min({Horizon, b.age + 1}) = IF b.age < Horizon THEN b.age + 1 ELSE Horizon
    BY <2>1, MinOfTwo
  <2>3. PICK a : a = Min({Horizon, b.age + 1})
    OBVIOUS
  <2>4. /\ a \in 0 .. Horizon
        /\ b.age < Horizon => a = b.age + 1
        /\ b.age >= Horizon => a = Horizon
    BY <2>1, <2>2, <2>3
  <2>5. Aged(b) = [b EXCEPT !.age = a]
    BY <1>2, <2>3 DEF Aged
  <2>6. /\ Aged(b) \in [tokens : Nat, age : 0 .. Horizon]
        /\ Aged(b).tokens = b.tokens /\ Aged(b).age = a /\ Aged(b) # Absent
    BY <2>1, <2>4, <2>5 DEF Absent
  <2>7. Sound(Aged(b), cap)
    BY <2>1, <2>6 DEF Sound
  <2>8. CASE cap = 0
    <3>1. full = 0 /\ b.tokens = 0
      BY <2>1, <2>8
    <3> QED BY <2>6, <2>7, <2>8, <1>2, <3>1, <1>0 DEF LevelOf
  <2>9. CASE cap > 0 /\ b.age < Horizon
    <3>1. /\ b.age * cap \in Nat /\ (b.age + 1) * cap = b.age * cap + cap
      BY <2>1
    <3>2. LevelOf(Aged(b), cap) = Min({full, b.tokens + (b.age * cap + cap)})
      BY <2>4, <2>6, <2>9, <3>1 DEF LevelOf
    <3>3. LevelOf(b, cap) = Min({full, b.tokens + b.age * cap})
      BY <1>2, <2>9 DEF LevelOf
    <3> HIDE DEF full
    <3>4. PICK x \in Nat : x = b.age * cap
      BY <3>1
    <3>5. PICK y \in Nat : y = b.tokens + x
      BY <2>1
    <3>6. /\ Min({full, y}) = IF full <= y THEN full ELSE y
          /\ Min({full, y + cap}) = IF full <= y + cap THEN full ELSE y + cap
      BY <1>0, MinOfTwo
    <3>7. PICK l \in Nat : l = Min({full, y})
      BY <3>6, <1>0
    <3>8. Min({full, l + cap}) = IF full <= l + cap THEN full ELSE l + cap
      BY <1>0, MinOfTwo
    <3>9. Min({full, y + cap}) = Min({full, l + cap})
      BY <1>0, <3>6, <3>7, <3>8
    <3>10. b.tokens + (b.age * cap + cap) = y + cap /\ b.tokens + b.age * cap = y
      BY <2>1, <3>4, <3>5
    <3> QED BY <2>7, <3>2, <3>3, <3>7, <3>9, <3>10 DEF full
  <2>10. CASE cap > 0 /\ b.age >= Horizon
    <3>1. IdleOut(b) /\ IdleOut(Aged(b))
      BY <2>1, <2>4, <2>6, <2>10, <1>2 DEF IdleOut
    <3>2. LevelOf(b, cap) = full /\ LevelOf(Aged(b), cap) = full
      BY <3>1, <2>7, IdleIsFull
    <3> QED BY <3>2, <2>7, <1>0
  <2> QED BY <2>1, <2>8, <2>9, <2>10
<1> QED BY <1>1, <1>2

-----------------------------------------------------------------------------
(* What the operations do to the levels *)

\* A table of sound buckets.
Store(B) ==
    /\ B \in [Tenants -> [Dims -> [tokens : Int, age : Int]]]
    /\ \A t \in Tenants, d \in Dims : Sound(B[t][d], Capacity[t][d])

\* The levels of a table of sound buckets are within the capacities.
LEMMA StoreBounds ==
    ASSUME NEW B, Store(B), NEW t \in Tenants, NEW d \in Dims
    PROVE  /\ LevelOf(B[t][d], Capacity[t][d]) \in 0 .. Full(t, d)
           /\ Capacity[t][d] = 0 => LevelOf(B[t][d], Capacity[t][d]) = 0
BY LevelBounds, Ceilings DEF Store

\* Neither the sweep nor the refill changes a level.
LEMMA SweptKeeps ==
    ASSUME Store(bucket)
    PROVE  /\ Store(Swept)
           /\ \A u \in Tenants, d \in Dims :
                LevelOf(Swept[u][d], Capacity[u][d]) = Level(u, d)
<1>1. Absent \in [tokens : Int, age : Int] /\ \A cap : Sound(Absent, cap)
  BY DEF Absent, Sound
<1>2. Swept \in [Tenants -> [Dims -> [tokens : Int, age : Int]]]
  BY <1>1 DEF Swept, Store
<1>3. ASSUME NEW u \in Tenants, NEW d \in Dims
      PROVE  /\ Sound(Swept[u][d], Capacity[u][d])
             /\ LevelOf(Swept[u][d], Capacity[u][d]) = Level(u, d)
  <2>1. Sound(bucket[u][d], Capacity[u][d]) /\ Capacity[u][d] \in Nat
    BY Ceilings DEF Store
  <2>2. \/ Swept[u][d] = bucket[u][d]
        \/ Swept[u][d] = Absent /\ IdleOut(bucket[u][d])
    BY DEF Swept
  <2>3. CASE Swept[u][d] = bucket[u][d]
    BY <2>1, <2>3, LevelIs
  <2>4. CASE Swept[u][d] = Absent /\ IdleOut(bucket[u][d])
    BY <1>1, <2>1, <2>4, LevelIs, IdleIsFull DEF LevelOf
  <2> QED BY <2>2, <2>3, <2>4
<1> QED BY <1>2, <1>3 DEF Store

\* A refilled bucket is the one that was stored or a fresh one at its level.
LEMMA RefilledKeeps ==
    ASSUME Store(bucket), NEW t \in Tenants, NEW dims
    PROVE  /\ Refilled(t, dims) \in [Dims -> [tokens : Int, age : Int]]
           /\ \A d \in Dims :
                /\ Sound(Refilled(t, dims)[d], Capacity[t][d])
                /\ LevelOf(Refilled(t, dims)[d], Capacity[t][d]) = Level(t, d)
                /\ d \in dims /\ Capacity[t][d] > 0 =>
                     Refilled(t, dims)[d] = [tokens |-> Level(t, d), age |-> 0]
<1>1. ASSUME NEW d \in Dims
      PROVE  /\ Refilled(t, dims)[d] \in [tokens : Int, age : Int]
             /\ Sound(Refilled(t, dims)[d], Capacity[t][d])
             /\ LevelOf(Refilled(t, dims)[d], Capacity[t][d]) = Level(t, d)
  <2>1. /\ Sound(bucket[t][d], Capacity[t][d]) /\ Capacity[t][d] \in Nat
        /\ bucket[t][d] \in [tokens : Int, age : Int]
    BY Ceilings DEF Store
  <2>2. Level(t, d) \in 0 .. Capacity[t][d] * Minute
    BY <2>1, LevelBounds, LevelIs
  <2>3. CASE Refilled(t, dims)[d] = bucket[t][d]
    BY <2>1, <2>3, LevelIs
  <2>4. CASE Refilled(t, dims)[d] = [tokens |-> Level(t, d), age |-> 0]
    BY <2>1, <2>2, <2>4, LevelFresh, Ceilings
  <2> QED BY <2>3, <2>4 DEF Refilled
<1>2. \A d \in dims : d \in Dims /\ Capacity[t][d] > 0 =>
        Refilled(t, dims)[d] = [tokens |-> Level(t, d), age |-> 0]
  BY DEF Refilled
<1>3. Refilled(t, dims) = [d \in Dims |-> Refilled(t, dims)[d]]
  BY DEF Refilled
<1>4. Refilled(t, dims) \in [Dims -> [tokens : Int, age : Int]]
  BY <1>1, <1>3
<1> QED BY <1>1, <1>2, <1>4

LEMMA TouchedKeeps ==
    ASSUME Store(bucket), NEW t \in Tenants
    PROVE  /\ Store(Touched(t))
           /\ \A u \in Tenants, d \in Dims :
                LevelOf(Touched(t)[u][d], Capacity[u][d]) = Level(u, d)
           /\ \A d \in Dims : Capacity[t][d] > 0 =>
                Touched(t)[t][d] = [tokens |-> Level(t, d), age |-> 0]
<1>1. /\ Touched(t) \in [Tenants -> [Dims -> [tokens : Int, age : Int]]]
      /\ Touched(t)[t] = Refilled(t, Dims)
      /\ \A u \in Tenants : u # t => Touched(t)[u] = Swept[u]
  BY SweptKeeps, RefilledKeeps DEF Touched, Store
<1>2. /\ \A d \in Dims : /\ Sound(Touched(t)[t][d], Capacity[t][d])
                           /\ LevelOf(Touched(t)[t][d], Capacity[t][d]) = Level(t, d)
      /\ \A d \in Dims : Capacity[t][d] > 0 =>
           Touched(t)[t][d] = [tokens |-> Level(t, d), age |-> 0]
  <2>1. \A d \in Dims :
          /\ Sound(Refilled(t, Dims)[d], Capacity[t][d])
          /\ LevelOf(Refilled(t, Dims)[d], Capacity[t][d]) = Level(t, d)
          /\ d \in Dims /\ Capacity[t][d] > 0 =>
               Refilled(t, Dims)[d] = [tokens |-> Level(t, d), age |-> 0]
    BY RefilledKeeps
  <2> QED BY <1>1, <2>1
<1>3. \A u \in Tenants, d \in Dims :
        u # t => /\ Sound(Touched(t)[u][d], Capacity[u][d])
                 /\ LevelOf(Touched(t)[u][d], Capacity[u][d]) = Level(u, d)
  BY <1>1, SweptKeeps DEF Store
<1> QED BY <1>1, <1>2, <1>3 DEF Store

\* An admitted request is paid out of every limited dimension.
LEMMA DeductedPays ==
    ASSUME Store(bucket), NEW t \in Tenants, NEW n \in Nat, Affords(t, n)
    PROVE  /\ Store(Deducted(t, n))
           /\ \A u \in Tenants, d \in Dims :
                LevelOf(Deducted(t, n)[u][d], Capacity[u][d]) =
                    IF u = t /\ Capacity[t][d] > 0 THEN Level(t, d) - Price(n)[d] ELSE Level(u, d)
<1> DEFINE B == Deducted(t, n)
           T == Touched(t)
<1>1. /\ Store(T)
      /\ \A u \in Tenants, d \in Dims : LevelOf(T[u][d], Capacity[u][d]) = Level(u, d)
      /\ \A d \in Dims : Capacity[t][d] > 0 => T[t][d] = [tokens |-> Level(t, d), age |-> 0]
  BY TouchedKeeps
<1>2. /\ \A u \in Tenants : u # t => B[u] = T[u]
      /\ B[t] = Paid(t, n)
      /\ B = [u \in Tenants |-> B[u]]
  <2> HIDE DEF B, T
  <2>1. B = [T EXCEPT ![t] = Paid(t, n)]
    BY DEF B, T, Deducted
  <2>2. T \in [Tenants -> [Dims -> [tokens : Int, age : Int]]]
    BY <1>1 DEF Store
  <2> QED BY <2>1, <2>2
<1> HIDE DEF B, T
<1>3. ASSUME NEW d \in Dims
      PROVE  /\ B[t][d] \in [tokens : Int, age : Int]
             /\ Sound(B[t][d], Capacity[t][d])
             /\ LevelOf(B[t][d], Capacity[t][d]) =
                  IF Capacity[t][d] > 0 THEN Level(t, d) - Price(n)[d] ELSE Level(t, d)
  <2>1. CASE Capacity[t][d] > 0
    <3>1. /\ B[t][d] = [tokens |-> Level(t, d) - Price(n)[d], age |-> 0]
      BY <1>2, <2>1 DEF Paid
    <3>2. /\ Capacity[t][d] \in Nat
          /\ Level(t, d) \in 0 .. Capacity[t][d] * Minute
      BY Ceilings, StoreBounds, LevelIs
    <3>3. Price(n)[d] \in Nat
      BY Ceilings DEF Price, Dims
    <3>4. Level(t, d) >= Price(n)[d]
      BY <2>1, <3>2, <3>3 DEF Affords, Short
    <3>5. Level(t, d) - Price(n)[d] \in 0 .. Capacity[t][d] * Minute
      BY <3>2, <3>3, <3>4, Ceilings
    <3> QED BY <2>1, <3>1, <3>2, <3>5, LevelFresh
  <2>2. CASE ~(Capacity[t][d] > 0)
    <3>1. B[t][d] = T[t][d]
      BY <1>2, <2>2 DEF Paid, T
    <3> QED BY <1>1, <2>2, <3>1 DEF Store
  <2> QED BY <2>1, <2>2
<1>4. ASSUME NEW u \in Tenants, u # t
      PROVE  /\ B[u] \in [Dims -> [tokens : Int, age : Int]]
             /\ \A d \in Dims : /\ Sound(B[u][d], Capacity[u][d])
                                /\ LevelOf(B[u][d], Capacity[u][d]) = Level(u, d)
  BY <1>1, <1>2, <1>4 DEF Store
<1>5. B[t] \in [Dims -> [tokens : Int, age : Int]]
  <2>1. B[t] = [d \in Dims |-> B[t][d]]
    BY <1>2 DEF Paid
  <2> QED BY <2>1, <1>3
<1>6. B \in [Tenants -> [Dims -> [tokens : Int, age : Int]]]
  BY <1>2, <1>4, <1>5
<1> QED BY <1>3, <1>4, <1>6 DEF Store, B

\* A refund raises the token bucket of its tenant, up to full.
LEMMA RefundedPays ==
    ASSUME Store(bucket), NEW t \in Tenants, NEW n \in Nat, Capacity[t]["tpm"] > 0
    PROVE  /\ Store(Refunded(t, n))
           /\ \A u \in Tenants, d \in Dims :
                LevelOf(Refunded(t, n)[u][d], Capacity[u][d]) =
                    IF u = t /\ d = "tpm" THEN Min({Full(t, "tpm"), Level(t, "tpm") + n * Minute})
                    ELSE Level(u, d)
<1> DEFINE dims == IF backend = "memory" THEN Dims ELSE {"tpm"}
           now == Refilled(t, dims)
           top == Min({Full(t, "tpm"), Level(t, "tpm") + n * Minute})
           B == Refunded(t, n)
<1>1. /\ now \in [Dims -> [tokens : Int, age : Int]]
      /\ \A d \in Dims : /\ Sound(now[d], Capacity[t][d])
                         /\ LevelOf(now[d], Capacity[t][d]) = Level(t, d)
      /\ now["tpm"] = [tokens |-> Level(t, "tpm"), age |-> 0]
  BY RefilledKeeps DEF Dims
<1>2. /\ Capacity[t]["tpm"] \in Nat /\ Full(t, "tpm") = Capacity[t]["tpm"] * Minute
      /\ Full(t, "tpm") \in Nat /\ Level(t, "tpm") \in 0 .. Full(t, "tpm") /\ n * Minute \in Nat
  BY Ceilings, StoreBounds, LevelIs DEF Dims
<1>3. top \in 0 .. Capacity[t]["tpm"] * Minute
  BY <1>2, MinOfTwo
<1> DEFINE pair == [now EXCEPT !["tpm"] = [tokens |-> top, age |-> 0]]
<1>4. B = [bucket EXCEPT ![t] = pair]
  <2>1. B = [bucket EXCEPT ![t] = [now EXCEPT !.tpm.tokens =
                Min({Full(t, "tpm"), @ + n * Minute})]]
    BY DEF Refunded
  <2> HIDE DEF now
  <2>2. [now EXCEPT !.tpm.tokens = Min({Full(t, "tpm"), @ + n * Minute})]
          = [now EXCEPT !.tpm = [now["tpm"] EXCEPT !.tokens =
                Min({Full(t, "tpm"), now["tpm"].tokens + n * Minute})]]
    BY <1>1 DEF Dims
  <2>3. [now["tpm"] EXCEPT !.tokens = Min({Full(t, "tpm"), now["tpm"].tokens + n * Minute})]
          = [tokens |-> top, age |-> 0]
    BY <1>1
  <2> QED BY <2>1, <2>2, <2>3
<1> HIDE DEF B, now, top
<1>5. /\ pair \in [Dims -> [tokens : Int, age : Int]]
      /\ pair["tpm"] = [tokens |-> top, age |-> 0]
      /\ \A d \in Dims : d # "tpm" => pair[d] = now[d]
  BY <1>1, <1>3, <1>2, Ceilings DEF Dims
<1> HIDE DEF pair
<1>6. \A d \in Dims : /\ Sound(pair[d], Capacity[t][d])
                      /\ LevelOf(pair[d], Capacity[t][d]) =
                           IF d = "tpm" THEN top ELSE Level(t, d)
  BY <1>1, <1>2, <1>3, <1>5, LevelFresh
<1>7. /\ B \in [Tenants -> [Dims -> [tokens : Int, age : Int]]]
      /\ B[t] = pair
      /\ \A u \in Tenants : u # t => B[u] = bucket[u]
  BY <1>4, <1>5 DEF Store
<1>8. ASSUME NEW u \in Tenants, NEW d \in Dims, u # t
      PROVE  /\ Sound(B[u][d], Capacity[u][d])
             /\ LevelOf(B[u][d], Capacity[u][d]) = Level(u, d)
  BY <1>7, <1>8, LevelIs DEF Store
<1> QED BY <1>6, <1>7, <1>8 DEF Store, B, top

\* A second refills every bucket, and no expiry can be told from it.
LEMMA TickRefills ==
    ASSUME Store(bucket), Tick
    PROVE  /\ Store(bucket')
           /\ \A u \in Tenants, d \in Dims :
                Level(u, d)' = Min({Full(u, d), Level(u, d) + Capacity[u][d]})
<1>1. ASSUME NEW u \in Tenants, NEW d \in Dims
      PROVE  /\ bucket'[u][d] \in [tokens : Int, age : Int]
             /\ Sound(bucket'[u][d], Capacity[u][d])
             /\ Level(u, d)' = Min({Full(u, d), Level(u, d) + Capacity[u][d]})
  <2> DEFINE b == bucket[u][d]
             cap == Capacity[u][d]
  <2>1. Sound(b, cap) /\ cap \in Nat /\ Full(u, d) = cap * Minute
    BY Ceilings DEF Store
  <2>2. /\ Sound(Aged(b), cap)
        /\ LevelOf(Aged(b), cap) = Min({cap * Minute, LevelOf(b, cap) + cap})
    BY <2>1, LevelAged
  <2>3. \/ bucket'[u][d] = Aged(b)
        \/ bucket'[u][d] = Absent /\ IdleOut(Aged(b))
    BY DEF Tick
  <2>4. /\ Sound(bucket'[u][d], cap)
        /\ LevelOf(bucket'[u][d], cap) = LevelOf(Aged(b), cap)
    <3>1. CASE bucket'[u][d] = Aged(b)
      BY <2>2, <3>1
    <3>2. CASE bucket'[u][d] = Absent /\ IdleOut(Aged(b))
      BY <2>1, <2>2, <3>2, IdleIsFull DEF LevelOf, Sound
    <3> QED BY <2>3, <3>1, <3>2
  <2>5. bucket'[u][d] \in [tokens : Int, age : Int]
    BY <2>4 DEF Sound, Absent
  <2> QED BY <2>1, <2>2, <2>4, <2>5, LevelIs
<1>2. bucket' = [u \in Tenants |-> [d \in Dims |-> bucket'[u][d]]]
  BY DEF Tick
<1>3. bucket' \in [Tenants -> [Dims -> [tokens : Int, age : Int]]]
  BY <1>1, <1>2
<1> QED BY <1>1, <1>3 DEF Store

-----------------------------------------------------------------------------
(* Requests *)

Phases == {"idle", "gate", "allow", "serving", "refund", "release", "refused", "waiting"}

Client == [pc : Phases, tenant : Tenants, prompt : Nat, tokens : 0 .. WideMax,
           consumed : Nat, wait : 0 .. MaxWait, calm : BOOLEAN]

Shape ==
    /\ backend \in {"memory", "redis"}
    /\ Store(bucket)
    /\ sweepIn \in 0 .. Horizon
    /\ inFlight \in [Tenants -> Nat]
    /\ req \in [Requests -> Client]

\* A step of one request leaves the others alone, but may take away the
\* promise they were given.
Others(r) ==
    \A q \in Requests \ {r} :
        /\ req'[q].pc = req[q].pc /\ req'[q].tenant = req[q].tenant
        /\ req'[q].tokens = req[q].tokens /\ req'[q].wait = req[q].wait
        /\ req'[q].calm => req[q].calm

\* The phases in which a request holds a slot of the gate.
Inside == {"allow", "serving", "refund", "release", "refused"}

\* An idle request.
LEMMA IdleClient == Idle \in Client /\ Idle.pc = "idle"
<1>1. (CHOOSE t \in Tenants : TRUE) \in Tenants
  BY LimiterAssumption DEF LimiterAssumption
<1>2. 0 \in 0 .. WideMax /\ 0 \in 0 .. MaxWait
  BY Ceilings DEF MaxWait
<1> QED BY <1>1, <1>2 DEF Idle, Client, Phases

\* The reservation saturates at the width of the integer and is never
\* negative, whatever the request declares.
LEMMA ReserveBounds ==
    ASSUME NEW p \in Prompts, NEW a \in Asks, NEW t \in Tenants
    PROVE  ReserveTokens(p, a, Tier[t].maxTokens) \in 0 .. WideMax
<1>1. /\ WideMax \in Nat /\ DefaultReserve \in 0 .. WideMax /\ p \in 1 .. WideMax
      /\ a \in 0 .. WideMax /\ Tier[t].maxTokens \in Int
  BY LimiterAssumption DEF LimiterAssumption
<1>2. CompletionEstimate(a, Tier[t].maxTokens) \in 0 .. WideMax
  BY <1>1 DEF CompletionEstimate
<1> QED BY <1>1, <1>2 DEF ReserveTokens, AddSaturating

\* Replacing one request.
LEMMA OneMoves ==
    ASSUME Shape, NEW r \in Requests, NEW c \in Client, req' = [req EXCEPT ![r] = c]
    PROVE  req' \in [Requests -> Client] /\ Others(r) /\ req'[r] = c
BY DEF Shape, Others

\* Moving one request to another phase.
LEMMA StepMoves ==
    ASSUME Shape, NEW r \in Requests, NEW pc \in Phases, Step(r, pc)
    PROVE  /\ req' \in [Requests -> Client] /\ Others(r)
           /\ req'[r] = [req[r] EXCEPT !.pc = pc]
<1>1. [req[r] EXCEPT !.pc = pc] \in Client /\ req' = [req EXCEPT ![r] = [req[r] EXCEPT !.pc = pc]]
  BY DEF Shape, Client, Step
<1> QED BY <1>1, OneMoves

\* Spending keeps everybody in place.
LEMMA SpentMoves ==
    ASSUME Shape, NEW r \in Requests, NEW c \in Client, req' = Spent(r, c)
    PROVE  /\ req' \in [Requests -> Client] /\ Others(r) /\ req'[r] = c
           /\ \A q \in Requests \ {r} : req[q].tenant = req[r].tenant => ~req'[q].calm
<1>1. \A q \in Requests : req[q] \in Client /\ [req[q] EXCEPT !.calm = FALSE] \in Client
  BY DEF Shape, Client
<1>2. req' \in [Requests -> Client]
  BY <1>1 DEF Spent
<1>3. ASSUME NEW q \in Requests \ {r}
      PROVE  req'[q] = IF req[q].tenant = req[r].tenant THEN [req[q] EXCEPT !.calm = FALSE]
                       ELSE req[q]
  BY DEF Spent
<1>4. \A q \in Requests : [req[q] EXCEPT !.calm = FALSE].calm = FALSE
  BY <1>1 DEF Client
<1>5. \A q \in Requests :
        LET k == [req[q] EXCEPT !.calm = FALSE]
        IN  /\ k.pc = req[q].pc /\ k.tenant = req[q].tenant
            /\ k.tokens = req[q].tokens /\ k.wait = req[q].wait
  BY <1>1 DEF Client
<1>6. Others(r)
  BY <1>3, <1>4, <1>5 DEF Others
<1>7. \A q \in Requests \ {r} : req[q].tenant = req[r].tenant => ~req'[q].calm
  BY <1>3, <1>4
<1>8. req'[r] = c
  BY DEF Spent
<1> QED BY <1>2, <1>6, <1>7, <1>8

-----------------------------------------------------------------------------
\* The wait a short dimension asks for covers its deficit, in either unit.
LEMMA WaitCovers ==
    ASSUME Shape, NEW t \in Tenants, NEW n \in Nat, NEW d \in Short(t, n)
    PROVE  /\ WaitFor(t, n, d) \in Nat
           /\ Level(t, d) + WaitFor(t, n, d) * Capacity[t][d] >= Price(n)[d]
<1> DEFINE cap == Capacity[t][d]
           deficit == Price(n)[d] - Level(t, d)
<1>1. d \in Dims /\ cap > 0 /\ Level(t, d) < Price(n)[d]
  BY DEF Short
<1>2. cap \in Nat \ {0} /\ Level(t, d) \in Nat /\ Price(n)[d] \in Nat
  BY <1>1, Ceilings, StoreBounds, LevelIs DEF Shape, Price, Dims
<1>3. deficit \in Nat
  BY <1>1, <1>2
<1> HIDE DEF cap
<1>4. ASSUME NEW w \in Nat, w * cap >= deficit
      PROVE  Level(t, d) + w * cap >= Price(n)[d]
  BY <1>2, <1>4
<1>5. ASSUME NEW num \in Nat, NEW den \in Nat \ {0}
      PROVE  /\ RetryAfterSeconds(num, den) \in Nat
             /\ RetryAfterSeconds(num, den) * den >= num
  <2>1. PICK q \in Nat : q = CeilDiv(num, den) /\ q * den >= num
    BY CeilCovers
  <2>2. PICK s \in Nat : s = RetryAfterSeconds(num, den) /\ q <= s
    BY <2>1, MaxOfTwo DEF RetryAfterSeconds
  <2> QED BY <2>1, <2>2, Scaled
<1>6. CASE backend = "memory"
  <2>1. WaitFor(t, n, d) = RetryAfterSeconds(deficit, cap)
    BY <1>6 DEF WaitFor, MemoryWait, cap
  <2> QED BY <1>2, <1>3, <1>4, <1>5, <2>1 DEF cap
<1>7. CASE backend # "memory"
  <2>1. PICK m \in Nat : m = ScriptMillis(deficit, cap) /\ m * cap >= deficit * Millis * Millis
    <3>1. PICK a \in Nat : a = deficit * Millis * Millis
      BY <1>3 DEF Millis
    <3>2. CeilDiv(a, cap) \in Nat /\ CeilDiv(a, cap) * cap >= a
      BY <1>2, CeilCovers
    <3> QED BY <3>1, <3>2 DEF ScriptMillis
  <2>2. PICK w \in Nat : w = RedisWait(deficit, cap) /\ w * Millis >= m
    <3>1. /\ RetryAfterSeconds(m, Millis) \in Nat
          /\ RetryAfterSeconds(m, Millis) * Millis >= m
      BY <1>5 DEF Millis
    <3> QED BY <2>1, <3>1 DEF RedisWait
  <2>3. WaitFor(t, n, d) = w
    BY <1>7, <2>2 DEF WaitFor, cap
  <2>4. (w * Millis) * cap >= m * cap
    BY <1>2, <2>1, <2>2, Scaled DEF Millis
  <2>5. (w * cap) * 1000 >= deficit * 1000000
    <3>1. (w * 1000) * cap >= deficit * 1000 * 1000
      <4>1. m * cap \in Nat /\ (w * 1000) * cap \in Nat /\ deficit * 1000 * 1000 \in Nat
        BY <1>2, <1>3
      <4> HIDE DEF deficit
      <4> QED BY <4>1, <2>1, <2>4 DEF Millis
    <3>2. (w * 1000) * cap = (w * cap) * 1000
      BY <1>2
    <3>3. deficit * 1000 * 1000 = deficit * 1000000
      BY <1>3
    <3> QED BY <3>1, <3>2, <3>3
  <2>6. PICK x \in Nat : x = w * cap
    BY <1>2
  <2>7. w * cap >= deficit
    BY <1>3, <2>5, <2>6
  <2> QED BY <1>4, <2>3, <2>7 DEF cap
<1> QED BY <1>6, <1>7

-----------------------------------------------------------------------------
(* The inductive invariant *)

\* The gate counts its holders, and stays below its ceiling.
GateInv ==
    \A t \in Tenants :
        /\ inFlight[t] = IF Counted(t) THEN Cardinality(Holders(t)) ELSE 0
        /\ Counted(t) => inFlight[t] <= Tier[t].concurrency

\* What a refused client was told still covers its price: the level now and
\* what the rest of the wait brings in.
Promised(q) ==
    LET t == req[q].tenant
    IN  req[q].pc \in {"refused", "waiting"} /\ req[q].calm =>
          \A d \in Dims :
              Capacity[t][d] > 0 /\ Price(req[q].tokens)[d] <= Full(t, d) =>
                  Level(t, d) + req[q].wait * Capacity[t][d] >= Price(req[q].tokens)[d]

IInv == Shape /\ GateInv /\ \A q \in Requests : Promised(q)

\* The levels of a state that satisfies the invariant.
LEMMA LevelNat ==
    ASSUME Store(bucket), NEW t \in Tenants, NEW d \in Dims
    PROVE  Level(t, d) \in 0 .. Full(t, d) /\ Full(t, d) \in Nat /\ Capacity[t][d] \in Nat
BY StoreBounds, LevelIs, Ceilings

\* A level after a step.
Later(t, d) == LevelOf(bucket'[t][d], Capacity[t][d])

LEMMA PromisedThen ==
    ASSUME NEW q,
           req'[q].pc \in {"refused", "waiting"} /\ req'[q].calm =>
             \A d \in Dims :
                 Capacity[req'[q].tenant][d] > 0
                 /\ Price(req'[q].tokens)[d] <= Capacity[req'[q].tenant][d] * Minute =>
                     Later(req'[q].tenant, d) + req'[q].wait * Capacity[req'[q].tenant][d]
                         >= Price(req'[q].tokens)[d]
    PROVE  Promised(q)'
BY DEF Promised, Later, Level, LevelOf, Full, Price

\* Requests that do not move keep their promise as long as nobody spends what
\* they wait for.
LEMMA OthersPromised ==
    ASSUME IInv, NEW r \in Requests, Others(r), Store(bucket)',
           \A q \in Requests \ {r} : req'[q].calm =>
               \A d \in Dims : Later(req[q].tenant, d) >= Level(req[q].tenant, d)
    PROVE  \A q \in Requests \ {r} : Promised(q)'
<1> SUFFICES ASSUME NEW q \in Requests \ {r} PROVE Promised(q)'
  OBVIOUS
<1>1. PICK t, n, w : t = req[q].tenant /\ n = req[q].tokens /\ w = req[q].wait
  OBVIOUS
<1>2. t \in Tenants /\ n \in Nat /\ w \in Nat
  BY <1>1, Ceilings DEF IInv, Shape, Client, MaxWait
<1>3. req'[q].tenant = t /\ req'[q].tokens = n /\ req'[q].wait = w
  BY <1>1 DEF Others
<1>4. ASSUME req'[q].pc \in {"refused", "waiting"}, req'[q].calm, NEW d \in Dims,
             Capacity[t][d] > 0, Price(n)[d] <= Capacity[t][d] * Minute
      PROVE  Later(t, d) + w * Capacity[t][d] >= Price(n)[d]
  <2>1. Level(t, d) + w * Capacity[t][d] >= Price(n)[d]
    BY <1>1, <1>2, <1>4, Ceilings DEF IInv, Promised, Others
  <2>2. Later(t, d) >= Level(t, d)
    BY <1>1, <1>4
  <2>3. /\ Level(t, d) \in Nat /\ Capacity[t][d] \in Nat
    BY <1>2, LevelNat DEF IInv, Shape
  <2>4. Later(t, d) \in Nat
    BY <1>2, StoreBounds, Ceilings DEF Later
  <2>5. PICK gain \in Nat : gain = w * Capacity[t][d]
    BY <1>2, <2>3
  <2>6. Price(n)[d] \in Nat
    BY <1>2, Ceilings DEF Price, Dims
  <2> QED BY <2>1, <2>2, <2>3, <2>4, <2>5, <2>6
<1> QED BY <1>3, <1>4, PromisedThen

\* A set of holders is finite.
LEMMA HoldersFinite ==
    ASSUME NEW t
    PROVE  /\ IsFiniteSet(Holders(t)) /\ Cardinality(Holders(t)) \in Nat
           /\ Cardinality(Holders(t)) <= Cardinality(Requests)
           /\ Cardinality(Requests) \in Nat
<1>1. Holders(t) \subseteq Requests /\ IsFiniteSet(Requests)
  BY LimiterAssumption DEF Holders, LimiterAssumption
<1> QED BY <1>1, FS_Subset, FS_CardinalityType

\* A step that neither enters nor leaves the gate.
LEMMA GateKeeps ==
    ASSUME IInv, NEW r \in Requests, Others(r), UNCHANGED inFlight,
           \A t \in Tenants : req'[r].tenant = t /\ req'[r].pc \in Inside
                                <=> req[r].tenant = t /\ req[r].pc \in Inside
    PROVE  GateInv'
<1>1. ASSUME NEW t \in Tenants PROVE Holders(t)' = Holders(t)
  BY DEF Holders, Others, Inside
<1> QED BY <1>1 DEF IInv, GateInv, Counted

\* A step that enters: the counter of the tenant gains the request.
LEMMA GateEnters ==
    ASSUME IInv, NEW r \in Requests, Others(r),
           req[r].pc \notin Inside, req'[r].pc \in Inside, req'[r].tenant = req[r].tenant,
           Counted(req[r].tenant) => inFlight[req[r].tenant] < Tier[req[r].tenant].concurrency,
           inFlight' = IF Counted(req[r].tenant)
                       THEN [inFlight EXCEPT ![req[r].tenant] = @ + 1] ELSE inFlight
    PROVE  GateInv' /\ inFlight' \in [Tenants -> Nat]
<1>1. PICK t \in Tenants : t = req[r].tenant /\ inFlight \in [Tenants -> Nat]
  BY DEF IInv, Shape, Client
<1>2. /\ Holders(t)' = Holders(t) \cup {r} /\ r \notin Holders(t)
      /\ \A u \in Tenants : u # t => Holders(u)' = Holders(u)
  BY <1>1 DEF Holders, Others, Inside
<1>3. Cardinality(Holders(t)') = Cardinality(Holders(t)) + 1
  BY <1>2, HoldersFinite, FS_AddElement
<1>4. inFlight' \in [Tenants -> Nat]
  <2>1. inFlight[t] + 1 \in Nat
    BY <1>1
  <2> QED BY <1>1, <2>1
<1>5. ASSUME NEW u \in Tenants
      PROVE  inFlight'[u] = IF Counted(u) THEN Cardinality(Holders(u)') ELSE 0
  BY <1>1, <1>2, <1>3 DEF IInv, GateInv, Counted
<1>6. ASSUME NEW u \in Tenants, Counted(u) PROVE inFlight'[u] <= Tier[u].concurrency
  <2>1. Tier[u].concurrency \in Nat /\ inFlight[u] \in Nat
    BY <1>1, LimiterAssumption DEF LimiterAssumption
  <2> QED BY <1>1, <1>6, <2>1 DEF IInv, GateInv
<1> QED BY <1>4, <1>5, <1>6 DEF GateInv, Counted

\* A step that leaves: the deferred release returns its slot.
LEMMA GateLeaves ==
    ASSUME IInv, NEW r \in Requests, Others(r),
           req[r].pc \in Inside, req'[r].pc \notin Inside,
           inFlight' = Freed(req[r].tenant)
    PROVE  GateInv' /\ inFlight' \in [Tenants -> Nat]
<1>1. PICK t \in Tenants : t = req[r].tenant /\ inFlight \in [Tenants -> Nat]
  BY DEF IInv, Shape, Client
<1>2. /\ Holders(t)' = Holders(t) \ {r} /\ r \in Holders(t)
      /\ \A u \in Tenants : u # t => Holders(u)' = Holders(u)
  BY <1>1 DEF Holders, Others, Inside
<1>3. /\ Cardinality(Holders(t)') = Cardinality(Holders(t)) - 1
      /\ Cardinality(Holders(t)') \in Nat
  <2>1. IsFiniteSet(Holders(t)) /\ IsFiniteSet(Holders(t)')
    BY <1>2, HoldersFinite, FS_RemoveElement
  <2> QED BY <1>2, <2>1, HoldersFinite, FS_RemoveElement, FS_CardinalityType
<1>4. ASSUME NEW u \in Tenants
      PROVE  /\ inFlight'[u] = IF Counted(u) THEN Cardinality(Holders(u)') ELSE 0
             /\ inFlight'[u] \in Nat
  BY <1>1, <1>2, <1>3, HoldersFinite DEF IInv, GateInv, Counted, Freed
<1>5. inFlight' = [u \in Tenants |-> inFlight'[u]]
  BY <1>1 DEF Freed
<1>6. inFlight' \in [Tenants -> Nat]
  BY <1>4, <1>5
<1>7. ASSUME NEW u \in Tenants, Counted(u) PROVE inFlight'[u] <= Tier[u].concurrency
  <2>1. Tier[u].concurrency \in Nat /\ inFlight[u] \in Nat
    BY <1>1, LimiterAssumption DEF LimiterAssumption
  <2> QED BY <1>1, <1>7, <2>1 DEF IInv, GateInv, Freed
<1> QED BY <1>4, <1>6, <1>7 DEF GateInv, Counted

-----------------------------------------------------------------------------
(* One step per action *)

\* What is left to show of a step of one request.
LEMMA RequestKeeps ==
    ASSUME IInv, NEW r \in Requests, req' \in [Requests -> Client], Others(r),
           UNCHANGED backend, Store(bucket)', sweepIn' \in 0 .. Horizon,
           inFlight' \in [Tenants -> Nat], GateInv', Promised(r)',
           \A q \in Requests \ {r} : req'[q].calm =>
               \A d \in Dims : Later(req[q].tenant, d) >= Level(req[q].tenant, d)
    PROVE  IInv'
<1>1. \A q \in Requests : Promised(q)'
  BY OthersPromised
<1>2. Shape'
  BY DEF IInv, Shape
<1> QED BY <1>1, <1>2 DEF IInv

\* A step that does not touch the buckets.
LEMMA SameLevels ==
    ASSUME IInv, UNCHANGED bucket
    PROVE  /\ Store(bucket)'
           /\ \A t \in Tenants, d \in Dims : Later(t, d) = Level(t, d) /\ Level(t, d) \in Int
           /\ \A q \in Requests, d \in Dims : Later(req[q].tenant, d) >= Level(req[q].tenant, d)
<1>1. Store(bucket)'
  BY DEF IInv, Shape, Store, Sound
<1>2. \A t \in Tenants, d \in Dims : Later(t, d) = Level(t, d) /\ Level(t, d) \in Int
  BY LevelIs, LevelNat DEF IInv, Shape, Later
<1>3. \A q \in Requests : req[q].tenant \in Tenants
  BY DEF IInv, Shape, Client
<1> QED BY <1>1, <1>2, <1>3

\* Nobody is promised anything outside of the wait.
LEMMA NotWaiting ==
    ASSUME NEW r, req'[r].pc \notin {"refused", "waiting"}
    PROVE  Promised(r)'
BY DEF Promised

\* Arrivals, departures and everything between that leaves slots and buckets
\* alone.
LEMMA QuietKeeps ==
    ASSUME IInv, NEW r \in Requests, NEW c \in Client, req' = [req EXCEPT ![r] = c],
           c.pc \notin {"refused", "waiting"},
           \/ c.pc \notin Inside /\ req[r].pc \notin Inside
           \/ c.pc \in Inside /\ req[r].pc \in Inside /\ c.tenant = req[r].tenant,
           UNCHANGED <<backend, bucket, sweepIn, inFlight>>
    PROVE  IInv'
<1>1. req' \in [Requests -> Client] /\ Others(r) /\ req'[r] = c
  BY OneMoves DEF IInv
<1>2. GateInv'
  BY <1>1, GateKeeps
<1>3. sweepIn' \in 0 .. Horizon /\ inFlight' \in [Tenants -> Nat]
  BY DEF IInv, Shape
<1>4. Promised(r)'
  BY <1>1, NotWaiting
<1> QED BY <1>1, <1>2, <1>3, <1>4, SameLevels, RequestKeeps

LEMMA ArriveKeeps ==
    ASSUME IInv, NEW r \in Requests, Arrive(r)
    PROVE  IInv'
<1>1. PICK t \in Tenants, p \in Prompts, a \in Asks :
        req' = [req EXCEPT ![r] = [Idle EXCEPT
                   !.pc = "gate", !.tenant = t, !.prompt = p,
                   !.tokens = ReserveTokens(p, a, Tier[t].maxTokens)]]
  BY DEF Arrive
<1>2. ReserveTokens(p, a, Tier[t].maxTokens) \in 0 .. WideMax /\ p \in Nat
  BY ReserveBounds, LimiterAssumption DEF LimiterAssumption
<1> DEFINE c == [Idle EXCEPT !.pc = "gate", !.tenant = t, !.prompt = p,
                             !.tokens = ReserveTokens(p, a, Tier[t].maxTokens)]
<1>3. c \in Client /\ c.pc = "gate"
  BY <1>2, IdleClient DEF Client, Phases
<1>4. req' = [req EXCEPT ![r] = c]
  BY <1>1
<1> HIDE DEF c
<1> QED BY <1>3, <1>4, QuietKeeps DEF Arrive, Inside

LEMMA LeaveKeeps ==
    ASSUME IInv, NEW r \in Requests, GiveUp(r) \/ GateFull(r)
    PROVE  IInv'
BY IdleClient, QuietKeeps DEF GiveUp, GateFull, Inside

LEMMA ReturnKeeps ==
    ASSUME IInv, NEW r \in Requests, Return(r)
    PROVE  IInv'
<1> DEFINE c == [req[r] EXCEPT !.pc = "gate"]
<1>1. c \in Client /\ c.pc = "gate" /\ req' = [req EXCEPT ![r] = c]
  BY DEF IInv, Shape, Client, Phases, Return, Step
<1> HIDE DEF c
<1> QED BY <1>1, QuietKeeps DEF Return, Inside

LEMMA ServeKeeps ==
    ASSUME IInv, NEW r \in Requests, Serve(r)
    PROVE  IInv'
<1>1. PICK u \in Consumptions(r) :
        req' = [req EXCEPT ![r].pc = "refund", ![r].consumed = u]
  BY DEF Serve
<1>2. req[r] \in Client
  BY DEF IInv, Shape
<1>3. u \in Nat
  BY <1>2, LimiterAssumption DEF LimiterAssumption, Consumptions, Client
<1> DEFINE c == [req[r] EXCEPT !.pc = "refund", !.consumed = u]
<1>4. c \in Client /\ c.pc = "refund" /\ c.tenant = req[r].tenant
  BY <1>2, <1>3 DEF Client, Phases
<1>5. req' = [req EXCEPT ![r] = c]
  BY <1>1 DEF IInv, Shape
<1> HIDE DEF c
<1> QED BY <1>4, <1>5, QuietKeeps DEF Serve, Inside

LEMMA RefundLostKeeps ==
    ASSUME IInv, NEW r \in Requests, RefundLost(r)
    PROVE  IInv'
<1> DEFINE c == [req[r] EXCEPT !.pc = "release"]
<1>1. c \in Client /\ c.pc = "release" /\ c.tenant = req[r].tenant /\ req' = [req EXCEPT ![r] = c]
  BY DEF IInv, Shape, Client, Phases, RefundLost, Step
<1> HIDE DEF c
<1> QED BY <1>1, QuietKeeps DEF RefundLost, Inside

\* The gate.
LEMMA AcquireKeeps ==
    ASSUME IInv, NEW r \in Requests, Acquire(r)
    PROVE  IInv'
<1>1. /\ req' \in [Requests -> Client] /\ Others(r)
      /\ req'[r] = [req[r] EXCEPT !.pc = "allow"]
  BY StepMoves DEF Acquire, Phases, IInv
<1>2. req'[r].pc = "allow" /\ req'[r].tenant = req[r].tenant
  BY <1>1 DEF IInv, Shape, Client
<1>3. GateInv' /\ inFlight' \in [Tenants -> Nat]
  BY <1>1, <1>2, GateEnters DEF Acquire, Inside
<1>4. Promised(r)'
  BY <1>2, NotWaiting
<1>5. sweepIn' \in 0 .. Horizon /\ UNCHANGED <<backend, bucket>>
  BY DEF Acquire, IInv, Shape
<1> QED BY <1>1, <1>3, <1>4, <1>5, SameLevels, RequestKeeps

LEMMA ReleaseKeeps ==
    ASSUME IInv, NEW r \in Requests, Release(r)
    PROVE  IInv'
<1>1. /\ req' \in [Requests -> Client] /\ Others(r)
      /\ req'[r].pc = "idle"
  BY IdleClient, OneMoves DEF Release, IInv
<1>2. GateInv' /\ inFlight' \in [Tenants -> Nat]
  BY <1>1, GateLeaves DEF Release, Inside
<1>3. Promised(r)'
  BY <1>1, NotWaiting
<1>4. sweepIn' \in 0 .. Horizon /\ UNCHANGED <<backend, bucket>>
  BY DEF Release, IInv, Shape
<1> QED BY <1>1, <1>2, <1>3, <1>4, SameLevels, RequestKeeps

LEMMA ReleaseRefusedKeeps ==
    ASSUME IInv, NEW r \in Requests, ReleaseRefused(r)
    PROVE  IInv'
<1>1. /\ req' \in [Requests -> Client] /\ Others(r)
      /\ req'[r] = [req[r] EXCEPT !.pc = "waiting"]
  BY StepMoves DEF ReleaseRefused, Phases, IInv
<1>2. PICK t \in Tenants, n \in 0 .. WideMax, w \in 0 .. MaxWait :
        t = req[r].tenant /\ n = req[r].tokens /\ w = req[r].wait
  BY DEF IInv, Shape, Client
<1>3. /\ req'[r].pc = "waiting" /\ req'[r].tenant = t /\ req'[r].tokens = n
      /\ req'[r].wait = w /\ req'[r].calm = req[r].calm
  BY <1>1, <1>2 DEF IInv, Shape, Client
<1>4. GateInv' /\ inFlight' \in [Tenants -> Nat]
  BY <1>1, <1>3, GateLeaves DEF ReleaseRefused, Inside
<1>5. sweepIn' \in 0 .. Horizon /\ UNCHANGED <<backend, bucket>>
  BY DEF ReleaseRefused, IInv, Shape
<1>6. Promised(r)'
  <2>1. ASSUME req'[r].calm, NEW d \in Dims, Capacity[t][d] > 0,
               Price(n)[d] <= Capacity[t][d] * Minute
        PROVE  Later(t, d) + w * Capacity[t][d] >= Price(n)[d]
    <3>1. Level(t, d) + w * Capacity[t][d] >= Price(n)[d]
      BY <1>2, <1>3, <2>1, Ceilings DEF IInv, Promised, ReleaseRefused
    <3> QED BY <3>1, <1>5, SameLevels
  <2> QED BY <1>3, <2>1, PromisedThen
<1> QED BY <1>1, <1>4, <1>5, <1>6, SameLevels, RequestKeeps

\* The buckets.
LEMMA SweepArmedBounds ==
    ASSUME IInv
    PROVE  SweepArmed \in 0 .. Horizon
BY Ceilings DEF IInv, Shape, SweepArmed

\* A request that was paid, heard of it or not.
LEMMA SpendKeeps ==
    ASSUME IInv, NEW r \in Requests, req[r].pc = "allow",
           NEW c \in Client, c.pc \in {"serving", "release"}, c.tenant = req[r].tenant,
           Affords(req[r].tenant, req[r].tokens),
           bucket' = Deducted(req[r].tenant, req[r].tokens), req' = Spent(r, c),
           sweepIn' \in 0 .. Horizon, UNCHANGED <<backend, inFlight>>
    PROVE  IInv'
<1>1. PICK t \in Tenants, n \in Nat : t = req[r].tenant /\ n = req[r].tokens
  BY DEF IInv, Shape, Client
<1>2. /\ req' \in [Requests -> Client] /\ Others(r) /\ req'[r] = c
      /\ \A q \in Requests \ {r} : req[q].tenant = t => ~req'[q].calm
  BY <1>1, SpentMoves DEF IInv
<1>3. /\ Store(bucket)'
      /\ \A u \in Tenants, d \in Dims : u # t => Later(u, d) >= Level(u, d)
  <2>1. /\ Store(Deducted(t, n))
        /\ \A u \in Tenants, d \in Dims :
             LevelOf(Deducted(t, n)[u][d], Capacity[u][d]) =
               IF u = t /\ Capacity[t][d] > 0 THEN Level(t, d) - Price(n)[d] ELSE Level(u, d)
    BY <1>1, DeductedPays DEF IInv, Shape
  <2>2. bucket' = Deducted(t, n)
    BY <1>1
  <2>3. Store(bucket)'
    BY <2>1, <2>2
  <2>4. \A u \in Tenants, d \in Dims : Level(u, d) \in Int
    BY LevelNat DEF IInv, Shape
  <2> QED BY <2>1, <2>2, <2>3, <2>4 DEF Later
<1>4. GateInv'
  BY <1>2, GateKeeps DEF Inside
<1>5. Promised(r)'
  BY <1>2, NotWaiting
<1>6. \A q \in Requests \ {r} : req'[q].calm =>
        \A d \in Dims : Later(req[q].tenant, d) >= Level(req[q].tenant, d)
  BY <1>2, <1>3 DEF IInv, Shape, Client
<1>7. inFlight' \in [Tenants -> Nat]
  BY DEF IInv, Shape
<1> QED BY <1>2, <1>3, <1>4, <1>5, <1>6, <1>7, RequestKeeps

LEMMA AllowedKeeps ==
    ASSUME IInv, NEW r \in Requests, Allowed(r)
    PROVE  IInv'
<1> DEFINE c == [req[r] EXCEPT !.pc = "serving", !.calm = FALSE]
<1>1. c \in Client /\ c.pc = "serving" /\ c.tenant = req[r].tenant
  BY DEF IInv, Shape, Client, Phases
<1>2. req' = Spent(r, c) /\ sweepIn' \in 0 .. Horizon
  BY SweepArmedBounds DEF Allowed
<1> HIDE DEF c
<1> QED BY <1>1, <1>2, SpendKeeps DEF Allowed

\* A refill that pays for nothing.
LEMMA TouchedLater ==
    ASSUME IInv, NEW t \in Tenants, bucket' = Touched(t)
    PROVE  /\ Store(bucket)'
           /\ \A u \in Tenants, d \in Dims : Later(u, d) = Level(u, d) /\ Level(u, d) \in Nat
           /\ \A q \in Requests, d \in Dims : Later(req[q].tenant, d) >= Level(req[q].tenant, d)
<1>1. /\ Store(Touched(t))
      /\ \A u \in Tenants, d \in Dims : LevelOf(Touched(t)[u][d], Capacity[u][d]) = Level(u, d)
  BY TouchedKeeps DEF IInv, Shape
<1>2. \A u \in Tenants, d \in Dims : Level(u, d) \in Nat
  BY LevelNat DEF IInv, Shape
<1>3. Store(bucket)'
  BY <1>1
<1>4. \A u \in Tenants, d \in Dims : Later(u, d) = Level(u, d)
  BY <1>1 DEF Later
<1>5. \A q \in Requests : req[q].tenant \in Tenants
  BY DEF IInv, Shape, Client
<1> QED BY <1>2, <1>3, <1>4, <1>5

\* The advertised wait covers the deficit of every dimension.
LEMMA AdvertisedCovers ==
    ASSUME IInv, NEW t \in Tenants, NEW n \in Nat, ~Affords(t, n)
    PROVE  /\ Advertised(t, n) \in Nat
           /\ Min({MaxWait, Advertised(t, n)}) \in 0 .. MaxWait
           /\ \A d \in Dims : Capacity[t][d] > 0 /\ Price(n)[d] <= Capacity[t][d] * Minute =>
                Level(t, d) + Min({MaxWait, Advertised(t, n)}) * Capacity[t][d] >= Price(n)[d]
<1> DEFINE f == [d \in Dims |-> WaitFor(t, n, d)]
<1>1. Short(t, n) \in SUBSET Dims /\ Short(t, n) # {}
  BY DEF Short, Affords
<1>2. \A d \in Short(t, n) : f[d] \in Nat /\ f[d] = WaitFor(t, n, d)
  BY <1>1, WaitCovers DEF IInv
<1>3. {f[d] : d \in Short(t, n)} = {WaitFor(t, n, d) : d \in Short(t, n)}
  BY <1>1
<1> HIDE DEF f
<1>4. /\ Max({f[d] : d \in Short(t, n)}) \in Nat
      /\ \A e \in Short(t, n) : f[e] <= Max({f[d] : d \in Short(t, n)})
  <2>1. \A d \in Short(t, n) : f[d] \in Nat
    BY <1>2
  <2> QED BY <1>1, <2>1, MaxOverDims
<1>5. PICK a \in Nat : /\ a = Advertised(t, n)
                       /\ \A d \in Short(t, n) : WaitFor(t, n, d) <= a
  BY <1>2, <1>3, <1>4 DEF Advertised
<1>6. MaxWait \in Nat /\ MaxWait = 2 * Minute + 1 /\ Minute \in Nat
  BY Ceilings DEF MaxWait
<1>7. PICK w \in 0 .. MaxWait : w = Min({MaxWait, a}) /\ (w = a \/ w = MaxWait)
  BY <1>6, MinOfTwo
<1>8. ASSUME NEW d \in Dims, Capacity[t][d] > 0, Price(n)[d] <= Capacity[t][d] * Minute
      PROVE  Level(t, d) + w * Capacity[t][d] >= Price(n)[d]
  <2>1. PICK cap \in Nat, l \in Nat, p \in Nat :
          cap = Capacity[t][d] /\ l = Level(t, d) /\ p = Price(n)[d]
    BY LevelNat, Ceilings DEF IInv, Shape, Price, Dims
  <2>2. w \in Nat /\ w * cap \in Nat
    BY <1>6, <1>7
  <2>3. CASE d \notin Short(t, n)
    BY <2>1, <2>2, <2>3, <1>8 DEF Short
  <2>4. CASE w = MaxWait
    <3>1. Minute * cap <= w * cap
      BY <1>6, <2>4, Scaled
    <3>2. Minute * cap = cap * Minute /\ Minute * cap \in Nat
      BY <1>6
    <3>3. p <= Minute * cap
      BY <1>8, <2>1, <3>2
    <3>4. l + w * cap >= p
      BY <2>2, <3>1, <3>2, <3>3
    <3> QED BY <2>1, <3>4
  <2>5. CASE d \in Short(t, n) /\ w = a
    <3>1. PICK v \in Nat : v = WaitFor(t, n, d) /\ l + v * cap >= p
      BY <2>1, <2>5, WaitCovers DEF IInv
    <3>2. v * cap <= w * cap /\ v * cap \in Nat
      BY <1>5, <2>2, <2>5, <3>1, Scaled
    <3>3. l + w * cap >= p
      BY <2>2, <3>1, <3>2
    <3> QED BY <2>1, <3>3
  <2> QED BY <1>7, <2>3, <2>4, <2>5
<1> QED BY <1>5, <1>7, <1>8

LEMMA RejectedKeeps ==
    ASSUME IInv, NEW r \in Requests, Rejected(r)
    PROVE  IInv'
<1>1. PICK t \in Tenants, n \in Nat : t = req[r].tenant /\ n = req[r].tokens
  BY DEF IInv, Shape, Client
<1>2. PICK w \in 0 .. MaxWait : w = Min({MaxWait, Advertised(t, n)})
  BY <1>1, AdvertisedCovers DEF Rejected
<1> DEFINE c == [req[r] EXCEPT !.pc = "refused", !.calm = TRUE, !.wait = w]
<1>3. /\ c \in Client /\ c.pc = "refused" /\ c.tenant = t /\ c.tokens = n /\ c.wait = w
  BY <1>1, <1>2 DEF IInv, Shape, Client, Phases
<1>4. req' = [req EXCEPT ![r] = c]
  BY <1>1, <1>2 DEF Rejected, IInv, Shape
<1> HIDE DEF c
<1>5. req' \in [Requests -> Client] /\ Others(r) /\ req'[r] = c
  BY <1>3, <1>4, OneMoves DEF IInv
<1>6. GateInv'
  BY <1>1, <1>3, <1>5, GateKeeps DEF Rejected, Inside
<1>7. bucket' = Touched(t)
  BY <1>1 DEF Rejected
<1>8. Promised(r)'
  <2>1. ASSUME NEW d \in Dims, Capacity[t][d] > 0, Price(n)[d] <= Capacity[t][d] * Minute
        PROVE  Later(t, d) + w * Capacity[t][d] >= Price(n)[d]
    <3>1. Level(t, d) + w * Capacity[t][d] >= Price(n)[d]
      BY <1>1, <1>2, <2>1, AdvertisedCovers DEF Rejected
    <3> QED BY <3>1, <1>7, TouchedLater
  <2> QED BY <1>3, <1>5, <2>1, PromisedThen
<1>9. sweepIn' \in 0 .. Horizon /\ UNCHANGED backend /\ inFlight' \in [Tenants -> Nat]
  BY SweepArmedBounds DEF Rejected, IInv, Shape
<1> QED BY <1>5, <1>6, <1>7, <1>8, <1>9, TouchedLater, RequestKeeps

\* The script may have run or not: nothing, a refill, or an unheard payment.
LEMMA UnreachableKeeps ==
    ASSUME IInv, NEW r \in Requests, Unreachable(r)
    PROVE  IInv'
<1>1. PICK t \in Tenants, n \in Nat : t = req[r].tenant /\ n = req[r].tokens
  BY DEF IInv, Shape, Client
<1> DEFINE c == [req[r] EXCEPT !.pc = "release"]
<1>2. c \in Client /\ c.pc = "release" /\ c.tenant = req[r].tenant
  BY DEF IInv, Shape, Client, Phases
<1>3. /\ bucket' = bucket => req' = [req EXCEPT ![r] = c]
      /\ bucket' # bucket => req' = Spent(r, c)
  BY DEF Unreachable, IInv, Shape
<1> HIDE DEF c
<1>4. sweepIn' \in 0 .. Horizon /\ UNCHANGED <<backend, sweepIn, inFlight>> /\ req[r].pc = "allow"
  BY DEF Unreachable, IInv, Shape
<1>5. CASE bucket' = bucket
  BY <1>2, <1>3, <1>4, <1>5, QuietKeeps DEF Inside
<1>6. CASE bucket' # bucket /\ Affords(t, n)
  BY <1>1, <1>2, <1>3, <1>4, <1>6, SpendKeeps DEF Unreachable
<1>7. CASE bucket' # bucket /\ ~Affords(t, n)
  <2>1. bucket' = Touched(t)
    BY <1>1, <1>7 DEF Unreachable
  <2>2. req' \in [Requests -> Client] /\ Others(r) /\ req'[r] = c
    BY <1>2, <1>3, <1>7, SpentMoves DEF IInv
  <2>3. GateInv' /\ Promised(r)'
    BY <1>2, <1>4, <2>2, GateKeeps, NotWaiting DEF Inside
  <2>4. inFlight' \in [Tenants -> Nat]
    BY <1>4 DEF IInv, Shape
  <2> QED BY <1>4, <2>1, <2>2, <2>3, <2>4, TouchedLater, RequestKeeps
<1> QED BY <1>5, <1>6, <1>7

\* A refund never takes anything away.
LEMMA RefundRaises ==
    ASSUME IInv, NEW t \in Tenants, NEW n \in Nat, Capacity[t]["tpm"] > 0,
           bucket' = Refunded(t, n)
    PROVE  /\ Store(bucket)'
           /\ \A u \in Tenants, d \in Dims : Later(u, d) >= Level(u, d)
<1>1. /\ Store(Refunded(t, n))
      /\ \A u \in Tenants, d \in Dims :
           LevelOf(Refunded(t, n)[u][d], Capacity[u][d]) =
             IF u = t /\ d = "tpm" THEN Min({Full(t, "tpm"), Level(t, "tpm") + n * Minute})
             ELSE Level(u, d)
  BY RefundedPays DEF IInv, Shape
<1>2. \A u \in Tenants, d \in Dims : Level(u, d) \in 0 .. Full(u, d) /\ Full(u, d) \in Nat
  BY LevelNat DEF IInv, Shape
<1>3. Min({Full(t, "tpm"), Level(t, "tpm") + n * Minute}) >= Level(t, "tpm")
  <2>1. PICK l \in Nat, full \in Nat, x \in Nat :
          l = Level(t, "tpm") /\ full = Full(t, "tpm") /\ x = n * Minute /\ l <= full
    BY <1>2, Ceilings DEF Dims
  <2>2. Min({full, l + x}) >= l
    <3>1. Min({full, l + x}) = IF full <= l + x THEN full ELSE l + x
      BY MinOfTwo
    <3> QED BY <2>1, <3>1
  <2> QED BY <2>1, <2>2
<1>4. Store(bucket)'
  BY <1>1
<1> QED BY <1>1, <1>2, <1>3, <1>4 DEF Later

LEMMA RefundKeeps ==
    ASSUME IInv, NEW r \in Requests, Refund(r)
    PROVE  IInv'
<1>1. /\ req' \in [Requests -> Client] /\ Others(r)
      /\ req'[r] = [req[r] EXCEPT !.pc = "release"]
  BY StepMoves DEF Refund, Phases, IInv
<1>2. req'[r].pc = "release" /\ req'[r].tenant = req[r].tenant
  BY <1>1 DEF IInv, Shape, Client
<1>3. GateInv' /\ Promised(r)'
  BY <1>1, <1>2, GateKeeps, NotWaiting DEF Refund, Inside
<1>4. sweepIn' \in 0 .. Horizon /\ UNCHANGED backend /\ inFlight' \in [Tenants -> Nat]
  BY DEF Refund, IInv, Shape
<1>5. PICK t \in Tenants, u \in Int : t = req[r].tenant /\ u = Unconsumed(r)
  BY Ceilings DEF IInv, Shape, Client, Unconsumed
<1>6. CASE u > 0 /\ Capacity[t]["tpm"] > 0
  <2>1. bucket' = Refunded(t, u) /\ u \in Nat
    BY <1>5, <1>6 DEF Refund
  <2>2. /\ Store(bucket)'
        /\ \A v \in Tenants, d \in Dims : Later(v, d) >= Level(v, d)
    BY <1>6, <2>1, RefundRaises
  <2>3. \A q \in Requests : req[q].tenant \in Tenants
    BY DEF IInv, Shape, Client
  <2> QED BY <1>1, <1>3, <1>4, <2>2, <2>3, RequestKeeps
<1>7. CASE ~(u > 0 /\ Capacity[t]["tpm"] > 0)
  <2>1. UNCHANGED bucket
    BY <1>5, <1>7 DEF Refund
  <2> QED BY <1>1, <1>3, <1>4, <2>1, SameLevels, RequestKeeps
<1> QED BY <1>6, <1>7

\* A second off the wait is a second of refill.
LEMMA TickKeeps ==
    ASSUME IInv, Tick
    PROVE  IInv'
<1>1. /\ Store(bucket)'
      /\ \A t \in Tenants, d \in Dims :
           Later(t, d) = Min({Full(t, d), Level(t, d) + Capacity[t][d]})
  BY TickRefills, LevelIs DEF IInv, Shape, Later
<1>2. ASSUME NEW x \in Nat PROVE Max({0, x - 1}) = IF x > 0 THEN x - 1 ELSE 0
  BY MaxOfTwo
<1>3. sweepIn' \in 0 .. Horizon
  BY <1>2, Ceilings DEF IInv, Shape, Tick
<1>4. ASSUME NEW q \in Requests
      PROVE  /\ req'[q] \in Client
             /\ req'[q].pc = req[q].pc /\ req'[q].tenant = req[q].tenant
             /\ req'[q].tokens = req[q].tokens /\ req'[q].calm = req[q].calm
             /\ req'[q].wait = IF req[q].wait > 0 THEN req[q].wait - 1 ELSE 0
  <2>1. req[q] \in Client /\ req[q].wait \in Nat
    BY Ceilings DEF IInv, Shape, Client, MaxWait
  <2>2. PICK w \in 0 .. MaxWait :
          w = Max({0, req[q].wait - 1}) /\ w = IF req[q].wait > 0 THEN req[q].wait - 1 ELSE 0
    <3>1. PICK x \in 0 .. MaxWait : x = req[q].wait
      BY <2>1 DEF Client
    <3>2. Max({0, x - 1}) = IF x > 0 THEN x - 1 ELSE 0
      BY <2>1, <3>1, <1>2
    <3>3. (IF x > 0 THEN x - 1 ELSE 0) \in 0 .. MaxWait
      BY <2>1, <3>1, Ceilings DEF MaxWait
    <3> QED BY <3>1, <3>2, <3>3
  <2>3. req'[q] = [req[q] EXCEPT !.wait = w]
    BY <2>2 DEF Tick
  <2> QED BY <2>1, <2>2, <2>3 DEF Client
<1>5. req' \in [Requests -> Client]
  <2>1. req' = [q \in Requests |-> req'[q]]
    BY DEF Tick
  <2> QED BY <2>1, <1>4
<1>6. GateInv'
  <2>1. ASSUME NEW t \in Tenants PROVE Holders(t)' = Holders(t)
    BY <1>4 DEF Holders
  <2>2. UNCHANGED inFlight
    BY DEF Tick
  <2> QED BY <2>1, <2>2 DEF IInv, GateInv, Counted
<1>7. ASSUME NEW q \in Requests PROVE Promised(q)'
  <2>1. PICK t \in Tenants, n \in Nat, w \in Nat :
          t = req[q].tenant /\ n = req[q].tokens /\ w = req[q].wait
    BY Ceilings DEF IInv, Shape, Client, MaxWait
  <2>2. PICK v \in Nat : v = req'[q].wait /\ v + 1 >= w
    BY <1>4, <2>1
  <2>3. ASSUME req'[q].pc \in {"refused", "waiting"}, req'[q].calm, NEW d \in Dims,
               Capacity[t][d] > 0, Price(n)[d] <= Capacity[t][d] * Minute
        PROVE  Later(t, d) + v * Capacity[t][d] >= Price(n)[d]
    <3>1. PICK cap \in Nat, l \in Nat, p \in Nat, full \in Nat :
            /\ cap = Capacity[t][d] /\ l = Level(t, d) /\ p = Price(n)[d]
            /\ full = Full(t, d) /\ full = cap * Minute
      BY LevelNat, Ceilings DEF IInv, Shape, Price, Dims
    <3>2. l + w * cap >= p
      BY <1>4, <2>1, <2>3, <3>1, Ceilings DEF IInv, Promised
    <3>3. w * cap <= (v + 1) * cap /\ w * cap \in Nat /\ (v + 1) * cap = v * cap + cap
          /\ v * cap \in Nat
      <4>1. w <= v + 1 /\ v + 1 \in Nat
        BY <2>2
      <4>2. w * cap <= (v + 1) * cap /\ w * cap \in Nat
        BY <4>1, Scaled
      <4> QED BY <4>2
    <3>4. p <= full
      BY <2>3, <3>1
    <3>5. Later(t, d) = IF full <= l + cap THEN full ELSE l + cap
      <4>1. Min({full, l + cap}) = IF full <= l + cap THEN full ELSE l + cap
        BY MinOfTwo
      <4> QED BY <1>1, <3>1, <4>1
    <3>6. PICK x \in Nat : x = v * cap
      BY <3>3
    <3>7. l + (x + cap) >= p
      BY <3>2, <3>3, <3>6
    <3>8. Later(t, d) + x >= p
      BY <3>4, <3>5, <3>7
    <3> QED BY <3>1, <3>6, <3>8
  <2> QED BY <1>4, <2>1, <2>2, <2>3, PromisedThen
<1>8. backend' \in {"memory", "redis"} /\ inFlight' \in [Tenants -> Nat]
  BY DEF Tick, IInv, Shape
<1>9. Shape'
  BY <1>1, <1>3, <1>5, <1>8 DEF Shape
<1> QED BY <1>6, <1>7, <1>9 DEF IInv

\* The process starts without buckets and without requests.
LEMMA InitInv == Init => IInv
<1> SUFFICES ASSUME Init PROVE IInv
  OBVIOUS
<1>1. Store(bucket)
  <2>1. Absent \in [tokens : Int, age : Int] /\ \A cap : Sound(Absent, cap)
    BY DEF Absent, Sound
  <2> QED BY <2>1 DEF Init, Store
<1>2. Shape
  BY <1>1, IdleClient, Ceilings DEF Init, Shape
<1>3. GateInv
  <2>1. \A t : Holders(t) = {}
    BY IdleClient DEF Init, Holders
  <2>2. \A t \in Tenants : inFlight[t] = 0 /\ Tier[t].concurrency \in Nat
    BY LimiterAssumption DEF Init, LimiterAssumption
  <2> QED BY <2>1, <2>2, FS_EmptySet DEF GateInv, Counted
<1>4. \A q \in Requests : Promised(q)
  BY IdleClient DEF Init, Promised
<1> QED BY <1>2, <1>3, <1>4 DEF IInv

LEMMA NextInv == IInv /\ [Next]_vars => IInv'
<1> SUFFICES ASSUME IInv, [Next]_vars PROVE IInv'
  OBVIOUS
<1>1. CASE UNCHANGED vars
  BY <1>1 DEF vars, IInv, Shape, Store, Sound, GateInv, Holders, Counted, Promised, Level
<1>2. CASE Tick
  BY <1>2, TickKeeps
<1>3. ASSUME NEW r \in Requests,
             \/ Arrive(r) \/ Return(r) \/ GiveUp(r)
             \/ Acquire(r) \/ GateFull(r)
             \/ Allowed(r) \/ Rejected(r) \/ Unreachable(r)
             \/ Serve(r) \/ Refund(r) \/ RefundLost(r)
             \/ Release(r) \/ ReleaseRefused(r)
      PROVE  IInv'
  BY <1>3, ArriveKeeps, ReturnKeeps, LeaveKeeps, AcquireKeeps, AllowedKeeps, RejectedKeeps,
     UnreachableKeeps, ServeKeeps, RefundKeeps, RefundLostKeeps, ReleaseKeeps,
     ReleaseRefusedKeeps
<1> QED BY <1>1, <1>2, <1>3 DEF Next

-----------------------------------------------------------------------------
(* The theorems *)

\* The gate counts exactly the requests past it that have not returned,
\* whichever way they leave, never more of them than the tier allows, and every
\* variable keeps its type.
THEOREM GateIsExact == Spec => []GateExact
<1>1. ASSUME IInv PROVE GateExact
  <2>1. bucket \in [Tenants -> [Dims -> [tokens : -1 .. WideMax * Minute, age : 0 .. Horizon]]]
    <3>1. ASSUME NEW t \in Tenants, NEW d \in Dims
          PROVE  bucket[t][d] \in [tokens : -1 .. WideMax * Minute, age : 0 .. Horizon]
      <4>1. PICK full \in Nat : full = Capacity[t][d] * Minute /\ full <= WideMax * Minute
        BY Ceilings
      <4>2. Sound(bucket[t][d], Capacity[t][d]) /\ WideMax * Minute \in Nat
        BY <1>1, Ceilings DEF IInv, Shape, Store
      <4>3. CASE bucket[t][d] = Absent
        BY <4>2, <4>3, Ceilings DEF Absent
      <4>4. CASE bucket[t][d] # Absent
        BY <4>1, <4>2, <4>4 DEF Sound
      <4> QED BY <4>3, <4>4
    <3>2. bucket = [t \in Tenants |-> [d \in Dims |-> bucket[t][d]]]
      BY <1>1 DEF IInv, Shape, Store
    <3> QED BY <3>1, <3>2
  <2>2. inFlight \in [Tenants -> 0 .. Cardinality(Requests)]
    <3>1. \A t \in Tenants : inFlight[t] \in 0 .. Cardinality(Requests)
      BY <1>1, HoldersFinite DEF IInv, GateInv
    <3> QED BY <1>1, <3>1 DEF IInv, Shape
  <2>3. TypeOK
    BY <1>1, <2>1, <2>2 DEF IInv, Shape, Client, Phases, TypeOK
  <2> QED BY <1>1, <2>3 DEF IInv, GateInv, GateExact
<1> QED BY <1>1, InitInv, NextInv, PTL DEF Spec

\* A client that waits out its Retry-After and returns with the same request
\* finds the buckets able to pay, unless its tenant spent meanwhile.
THEOREM RetryIsHonoured == Spec => []RetryHonoured
<1>1. ASSUME IInv PROVE RetryHonoured
  <2> SUFFICES ASSUME NEW r \in Requests,
                      req[r].pc = "waiting", req[r].wait = 0, req[r].calm,
                      Fits(req[r].tenant, req[r].tokens)
               PROVE  Affords(req[r].tenant, req[r].tokens)
    BY DEF RetryHonoured
  <2>1. PICK t \in Tenants, n \in Nat : t = req[r].tenant /\ n = req[r].tokens
    BY <1>1 DEF IInv, Shape, Client
  <2>2. ASSUME NEW d \in Dims, Capacity[t][d] > 0 PROVE ~(Level(t, d) < Price(n)[d])
    <3>1. Level(t, d) + 0 * Capacity[t][d] >= Price(n)[d]
      BY <1>1, <2>1, <2>2 DEF IInv, Promised, Fits
    <3>2. Level(t, d) \in Nat /\ Capacity[t][d] \in Nat /\ Price(n)[d] \in Nat
      BY <1>1, LevelNat, Ceilings DEF IInv, Shape, Price, Dims
    <3> QED BY <3>1, <3>2
  <2> QED BY <2>1, <2>2 DEF Affords, Short
<1> QED BY <1>1, InitInv, NextInv, PTL DEF Spec

-----------------------------------------------------------------------------
(* The refinement *)

\* The phases in which a request holds a reservation.
Owing == {"serving", "refund"}

\* The level of the abstract buckets.
Abstract == [t \in Tenants |-> [d \in Dims |->
                IF Capacity[t][d] > 0 THEN Level(t, d) ELSE 0]]

\* An unlimited dimension holds nothing, so that the abstract level is the
\* level.
LEMMA AbstractIs ==
    ASSUME Store(bucket)
    PROVE  Abstract = [t \in Tenants |-> [d \in Dims |-> Level(t, d)]]
<1>1. ASSUME NEW t \in Tenants, NEW d \in Dims
      PROVE  (IF Capacity[t][d] > 0 THEN Level(t, d) ELSE 0) = Level(t, d)
  BY StoreBounds, LevelIs, Ceilings
<1> QED BY <1>1 DEF Abstract

LEMMA AbstractThen ==
    ASSUME Store(bucket)'
    PROVE  Abstract' = [t \in Tenants |-> [d \in Dims |-> Later(t, d)]]
<1>1. ASSUME NEW t \in Tenants, NEW d \in Dims
      PROVE  (IF Capacity[t][d] > 0 THEN Level(t, d) ELSE 0)' = Later(t, d)
  BY StoreBounds, LevelIs, Ceilings DEF Later
<1>2. Abstract' = [t \in Tenants |-> [d \in Dims |->
                    (IF Capacity[t][d] > 0 THEN Level(t, d) ELSE 0)']]
  BY DEF Abstract, Capacity
<1> QED BY <1>1, <1>2

\* A step that changes no level.
LEMMA AbstractSame ==
    ASSUME IInv, Store(bucket)', \A t \in Tenants, d \in Dims : Later(t, d) = Level(t, d)
    PROVE  Abstract' = Abstract
BY AbstractIs, AbstractThen DEF IInv, Shape

\* A step that neither makes nor ends a reservation.
LEMMA ReservedSame ==
    ASSUME NEW r \in Requests, Others(r),
           req'[r].pc \in Owing <=> req[r].pc \in Owing,
           req[r].pc \in Owing =>
               req'[r].tenant = req[r].tenant /\ req'[r].tokens = req[r].tokens
    PROVE  Reserved' = Reserved
<1>1. ASSUME NEW q \in Requests
      PROVE  /\ req'[q].pc \in Owing <=> req[q].pc \in Owing
             /\ req[q].pc \in Owing =>
                  <<q, req'[q].tenant, req'[q].tokens>> = <<q, req[q].tenant, req[q].tokens>>
  BY DEF Others
<1>2. Reserved' = {<<q, req'[q].tenant, req'[q].tokens>> :
                     q \in {p \in Requests : req'[p].pc \in Owing}}
  BY DEF Reserved, Owing
<1>3. Reserved = {<<q, req[q].tenant, req[q].tokens>> :
                     q \in {p \in Requests : req[p].pc \in Owing}}
  BY DEF Reserved, Owing
<1> QED BY <1>1, <1>2, <1>3

\* Requests come and go through the gate unseen.
LEMMA QuietMaps ==
    ASSUME IInv, NEW r \in Requests, UNCHANGED bucket,
           Arrive(r) \/ Return(r) \/ GiveUp(r) \/ Acquire(r) \/ GateFull(r)
               \/ Serve(r) \/ Release(r) \/ ReleaseRefused(r)
    PROVE  UNCHANGED <<Abstract, Reserved>>
<1>1. UNCHANGED Abstract
  BY AbstractSame, SameLevels
<1>2. ASSUME NEW q \in Requests \ {r} PROVE req'[q] = req[q]
  BY DEF Arrive, Return, GiveUp, Acquire, GateFull, Serve, Release, ReleaseRefused, Step,
     IInv, Shape
<1>3. Others(r)
  BY <1>2 DEF Others
<1>4. ASSUME Serve(r)
      PROVE  /\ req'[r].pc = "refund" /\ req[r].pc = "serving"
             /\ req'[r].tenant = req[r].tenant /\ req'[r].tokens = req[r].tokens
  BY <1>4 DEF Serve, IInv, Shape, Client
<1>5. ASSUME ~Serve(r)
      PROVE  req'[r].pc \notin Owing /\ req[r].pc \notin Owing
  BY <1>5, IdleClient
     DEF Arrive, Return, GiveUp, Acquire, GateFull, Release, ReleaseRefused, Step, Owing,
         IInv, Shape, Client
<1>6. UNCHANGED Reserved
  BY <1>3, <1>4, <1>5, ReservedSame DEF Owing
<1> QED BY <1>1, <1>6

\* A refused request leaves no trace.
LEMMA RejectedMaps ==
    ASSUME IInv, NEW r \in Requests, Rejected(r)
    PROVE  UNCHANGED <<Abstract, Reserved>>
<1>1. PICK t \in Tenants : t = req[r].tenant /\ bucket' = Touched(t)
  BY DEF Rejected, IInv, Shape, Client
<1>2. UNCHANGED Abstract
  BY <1>1, TouchedLater, AbstractSame
<1>3. ASSUME NEW q \in Requests \ {r} PROVE req'[q] = req[q]
  BY DEF Rejected, IInv, Shape
<1>4. Others(r)
  BY <1>3 DEF Others
<1>5. req[r].pc \notin Owing /\ req'[r].pc \notin Owing
  BY DEF Rejected, Owing, IInv, Shape, Client
<1>6. UNCHANGED Reserved
  BY <1>4, <1>5, ReservedSame
<1> QED BY <1>2, <1>6

\* The price leaves both buckets or neither.
LEMMA DeductedMaps ==
    ASSUME IInv, NEW t \in Tenants, NEW n \in Nat, Affords(t, n), bucket' = Deducted(t, n)
    PROVE  Buckets!Pay(t, n)
<1>1. /\ Store(Deducted(t, n))
      /\ \A u \in Tenants, d \in Dims :
           LevelOf(Deducted(t, n)[u][d], Capacity[u][d]) =
             IF u = t /\ Capacity[t][d] > 0 THEN Level(t, d) - Price(n)[d] ELSE Level(u, d)
  BY DeductedPays DEF IInv, Shape
<1>2. Store(bucket)'
  BY <1>1
<1>3. Abstract = [u \in Tenants |-> [d \in Dims |-> Level(u, d)]]
  BY AbstractIs DEF IInv, Shape
<1>4. Abstract' = [u \in Tenants |-> [d \in Dims |-> Later(u, d)]]
  BY <1>2, AbstractThen
<1>5. \A u \in Tenants, d \in Dims :
        Later(u, d) = IF u = t /\ Capacity[t][d] > 0 THEN Level(t, d) - Price(n)[d] ELSE Level(u, d)
  BY <1>1 DEF Later
<1>6. Abstract' = [Abstract EXCEPT ![t] = [d \in Dims |->
                     IF Capacity[t][d] > 0 THEN Abstract[t][d] - Price(n)[d] ELSE Abstract[t][d]]]
  <2>1. \A u \in Tenants : u # t => Abstract'[u] = Abstract[u]
    BY <1>3, <1>4, <1>5
  <2>2. Abstract'[t] = [d \in Dims |->
                     IF Capacity[t][d] > 0 THEN Abstract[t][d] - Price(n)[d] ELSE Abstract[t][d]]
    BY <1>3, <1>4, <1>5
  <2> QED BY <1>3, <1>4, <2>1, <2>2
<1>7. \A d \in Dims : Capacity[t][d] > 0 => Abstract[t][d] >= Price(n)[d]
  <2>1. ASSUME NEW d \in Dims, Capacity[t][d] > 0 PROVE Level(t, d) >= Price(n)[d]
    <3>1. Level(t, d) \in Nat /\ Price(n)[d] \in Nat
      BY LevelNat, Ceilings DEF IInv, Shape, Price, Dims
    <3> QED BY <2>1, <3>1 DEF Affords, Short
  <2> QED BY <1>3, <2>1
<1> QED BY <1>6, <1>7 DEF Buckets!Pay, Buckets!Dims, Buckets!Price, Abstract, Dims, Price

LEMMA AllowedMaps ==
    ASSUME IInv, NEW r \in Requests, Allowed(r)
    PROVE  Buckets!Next
<1>1. PICK t \in Tenants, n \in 0 .. WideMax : t = req[r].tenant /\ n = req[r].tokens
  BY DEF IInv, Shape, Client
<1>2. Buckets!Pay(t, n)
  BY <1>1, DeductedMaps, Ceilings DEF Allowed
<1> DEFINE c == [req[r] EXCEPT !.pc = "serving", !.calm = FALSE]
<1>3. c \in Client /\ c.pc = "serving" /\ c.tenant = t /\ c.tokens = n
  BY <1>1 DEF IInv, Shape, Client, Phases
<1>4. req' = Spent(r, c) /\ req[r].pc = "allow"
  BY DEF Allowed
<1> HIDE DEF c
<1>5. Others(r) /\ req'[r] = c
  BY <1>3, <1>4, SpentMoves DEF IInv
<1>6. Reserved' = Reserved \cup {<<r, t, n>>}
  <2>1. \A q \in Requests \ {r} :
          /\ req'[q].pc = req[q].pc
          /\ <<q, req'[q].tenant, req'[q].tokens>> = <<q, req[q].tenant, req[q].tokens>>
    BY <1>5 DEF Others
  <2>2. Reserved' = {<<q, req'[q].tenant, req'[q].tokens>> :
                       q \in {p \in Requests : req'[p].pc \in Owing}}
    BY DEF Reserved, Owing
  <2>3. Reserved = {<<q, req[q].tenant, req[q].tokens>> :
                       q \in {p \in Requests : req[p].pc \in Owing}}
    BY DEF Reserved, Owing
  <2>4. {p \in Requests : req'[p].pc \in Owing} = {p \in Requests : req[p].pc \in Owing} \cup {r}
    BY <1>3, <1>4, <1>5, <2>1 DEF Owing
  <2>5. r \notin {p \in Requests : req[p].pc \in Owing}
    BY <1>4 DEF Owing
  <2>6. <<r, req'[r].tenant, req'[r].tokens>> = <<r, t, n>>
    BY <1>3, <1>5
  <2> QED BY <2>1, <2>2, <2>3, <2>4, <2>5, <2>6
<1>7. \A o \in Reserved : o[1] # r
  BY <1>4 DEF Reserved
<1>8. Buckets!Admit(r, t, n)
  BY <1>2, <1>6, <1>7 DEF Buckets!Admit
<1> QED BY <1>8 DEF Buckets!Next

\* A lost answer: at most a payment nobody heard of.
LEMMA UnreachableMaps ==
    ASSUME IInv, NEW r \in Requests, Unreachable(r)
    PROVE  Buckets!Next \/ UNCHANGED <<Abstract, Reserved>>
<1>1. PICK t \in Tenants, n \in 0 .. WideMax : t = req[r].tenant /\ n = req[r].tokens
  BY DEF IInv, Shape, Client
<1> DEFINE c == [req[r] EXCEPT !.pc = "release"]
<1>2. c \in Client /\ c.pc = "release"
  BY DEF IInv, Shape, Client, Phases
<1>3. /\ bucket' = bucket => req' = [req EXCEPT ![r] = c]
      /\ bucket' # bucket => req' = Spent(r, c)
      /\ req[r].pc = "allow"
  BY DEF Unreachable, IInv, Shape
<1> HIDE DEF c
<1>4. Others(r) /\ req'[r] = c
  BY <1>2, <1>3, OneMoves, SpentMoves DEF IInv
<1>5. UNCHANGED Reserved
  BY <1>2, <1>3, <1>4, ReservedSame DEF Owing
<1>6. CASE bucket' = bucket
  BY <1>5, <1>6, SameLevels, AbstractSame
<1>7. CASE bucket' = Touched(t)
  BY <1>5, <1>7, TouchedLater, AbstractSame
<1>8. CASE Affords(t, n) /\ bucket' = Deducted(t, n)
  <2>1. Buckets!AdmitUnheard(t, n)
    BY <1>5, <1>8, DeductedMaps, Ceilings DEF Buckets!AdmitUnheard
  <2> QED BY <2>1 DEF Buckets!Next
<1> QED BY <1>1, <1>6, <1>7, <1>8 DEF Unreachable

\* What comes back is the reservation's own, once.
LEMMA RefundMaps ==
    ASSUME IInv, NEW r \in Requests, Refund(r) \/ RefundLost(r)
    PROVE  Buckets!Next
<1>1. PICK t \in Tenants, n \in 0 .. WideMax, u \in Int :
        t = req[r].tenant /\ n = req[r].tokens /\ u = Unconsumed(r) /\ u <= n
  BY Ceilings DEF IInv, Shape, Client, Unconsumed
<1>2. /\ Others(r) /\ req'[r] = [req[r] EXCEPT !.pc = "release"] /\ req[r].pc = "refund"
  BY StepMoves DEF Refund, RefundLost, Phases, IInv
<1>3. req'[r].pc = "release"
  BY <1>2 DEF IInv, Shape, Client
<1>4. Reserved' = Reserved \ {<<r, t, n>>} /\ <<r, t, n>> \in Reserved
  <2>1. \A q \in Requests \ {r} :
          /\ req'[q].pc = req[q].pc
          /\ <<q, req'[q].tenant, req'[q].tokens>> = <<q, req[q].tenant, req[q].tokens>>
    BY <1>2 DEF Others
  <2>2. Reserved' = {<<q, req'[q].tenant, req'[q].tokens>> :
                       q \in {p \in Requests : req'[p].pc \in Owing}}
    BY DEF Reserved, Owing
  <2>3. Reserved = {<<q, req[q].tenant, req[q].tokens>> :
                       q \in {p \in Requests : req[p].pc \in Owing}}
    BY DEF Reserved, Owing
  <2>4. {p \in Requests : req'[p].pc \in Owing} = {p \in Requests : req[p].pc \in Owing} \ {r}
    BY <1>3, <2>1 DEF Owing
  <2>5. r \in {p \in Requests : req[p].pc \in Owing}
    BY <1>2 DEF Owing
  <2>6. <<r, req[r].tenant, req[r].tokens>> = <<r, t, n>>
    BY <1>1
  <2>7. \A q \in Requests \ {r} : <<q, req[q].tenant, req[q].tokens>> # <<r, t, n>>
    OBVIOUS
  <2> QED BY <2>1, <2>2, <2>3, <2>4, <2>5, <2>6, <2>7
<1>5. Abstract = [v \in Tenants |-> [d \in Dims |-> Level(v, d)]]
  BY AbstractIs DEF IInv, Shape
<1>6. \A v \in Tenants, d \in Dims : Level(v, d) \in 0 .. Full(v, d) /\ Full(v, d) \in Nat
  BY LevelNat DEF IInv, Shape
<1>7. ASSUME NEW back \in 0 .. n, Store(bucket)',
             \A v \in Tenants, d \in Dims :
                 Later(v, d) = IF v = t /\ d = "tpm"
                               THEN Min({Full(t, "tpm"), Level(t, "tpm") + back * Minute})
                               ELSE Level(v, d)
      PROVE  Buckets!Next
  <2>1. Abstract' = [v \in Tenants |-> [d \in Dims |-> Later(v, d)]]
    BY <1>7, AbstractThen
  <2>2. Min({Full(t, "tpm"), Level(t, "tpm") + back * Minute})
          = Buckets!Least(Full(t, "tpm"), Level(t, "tpm") + back * Minute)
    <3>1. PICK full \in Nat, x \in Nat :
            full = Full(t, "tpm") /\ x = Level(t, "tpm") + back * Minute
      <4>1. Level(t, "tpm") \in Nat /\ Full(t, "tpm") \in Nat
        BY <1>6 DEF Dims
      <4>2. back * Minute \in Nat
        BY Ceilings
      <4> QED BY <4>1, <4>2
    <3>2. Min({full, x}) = IF full <= x THEN full ELSE x
      BY MinOfTwo
    <3>3. Min({full, x}) = IF full < x THEN full ELSE x
      BY <3>2
    <3> QED BY <3>1, <3>3 DEF Buckets!Least
  <2>3. Abstract' = [Abstract EXCEPT ![t] = [Abstract[t] EXCEPT !["tpm"] =
                       Buckets!Least(Full(t, "tpm"), Abstract[t]["tpm"] + back * Minute)]]
    <3>1. \A v \in Tenants : v # t => Abstract'[v] = Abstract[v]
      BY <1>5, <1>7, <2>1
    <3>2. Abstract'[t] = [Abstract[t] EXCEPT !["tpm"] =
                       Buckets!Least(Full(t, "tpm"), Abstract[t]["tpm"] + back * Minute)]
      BY <1>5, <1>7, <2>1, <2>2 DEF Dims
    <3>3. PICK pair : pair = [Abstract[t] EXCEPT !["tpm"] =
                       Buckets!Least(Full(t, "tpm"), Abstract[t]["tpm"] + back * Minute)]
      OBVIOUS
    <3>4. Abstract' = [Abstract EXCEPT ![t] = pair]
      <4>1. Abstract = [v \in Tenants |-> Abstract[v]] /\ Abstract' = [v \in Tenants |-> Abstract'[v]]
        BY <1>5, <2>1
      <4> QED BY <3>1, <3>2, <3>3, <4>1
    <3> QED BY <3>3, <3>4
  <2>4. Buckets!Full(t).tpm = Full(t, "tpm")
    BY DEF Buckets!Full, Buckets!Dims, Full
  <2>5. Buckets!Settle(r, t, n, back)
    BY <1>4, <2>3, <2>4 DEF Buckets!Settle, Abstract
  <2> QED BY <1>7, <2>5 DEF Buckets!Next
<1>8. CASE bucket' = bucket
  <2>1. Min({Full(t, "tpm"), Level(t, "tpm") + 0 * Minute}) = Level(t, "tpm")
    <3>1. PICK full \in Nat, l \in Nat :
            full = Full(t, "tpm") /\ l = Level(t, "tpm") /\ l <= full
      BY <1>6 DEF Dims
    <3>2. Min({full, l + 0 * Minute}) = l
      <4>1. l + 0 * Minute = l
        BY Ceilings
      <4>2. Min({full, l}) = l
        BY <3>1, MinOfTwo
      <4> QED BY <4>1, <4>2
    <3> QED BY <3>1, <3>2
  <2>2. 0 \in 0 .. n
    BY Ceilings
  <2> QED BY <1>7, <1>8, <2>1, <2>2, SameLevels
<1>9. CASE u > 0 /\ Capacity[t]["tpm"] > 0 /\ bucket' = Refunded(t, u)
  <2>1. u \in Nat /\ u \in 0 .. n
    BY <1>1, <1>9
  <2>2. /\ Store(Refunded(t, u))
        /\ \A v \in Tenants, d \in Dims :
             LevelOf(Refunded(t, u)[v][d], Capacity[v][d]) =
               IF v = t /\ d = "tpm" THEN Min({Full(t, "tpm"), Level(t, "tpm") + u * Minute})
               ELSE Level(v, d)
    BY <1>9, <2>1, RefundedPays DEF IInv, Shape
  <2>3. Store(bucket)'
    BY <1>9, <2>2
  <2> QED BY <1>7, <1>9, <2>1, <2>2, <2>3 DEF Later
<1> QED BY <1>1, <1>8, <1>9 DEF Refund, RefundLost

\* A second is a refill of every bucket, dropped or not.
LEMMA TickMaps ==
    ASSUME IInv, Tick
    PROVE  Buckets!Next
<1>1. /\ Store(bucket)'
      /\ \A t \in Tenants, d \in Dims :
           Later(t, d) = Min({Full(t, d), Level(t, d) + Capacity[t][d]})
  BY TickRefills, LevelIs DEF IInv, Shape, Later
<1>2. Abstract = [v \in Tenants |-> [d \in Dims |-> Level(v, d)]]
  BY AbstractIs DEF IInv, Shape
<1>3. Abstract' = [v \in Tenants |-> [d \in Dims |-> Later(v, d)]]
  BY <1>1, AbstractThen
<1>4. ASSUME NEW t \in Tenants, NEW d \in Dims
      PROVE  Later(t, d) = Buckets!Least(Buckets!Full(t)[d], Abstract[t][d] + Capacity[t][d])
  <2>1. PICK full \in Nat, l \in Nat, cap \in Nat :
          full = Full(t, d) /\ l = Level(t, d) /\ cap = Capacity[t][d]
    BY LevelNat DEF IInv, Shape
  <2>2. Min({full, l + cap}) = IF full <= l + cap THEN full ELSE l + cap
    BY MinOfTwo
  <2>3. Min({full, l + cap}) = IF full < l + cap THEN full ELSE l + cap
    BY <2>2
  <2>4. Buckets!Full(t)[d] = full /\ Abstract[t][d] = l
    BY <1>2, <2>1 DEF Buckets!Full, Buckets!Dims, Full, Dims
  <2> QED BY <1>1, <2>1, <2>3, <2>4 DEF Buckets!Least
<1>5. Abstract' = [t \in Tenants |-> [d \in Dims |->
                     Buckets!Least(Buckets!Full(t)[d], Abstract[t][d] + Capacity[t][d])]]
  BY <1>3, <1>4
<1>6. UNCHANGED Reserved
  BY DEF Tick, Reserved, IInv, Shape, Client
<1>7. Buckets!Refill
  BY <1>5, <1>6 DEF Buckets!Refill, Buckets!Dims, Abstract, Dims
<1> QED BY <1>7 DEF Buckets!Next

\* Either backend, with its lazy refill, its sweep or its expiring keys,
\* implements buckets that are never dropped and refill all the time.
THEOREM RefinesBuckets == Spec => ImplementsBuckets
<1>1. ASSUME Init PROVE Buckets!Init
  <2>1. Store(bucket)
    BY <1>1, InitInv DEF IInv, Shape
  <2>2. Reserved = {}
    BY <1>1, IdleClient DEF Init, Reserved
  <2>3. ASSUME NEW t \in Tenants, NEW d \in Dims PROVE Level(t, d) = Full(t, d)
    BY <1>1 DEF Init, Level
  <2>4. Abstract = [t \in Tenants |-> [d \in Dims |-> Full(t, d)]]
    BY <2>1, <2>3, AbstractIs
  <2>5. Abstract = [t \in Tenants |-> Buckets!Full(t)]
    BY <2>4 DEF Buckets!Full, Buckets!Dims, Full, Dims
  <2> QED BY <2>2, <2>5 DEF Buckets!Init, Abstract
<1>2. ASSUME IInv, [Next]_vars
      PROVE  [Buckets!Next]_<<Abstract, Reserved>>
  <2>1. ASSUME NEW r \in Requests,
               Arrive(r) \/ Return(r) \/ GiveUp(r) \/ Acquire(r) \/ GateFull(r)
                 \/ Serve(r) \/ Release(r) \/ ReleaseRefused(r)
        PROVE  UNCHANGED <<Abstract, Reserved>>
    <3>1. UNCHANGED bucket
      BY <2>1 DEF Arrive, Return, GiveUp, Acquire, GateFull, Serve, Release, ReleaseRefused
    <3> QED BY <1>2, <2>1, <3>1, QuietMaps
  <2>2. CASE UNCHANGED vars
    BY <2>2 DEF vars, Abstract, Level, Reserved
  <2> QED BY <1>2, <2>1, <2>2, RejectedMaps, AllowedMaps, UnreachableMaps, RefundMaps, TickMaps
          DEF Next
<1> QED BY <1>1, <1>2, InitInv, NextInv, PTL
        DEF Spec, ImplementsBuckets, Buckets!Spec, Abstract
=============================================================================
