------------------------ MODULE RetryScheduleProofs ------------------------
(***************************************************************************)
(* Theorems about the schedule of a task that always fails, for every set  *)
(* of configurations, every latency and every width of the integers.       *)
(***************************************************************************)
EXTENDS RetrySchedule, FiniteSetTheorems, TLAPS

(* A power of two counts the subsets of a set, of which there is one. *)
LEMMA PowerPositive ==
    ASSUME NEW k \in Nat
    PROVE  2^k \in Nat /\ 2^k > 0
<1>1. IsFiniteSet(1 .. k) /\ Cardinality(1 .. k) = k
  BY FS_Interval
<1>2. IsFiniteSet(SUBSET (1 .. k)) /\ Cardinality(SUBSET (1 .. k)) = 2^k
  BY <1>1, FS_SUBSET
<1>3. SUBSET (1 .. k) # {}
  OBVIOUS
<1>4. Cardinality(SUBSET (1 .. k)) \in Nat /\ Cardinality(SUBSET (1 .. k)) # 0
  BY <1>2, <1>3, FS_CardinalityType, FS_EmptySet
<1>5. \A n \in Nat : n # 0 => n > 0
  OBVIOUS
<1> QED
  BY <1>2, <1>4, <1>5, Zenon

(* A doubled delay is an integer, and so is a halved one. *)
LEMMA DoubledType ==
    ASSUME NEW cf \in RetryConfigs, NEW k \in Int
    PROVE  Doubled(cf, k) \in Int
<1>1. CASE k >= 0
  <2>1. 2^k \in Int
    BY <1>1
  <2>2. MinDuration \in Int /\ MaxDuration \in Int
    BY RetryPolicyAssumption DEF MinDuration
  <2> QED
    BY <1>1, <2>1, <2>2 DEF Doubled, FloatToDuration, RetryConfigs
<1>2. CASE k < 0
  <2>1. PICK p \in Nat : p = 2^(-k) /\ p > 0
    BY <1>2, PowerPositive
  <2>2. \A x \in Int : x \div p \in Int
    BY <2>1
  <2> QED
    BY <1>2, <2>1, <2>2 DEF Doubled, Halved, RetryConfigs
<1> QED
  BY <1>1, <1>2

(* The clamps work on whatever came out of the arithmetic (queue.go:264).   *)
LEMMA BackoffRange ==
    ASSUME NEW cf \in RetryConfigs, NEW n \in Nat, n > 0
    PROVE  /\ Backoff(cf, n) \in Int
           /\ IF cf.MaxBackoff >= 0 THEN Backoff(cf, n) \in 0 .. cf.MaxBackoff
              ELSE Backoff(cf, n) = cf.MaxBackoff
<1>1. PICK d \in Int :
        Backoff(cf, n) = IF d > cf.MaxBackoff \/ d < 0
                         THEN cf.MaxBackoff ELSE d
  <2>1. \A x \in Int : Wrap(x) \in Int
    BY RetryPolicyAssumption DEF Wrap, MinDuration
  <2> QED
    BY <2>1, DoubledType DEF Backoff, RetryConfigs
<1>2. cf.MaxBackoff \in Int
  BY DEF RetryConfigs
<1> QED
  BY <1>1, <1>2

(* The initial state has no delay. *)
LEMMA ScheduleInit == Init => TypeOK /\ BackoffInRange
<1> SUFFICES ASSUME Init PROVE TypeOK /\ BackoffInRange
  OBVIOUS
<1>1. TypeOK
  <2>1. dropped \in BOOLEAN
    BY DEF Init
  <2>2. dispatched \in 0 .. MaxDispatched
    BY RetryScheduleAssumption DEF Init
  <2> QED
    BY <2>1, <2>2 DEF Init, TypeOK
<1>2. ~Retried
  BY DEF Init, Retried
<1> QED
  BY <1>1, <1>2 DEF BackoffInRange

(* A failure leaves the schedule well typed and its delay in range. *)
LEMMA ScheduleStep ==
    ASSUME TypeOK, BackoffInRange, Next
    PROVE  (TypeOK /\ BackoffInRange)'
<1>1. PICK latency \in Latencies : AttemptFails(latency)
  BY DEF Next
<1>2. /\ rc \in RetryConfigs /\ rc' = rc
      /\ latency \in Nat /\ MaxDispatched \in Nat
  BY <1>1, RetryScheduleAssumption DEF TypeOK, AttemptFails
<1>3. /\ dispatched' \in 1 .. MaxDispatched
      /\ failedAt' \in Nat
  BY <1>1, <1>2 DEF TypeOK, AttemptFails, Start
<1>4. CASE ShouldRetry(rc, dispatched', failedAt')
  <2>1. delay' = Backoff(rc, dispatched') /\ due' = failedAt' + delay'
    BY <1>1, <1>4 DEF AttemptFails
  <2>2. dispatched' \in Nat /\ dispatched' > 0
    BY <1>2, <1>3
  <2>3. /\ delay' \in Int
        /\ IF rc.MaxBackoff >= 0 THEN delay' \in 0 .. rc.MaxBackoff
           ELSE delay' = rc.MaxBackoff
    BY <1>2, <2>1, <2>2, BackoffRange
  <2>4. TypeOK'
    <3>1. due' \in Int
      BY <1>3, <2>1, <2>3
    <3>2. dropped' \in BOOLEAN
      BY <1>1, <1>4 DEF AttemptFails, TypeOK
    <3>3. dispatched' \in 0 .. MaxDispatched
      BY <1>2, <1>3
    <3> QED
      BY <1>2, <1>3, <2>3, <3>1, <3>2, <3>3 DEF TypeOK
  <2> QED
    BY <1>2, <2>3, <2>4 DEF BackoffInRange
<1>5. CASE ~ShouldRetry(rc, dispatched', failedAt')
  <2>1. delay' = delay /\ due' = due /\ dropped' = TRUE
    BY <1>1, <1>5 DEF AttemptFails
  <2> QED
    BY <1>2, <1>3, <2>1 DEF TypeOK, BackoffInRange, Retried
<1> QED
  BY <1>4, <1>5

(***************************************************************************)
(* The two facts together, which is what a step preserves.                 *)
(***************************************************************************)
THEOREM ScheduleInvariant == Spec => [](TypeOK /\ BackoffInRange)
<1> DEFINE Inv == TypeOK /\ BackoffInRange
<1>1. Init => Inv
  BY ScheduleInit
<1>2. Inv /\ [Next]_vars => Inv'
  <2> SUFFICES ASSUME Inv, [Next]_vars PROVE Inv'
    OBVIOUS
  <2>1. CASE Next
    BY <2>1, ScheduleStep
  <2>2. CASE UNCHANGED vars
    BY <2>2 DEF vars, TypeOK, BackoffInRange, Retried
  <2> QED
    BY <2>1, <2>2
<1> QED
  BY <1>1, <1>2, PTL DEF Spec

(***************************************************************************)
(* Whatever overflows in backoff (queue.go:258-269) and whatever signs the *)
(* client's settings have, a retry is scheduled neither into the past nor  *)
(* later than MaxBackoff after the failure, except that a negative         *)
(* MaxBackoff is itself the delay.                                         *)
(***************************************************************************)
THEOREM DelaysInRange == Spec => []BackoffInRange
BY ScheduleInvariant, PTL

---------------------------------------------------------------------------
(* The powers of two, from what is known about the subsets of a finite set. *)
LEMMA PowerStep ==
    ASSUME NEW k \in Nat
    PROVE  2^k \in Nat /\ 2^(k + 1) = 2 * 2^k
<1> DEFINE S == 1 .. k
           T == 1 .. (k + 1)
           A == SUBSET S
           B == {X \in SUBSET T : k + 1 \in X}
           f == [X \in A |-> X \union {k + 1}]
<1>1. IsFiniteSet(S) /\ Cardinality(S) = k /\ IsFiniteSet(T) /\ Cardinality(T) = k + 1
  BY FS_Interval
<1>2. /\ IsFiniteSet(A) /\ Cardinality(A) = 2^k
      /\ IsFiniteSet(SUBSET T) /\ Cardinality(SUBSET T) = 2^(k + 1)
  BY <1>1, FS_SUBSET
<1>3. f \in Bijection(A, B)
  <2>1. \A X \in A : f[X] \in B
    OBVIOUS
  <2>2. \A X, Y \in A : f[X] = f[Y] => X = Y
    <3> SUFFICES ASSUME NEW X \in A, NEW Y \in A, X \union {k + 1} = Y \union {k + 1} PROVE X = Y
      OBVIOUS
    <3>1. k + 1 \notin X /\ k + 1 \notin Y
      OBVIOUS
    <3> QED
      BY <3>1
  <2>3. \A Z \in B : \E X \in A : f[X] = Z
    <3> SUFFICES ASSUME NEW Z \in B PROVE \E X \in A : f[X] = Z
      OBVIOUS
    <3>1. Z \ {k + 1} \in A
      OBVIOUS
    <3>2. (Z \ {k + 1}) \union {k + 1} = Z
      OBVIOUS
    <3> QED
      BY <3>1, <3>2
  <2>4. f \in [A -> B]
    BY <2>1
  <2> QED
    BY <2>2, <2>3, <2>4 DEF Bijection, Injection, Surjection, IsInjective
<1>4. IsFiniteSet(B) /\ Cardinality(B) = Cardinality(A)
  BY <1>2, <1>3, FS_Bijection DEF ExistsBijection
<1>5. SUBSET T = A \union B /\ A \intersect B = {}
  OBVIOUS
<1>6. Cardinality(SUBSET T) = Cardinality(A) + Cardinality(B) - Cardinality(A \intersect B)
  BY <1>2, <1>4, <1>5, FS_Union
<1>7. Cardinality({}) = 0
  BY FS_EmptySet
<1>8. Cardinality(A) \in Nat
  BY <1>2, FS_CardinalityType
<1>9. Cardinality(SUBSET T) = Cardinality(A) + Cardinality(A) - 0
  BY <1>4, <1>5, <1>6, <1>7, Zenon
<1>10. ASSUME NEW x, NEW y, x \in Nat, y = x + x - 0 PROVE y = 2 * x
  BY <1>10
<1>11. Cardinality(SUBSET T) = 2 * Cardinality(A)
  BY <1>8, <1>9, <1>10, Zenon
<1> QED
  BY <1>2, <1>8, <1>11, Zenon

---------------------------------------------------------------------------
(* The reference.                                                            *)

(* Growth, of a configuration. *)
GrowthOf(c) ==
    CHOOSE g : g = [n \in Nat |->
        IF n <= 1 THEN c.MinBackoff
        ELSE IF n - 1 <= c.MaxDoublings THEN 2 * g[n - 1]
        ELSE g[n - 1] + c.MinBackoff * 2^c.MaxDoublings]

(* The true delay without a recursion. *)
Closed(c, n) ==
    IF n <= 1 THEN c.MinBackoff
    ELSE IF n - 1 <= c.MaxDoublings THEN c.MinBackoff * 2^(n - 1)
    ELSE (c.MinBackoff * 2^c.MaxDoublings) * (n - c.MaxDoublings)

(* One more retry: the delay doubles, or grows by the last doubled value. *)
LEMMA ClosedStep ==
    ASSUME NEW c \in RetryConfigs, c.MaxDoublings >= 0, NEW n \in Nat, n > 1
    PROVE  /\ n - 1 <= c.MaxDoublings => Closed(c, n) = 2 * Closed(c, n - 1)
           /\ ~(n - 1 <= c.MaxDoublings) =>
                 Closed(c, n) = Closed(c, n - 1) + c.MinBackoff * 2^c.MaxDoublings
<1>1. PICK b \in Int, m \in Nat : b = c.MinBackoff /\ m = c.MaxDoublings
  BY DEF RetryConfigs
<1>2. n - 2 \in Nat /\ n - 1 \in Nat /\ (n - 2) + 1 = n - 1
  OBVIOUS
<1>3. 2^(n - 2) \in Nat /\ 2^(n - 1) = 2 * 2^(n - 2) /\ 2^m \in Nat
  BY <1>2, PowerStep
<1>4. 2^0 = 1
  OBVIOUS
<1>5. PICK x \in Nat : x = 2^(n - 2)
  BY <1>3
<1>6. PICK d \in Int : d = b * 2^m
  BY <1>3
<1>7. Closed(c, n) = IF n - 1 <= m THEN b * (2 * x) ELSE d * (n - m)
  BY <1>1, <1>3, <1>5, <1>6 DEF Closed
<1>8. Closed(c, n - 1) = IF n - 1 <= 1 THEN b
                         ELSE IF n - 2 <= m THEN b * x ELSE d * (n - 1 - m)
  BY <1>1, <1>5, <1>6, <1>2 DEF Closed
<1>9. n - 1 <= 1 => x = 1
  <2>1. n - 1 <= 1 => n - 2 = 0
    OBVIOUS
  <2> QED
    BY <1>4, <1>5, <2>1, Zenon
<1>10. CASE n - 1 <= m
  <2>1. Closed(c, n - 1) = b * x
    BY <1>8, <1>9, <1>10
  <2>2. b * (2 * x) = 2 * (b * x)
    OBVIOUS
  <2> QED
    BY <1>1, <1>7, <1>10, <2>1, <2>2
<1>11. CASE ~(n - 1 <= m)
  <2>1. Closed(c, n) = d * (n - m)
    BY <1>7, <1>11
  <2>2. Closed(c, n - 1) = d * (n - 1 - m)
    <3>1. CASE n - 2 <= m
      <4>1. n - 2 = m /\ n - 1 - m = 1
        BY <1>11, <3>1
      <4>2. d = b * x
        BY <1>5, <1>6, <4>1
      <4>3. Closed(c, n - 1) = b * x
        BY <1>8, <1>9, <3>1
      <4> QED
        BY <4>1, <4>2, <4>3
    <3>2. CASE ~(n - 2 <= m)
      BY <1>8, <3>2
    <3> QED
      BY <3>1, <3>2
  <2>3. d * (n - m) = d * (n - 1 - m) + d
    OBVIOUS
  <2> QED
    BY <1>1, <1>6, <1>11, <2>1, <2>2, <2>3
<1> QED
  BY <1>1, <1>10, <1>11

(* The closed form solves the equation that defines the reference, so there is a function *)
(* for CHOOSE to choose, and the reference obeys its own equation.                        *)
LEMMA GrowthEquation ==
    ASSUME NEW c \in RetryConfigs, c.MaxDoublings >= 0, NEW n \in Nat
    PROVE  GrowthOf(c)[n] =
             IF n <= 1 THEN c.MinBackoff
             ELSE IF n - 1 <= c.MaxDoublings THEN 2 * GrowthOf(c)[n - 1]
             ELSE GrowthOf(c)[n - 1] + c.MinBackoff * 2^c.MaxDoublings
<1> DEFINE F(g) == [k \in Nat |->
                      IF k <= 1 THEN c.MinBackoff
                      ELSE IF k - 1 <= c.MaxDoublings THEN 2 * g[k - 1]
                      ELSE g[k - 1] + c.MinBackoff * 2^c.MaxDoublings]
           h == [k \in Nat |-> Closed(c, k)]
<1>1. \A k \in Nat : h[k] = IF k <= 1 THEN c.MinBackoff
                            ELSE IF k - 1 <= c.MaxDoublings THEN 2 * h[k - 1]
                            ELSE h[k - 1] + c.MinBackoff * 2^c.MaxDoublings
  <2> SUFFICES ASSUME NEW k \in Nat
               PROVE  h[k] = IF k <= 1 THEN c.MinBackoff
                             ELSE IF k - 1 <= c.MaxDoublings THEN 2 * h[k - 1]
                             ELSE h[k - 1] + c.MinBackoff * 2^c.MaxDoublings
    OBVIOUS
  <2>1. CASE k <= 1
    BY <2>1 DEF Closed
  <2>2. CASE k > 1
    <3>1. h[k] = Closed(c, k) /\ h[k - 1] = Closed(c, k - 1)
      BY <2>2
    <3> HIDE DEF h
    <3> QED
      BY <2>2, <3>1, ClosedStep
  <2> QED
    BY <2>1, <2>2
<1>2. h = F(h)
  BY <1>1
<1>3. GrowthOf(c) = F(GrowthOf(c))
  BY <1>2 DEF GrowthOf
<1>4. PICK g : g = GrowthOf(c) /\ g = F(g)
  BY <1>3
<1> QED
  BY <1>4

---------------------------------------------------------------------------
(* The arithmetic of backoff.                                                *)

(* What fits does not wrap around, and is converted exactly. *)
LEMMA Exact ==
    ASSUME NEW x \in MinDuration .. MaxDuration
    PROVE  Wrap(x) = x /\ FloatToDuration(x) = x
<1>1. x - MinDuration \in Nat /\ 2 * (MaxDuration + 1) \in Nat /\ x - MinDuration < 2 * (MaxDuration + 1)
  BY RetryPolicyAssumption DEF MinDuration
<1>2. \A a, b \in Nat : a < b => a % b = a
  OBVIOUS
<1>3. (x - MinDuration) % (2 * (MaxDuration + 1)) = x - MinDuration
  BY <1>1, <1>2, Zenon
<1> QED
  BY <1>3, RetryPolicyAssumption DEF Wrap, FloatToDuration, MinDuration

(* A product that fits has a factor, and a smaller product, that fit. *)
LEMMA SmallerFits ==
    ASSUME NEW d \in Int, NEW k \in Nat, d * (k + 1) \in MinDuration .. MaxDuration
    PROVE  d \in MinDuration .. MaxDuration /\ d * k \in MinDuration .. MaxDuration
<1>1. MinDuration \in Int /\ MinDuration <= 0 /\ MaxDuration \in Int /\ MaxDuration >= 0
  BY RetryPolicyAssumption DEF MinDuration
<1> QED
  BY <1>1

(* No doublings are negative where MaxDoublings is not. *)
LEMMA DoubledUp ==
    ASSUME NEW c, NEW k \in Nat
    PROVE  Doubled(c, k) = FloatToDuration(c.MinBackoff * 2^k)
<1>1. k >= 0
  OBVIOUS
<1> QED
  BY <1>1, Zenon DEF Doubled

(* While the true delay fits, backoff clamps nothing else. *)
LEMMA BackoffExact ==
    ASSUME NEW c \in RetryConfigs, c.MaxDoublings >= 0, NEW n \in Nat, n > 0,
           Closed(c, n) \in MinDuration .. MaxDuration
    PROVE  Backoff(c, n) = IF Closed(c, n) \in 0 .. c.MaxBackoff THEN Closed(c, n)
                           ELSE c.MaxBackoff
<1>1. PICK b \in Int, m \in Nat, top \in Int :
         b = c.MinBackoff /\ m = c.MaxDoublings /\ top = c.MaxBackoff
  BY DEF RetryConfigs
<1>2. PICK x \in Int : x = Closed(c, n) /\ x \in MinDuration .. MaxDuration
  BY RetryPolicyAssumption DEF MinDuration
<1>3. ASSUME NEW d, d = x,
             Backoff(c, n) = IF d > c.MaxBackoff \/ d < 0 THEN c.MaxBackoff ELSE d
      PROVE  Backoff(c, n) = IF x \in 0 .. c.MaxBackoff THEN x ELSE c.MaxBackoff
  BY <1>1, <1>3
<1>4. CASE n - 1 - m > 0
  <2>1. PICK d \in Int, k \in Nat : d = b * 2^m /\ k = n - 1 - m
    BY <1>4, PowerStep
  <2>2. x = d * (k + 1)
    <3>1. Closed(c, n) = d * (n - m)
      BY <1>1, <1>4, <2>1 DEF Closed
    <3> QED
      BY <1>2, <2>1, <3>1
  <2>3. d \in MinDuration .. MaxDuration /\ d * k \in MinDuration .. MaxDuration
    BY <1>2, <2>2, SmallerFits
  <2>4. Doubled(c, c.MaxDoublings) = d
    <3>1. Doubled(c, m) = FloatToDuration(c.MinBackoff * 2^m)
      BY DoubledUp
    <3> QED
      BY <1>1, <2>1, <2>3, <3>1, Exact, Zenon
  <2>5. Wrap(k * d) = d * k
    BY <2>3, Exact
  <2>6. Wrap(d + d * k) = x
    <3>1. d + d * k = x
      BY <2>2
    <3> QED
      BY <1>2, <3>1, Exact, Zenon
  <2>7. Backoff(c, n) = LET e == Wrap(d + Wrap(k * d))
                        IN  IF e > c.MaxBackoff \/ e < 0 THEN c.MaxBackoff ELSE e
    <3>1. n - 1 - c.MaxDoublings = k /\ k > 0
      BY <1>1, <1>4, <2>1
    <3> QED
      BY <2>4, <3>1, Zenon DEF Backoff
  <2>8. Backoff(c, n) = IF x > c.MaxBackoff \/ x < 0 THEN c.MaxBackoff ELSE x
    BY <2>5, <2>6, <2>7, Zenon
  <2> QED
    BY <1>2, <1>3, <2>8, Zenon
<1>5. CASE ~(n - 1 - m > 0)
  <2>1. Closed(c, n) = b * 2^(n - 1)
    <3>1. CASE n <= 1
      <4>1. n - 1 = 0 /\ 2^0 = 1 /\ b * 1 = b
        BY <3>1
      <4>2. b * 2^(n - 1) = b
        BY <4>1, Zenon
      <4> QED
        BY <1>1, <3>1, <4>2, Zenon DEF Closed
    <3>2. CASE ~(n <= 1)
      <4>1. n - 1 <= c.MaxDoublings
        BY <1>1, <1>5
      <4> QED
        BY <1>1, <3>2, <4>1, Zenon DEF Closed
    <3> QED
      BY <3>1, <3>2
  <2>2. Doubled(c, n - 1) = x
    <3>1. n - 1 \in Nat
      OBVIOUS
    <3>2. Doubled(c, n - 1) = FloatToDuration(c.MinBackoff * 2^(n - 1))
      BY <3>1, DoubledUp
    <3> QED
      BY <1>1, <1>2, <2>1, <3>2, Exact, Zenon
  <2>3. Backoff(c, n) = IF x > c.MaxBackoff \/ x < 0 THEN c.MaxBackoff ELSE x
    BY <1>1, <1>5, <2>2, Zenon DEF Backoff
  <2> QED
    BY <1>2, <1>3, <2>3, Zenon
<1> QED
  BY <1>4, <1>5

---------------------------------------------------------------------------
(* The steps.                                                                *)

(* At the attempt that has been counted last, the reference is the closed form. *)
GrowthKnown == rc.MaxDoublings >= 0 => Growth[dispatched] = Closed(rc, dispatched)

(* An attempt takes the reference one step further, and backoff with it. *)
LEMMA GrowthStep ==
    ASSUME TypeOK, GrowthKnown, BackoffMatchesGrowth, Next
    PROVE  GrowthKnown' /\ BackoffMatchesGrowth'
<1>1. PICK latency \in Latencies : AttemptFails(latency)
  BY DEF Next
<1>2. /\ rc \in RetryConfigs /\ rc' = rc
      /\ dispatched \in Nat /\ dispatched' = dispatched + 1
  BY <1>1, RetryScheduleAssumption DEF TypeOK, AttemptFails
<1>3. PICK n \in Nat : n = dispatched + 1 /\ n - 1 = dispatched /\ n > 0
  BY <1>2
<1>4. CASE rc.MaxDoublings >= 0
  <2>1. Growth = GrowthOf(rc) /\ Growth' = GrowthOf(rc')
    BY Zenon DEF Growth, GrowthOf
  <2>2. GrowthOf(rc)[n - 1] = Closed(rc, n - 1)
    BY <1>3, <1>4, <2>1, Zenon DEF GrowthKnown
  <2>3. GrowthOf(rc)[n] = Closed(rc, n)
    <3>1. CASE n <= 1
      BY <1>2, <1>4, <3>1, GrowthEquation DEF Closed
    <3>2. CASE n > 1
      BY <1>2, <1>4, <2>2, <3>2, GrowthEquation, ClosedStep
    <3> QED
      BY <3>1, <3>2
  <2>4. (Growth[dispatched])' = GrowthOf(rc)[n]
    BY <1>2, <1>3, <2>1, Zenon
  <2>5. GrowthKnown'
    BY <1>2, <1>3, <2>3, <2>4, Zenon DEF GrowthKnown
  <2>6. BackoffMatchesGrowth'
    <3> SUFFICES ASSUME Retried', (~Overflows)'
                 PROVE  (delay = IF Growth[dispatched] \in 0 .. rc.MaxBackoff
                                 THEN Growth[dispatched] ELSE rc.MaxBackoff)'
      BY Zenon DEF BackoffMatchesGrowth
    <3>1. delay' = Backoff(rc, n)
      BY <1>1, <1>2, <1>3 DEF AttemptFails, Retried
    <3>2. Closed(rc, n) \in MinDuration .. MaxDuration
      BY <2>3, <2>4, Zenon DEF Overflows
    <3>3. delay' = IF Closed(rc, n) \in 0 .. rc.MaxBackoff THEN Closed(rc, n) ELSE rc.MaxBackoff
      BY <1>2, <1>3, <1>4, <3>1, <3>2, BackoffExact
    <3> QED
      BY <1>2, <2>3, <2>4, <3>3, Zenon
  <2> QED
    BY <2>5, <2>6
<1>5. CASE ~(rc.MaxDoublings >= 0)
  BY <1>2, <1>5, Zenon DEF GrowthKnown, BackoffMatchesGrowth
<1> QED
  BY <1>4, <1>5

(***************************************************************************)
(* While the true delay fits in a time.Duration, backoff computes it, and  *)
(* clamps it to MaxBackoff (queue.go:249), for every MinBackoff,           *)
(* MaxBackoff and number of doublings, a negative one excepted.            *)
(***************************************************************************)
THEOREM DelaysAsConfigured == Spec => []BackoffMatchesGrowth
<1>1. Init => GrowthKnown /\ BackoffMatchesGrowth
  <2> SUFFICES ASSUME Init PROVE GrowthKnown /\ BackoffMatchesGrowth
    OBVIOUS
  <2>1. rc \in RetryConfigs /\ dispatched = 0
    BY RetryScheduleAssumption DEF Init
  <2>2. Growth = GrowthOf(rc)
    BY Zenon DEF Growth, GrowthOf
  <2>3. rc.MaxDoublings >= 0 => GrowthOf(rc)[0] = rc.MinBackoff
    BY <2>1, GrowthEquation
  <2>4. Closed(rc, 0) = rc.MinBackoff
    BY DEF Closed
  <2>5. ~Retried
    BY <2>1 DEF Retried
  <2> QED
    BY <2>1, <2>2, <2>3, <2>4, <2>5, Zenon DEF GrowthKnown, BackoffMatchesGrowth
<1>2. TypeOK /\ GrowthKnown /\ BackoffMatchesGrowth /\ [Next]_vars
      => (GrowthKnown /\ BackoffMatchesGrowth)'
  <2> SUFFICES ASSUME TypeOK, GrowthKnown, BackoffMatchesGrowth, [Next]_vars
               PROVE  (GrowthKnown /\ BackoffMatchesGrowth)'
    OBVIOUS
  <2>1. CASE Next
    BY <2>1, GrowthStep
  <2>2. CASE UNCHANGED vars
    <3>1. rc' = rc /\ dispatched' = dispatched /\ delay' = delay /\ dropped' = dropped
      BY <2>2 DEF vars
    <3>2. Growth' = Growth
      BY <3>1, Zenon DEF Growth
    <3> QED
      BY <3>1, <3>2, Zenon DEF GrowthKnown, BackoffMatchesGrowth, Retried, Overflows
  <2> QED
    BY <2>1, <2>2
<1> QED
  BY <1>1, <1>2, ScheduleInvariant, PTL DEF Spec
=============================================================================
