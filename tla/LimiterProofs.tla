--------------------------- MODULE LimiterProofs ----------------------------
(* The rate and the burst of every limiter bound what it lets pass, for all    *)
(* rates, bursts, numbers of goroutines and updates.                           *)
EXTENDS Limiter, SequenceTheorems, TLAPS

-----------------------------------------------------------------------------
(* One limiter.                                                                *)

LimiterType == [rate : Int, burst : Nat \ {0}, tokens : Int, last : Nat,
                born : Nat, dues : Seq(Nat \union {Never})]

Pos(l) == IF l.rate <= 0 THEN 0 ELSE l.rate

\* What is left in the bucket, and what it has promised, is covered by its burst and by
\* what has come in: since it was made, and since each reservation was due.
Covered(l) ==
    LET n == Len(l.dues)
    IN  /\ l.born <= l.last
        /\ n * Unit + l.tokens <= l.burst * Unit + Pos(l) * (l.last - l.born)
        /\ \A j \in 1 .. n : l.dues[j] # Never =>
              /\ (n - j + 1) * Unit + l.tokens <= l.burst * Unit + Pos(l) * (l.last - l.dues[j] + 1)
              /\ j * Unit <= l.burst * Unit + Pos(l) * (l.dues[j] - l.born)
        /\ \A k \in 1 .. n : \A j \in 1 .. k : l.dues[j] # Never /\ l.dues[k] # Never =>
              (k - j + 1) * Unit <= l.burst * Unit + Pos(l) * (l.dues[k] - l.dues[j] + 1)

\* Arithmetic the solver needs to be told: what comes in over two times that follow
\* each other; w stands for a product, p for the beginning of a time.
LEMMA Telescope ==
    ASSUME NEW r \in Int, NEW x \in Int, NEW y \in Int, NEW z \in Int
    PROVE  /\ r * (z - x) \in Int /\ r * (z - y) \in Int /\ r * (y - x) \in Int
           /\ r * (z - x + 1) \in Int /\ r * (y - x + 1) \in Int
           /\ r * (z - x) = r * (z - y) + r * (y - x)
           /\ r * (z - x + 1) = r * (z - y) + r * (y - x + 1)
  OBVIOUS

LEMMA RefillSince ==
    ASSUME NEW w \in Int, NEW u \in Int, NEW t \in Int, NEW a \in Int, NEW b \in Int, NEW r \in Int,
           NEW p \in Int, NEW y \in Int, NEW z \in Int, a <= t + r * (z - y)
    PROVE  w + t <= b + r * (y - p) => w + u + (a - u) <= b + r * (z - p)
  BY Telescope

LEMMA RefillSinceDue ==
    ASSUME NEW w \in Int, NEW u \in Int, NEW t \in Int, NEW a \in Int, NEW b \in Int, NEW r \in Int,
           NEW p \in Int, NEW y \in Int, NEW z \in Int, a <= t + r * (z - y),
           w + t <= b + r * (y - p + 1)
    PROVE  w + u + (a - u) <= b + r * (z - p + 1)
  BY Telescope

LEMMA PaidWhenDue ==
    ASSUME NEW w \in Int, NEW t \in Int, NEW b \in Int, NEW r \in Int,
           NEW p \in Int, NEW y \in Int, NEW z \in Int, 0 <= t + r * (z - y)
    PROVE  /\ w + t <= b + r * (y - p) => w <= b + r * (z - p)
           /\ w + t <= b + r * (y - p + 1) => w <= b + r * (z - p + 1)
  BY Telescope

LEMMA OneMore ==
    ASSUME NEW n \in Int, NEW j \in Int, NEW u \in Int
    PROVE  /\ n * u \in Int /\ (n + 1) * u \in Int /\ (n + 1) * u = n * u + u
           /\ (n - j + 1) * u \in Int /\ ((n + 1) - j + 1) * u \in Int
           /\ ((n + 1) - j + 1) * u = (n - j + 1) * u + u
  OBVIOUS

LEMMA AtLeastOne ==
    ASSUME NEW b \in Nat \ {0}, NEW u \in Nat \ {0}
    PROVE  b * u \in Nat /\ b * u >= u
  <1>1. (b - 1) * u \in Nat /\ b * u = (b - 1) * u + u
    OBVIOUS
  <1>2. QED
    BY <1>1

\* Division, rounded up (the due time of a reservation).
LEMMA RoundedUp ==
    ASSUME NEW a \in Nat, NEW r \in Nat \ {0}
    PROVE  /\ (a + r - 1) \div r \in Nat
           /\ a <= r * ((a + r - 1) \div r)
           /\ r * ((a + r - 1) \div r) <= a + r - 1
  OBVIOUS

\* Advancing a bucket adds no more than comes in (rate.Limiter.advance).
LEMMA AdvanceBounds ==
    ASSUME LimiterAssumption, NEW l \in LimiterType, now \in Nat, l.last <= now
    PROVE  /\ Pos(l) \in Nat /\ Advance(l) \in Int
           /\ Advance(l) <= l.burst * Unit
           /\ Advance(l) <= l.tokens + Pos(l) * (now - l.last)
  <1>1. l.rate \in Int /\ l.burst \in Nat \ {0} /\ l.tokens \in Int /\ l.last \in Nat /\ Unit \in Nat \ {0}
    BY DEF LimiterType, LimiterAssumption
  <1>2. Refill(l) \in Nat /\ Refill(l) = Pos(l) * (now - l.last) /\ Pos(l) \in Nat
    BY <1>1 DEF Refill, Pos
  <1>3. l.burst * Unit \in Nat
    BY <1>1
  <1>4. QED
    BY <1>1, <1>2, <1>3 DEF Advance

\* A reservation is due when what it lacks has come in, and less than a tick later
\* (rate.Limiter.reserveN).
LEMMA DueBounds ==
    ASSUME LimiterAssumption, NEW l \in LimiterType, now \in Nat, NEW tokens \in Int
    PROVE  /\ Due(l, tokens) \in Nat \union {Never}
           /\ Due(l, tokens) # Never =>
                 /\ Due(l, tokens) >= now
                 /\ 0 <= tokens + Pos(l) * (Due(l, tokens) - now)
                 /\ Due(l, tokens) = now \/ Pos(l) * (Due(l, tokens) - now) <= Pos(l) - 1 - tokens
  <1>1. l.rate \in Int /\ Never \notin Int
    BY DEF LimiterType, LimiterAssumption
  <1>2. CASE tokens >= 0
    BY <1>1, <1>2 DEF Due, Pos
  <1>3. CASE tokens < 0 /\ l.rate <= 0
    BY <1>1, <1>3 DEF Due
  <1>4. CASE tokens < 0 /\ l.rate > 0
    <2>1. -tokens \in Nat /\ l.rate \in Nat \ {0} /\ Pos(l) = l.rate
      BY <1>1, <1>4 DEF Pos
    <2> DEFINE d == (-tokens + l.rate - 1) \div l.rate
    <2>2. d \in Nat /\ -tokens <= l.rate * d /\ l.rate * d <= -tokens + l.rate - 1
      BY <2>1, RoundedUp
    <2>3. Due(l, tokens) = now + d
      BY <1>1, <1>4 DEF Due
    <2> HIDE DEF d
    <2>4. QED
      BY <1>1, <2>1, <2>2, <2>3
  <1>5. QED
    BY <1>1, <1>2, <1>3, <1>4

\* A reservation keeps the bucket covered (rate.Limiter.reserveN).
LEMMA ReserveCovered ==
    ASSUME LimiterAssumption, NEW l \in LimiterType, now \in Nat, l.last <= now, Covered(l)
    PROVE  /\ Reserve(l) \in LimiterType /\ Reserve(l).last = now /\ Reserve(l).born = l.born
           /\ Reserve(l).rate = l.rate /\ Reserve(l).burst = l.burst
           /\ Len(Reserve(l).dues) = Len(l.dues) + 1
           /\ \A j \in 1 .. Len(l.dues) : Reserve(l).dues[j] = l.dues[j]
           /\ Covered(Reserve(l))
  <1> DEFINE m == Reserve(l)
             a == Advance(l)
             d == Due(l, a - Unit)
             n == Len(l.dues)
             B == l.burst * Unit
             R == Pos(l)
  <1>1. /\ l.rate \in Int /\ l.burst \in Nat \ {0} /\ l.tokens \in Int /\ l.last \in Nat
        /\ l.born \in Nat /\ l.dues \in Seq(Nat \union {Never})
        /\ Unit \in Nat \ {0} /\ Never \notin Int /\ n \in Nat
    BY DEF LimiterType, LimiterAssumption
  <1>2. R \in Nat /\ a \in Int /\ a <= B /\ a <= l.tokens + R * (now - l.last)
    BY AdvanceBounds
  <1>3. /\ d \in Nat \union {Never}
        /\ d # Never => /\ d >= now /\ 0 <= a - Unit + R * (d - now)
                        /\ d = now \/ R * (d - now) <= R - 1 - (a - Unit)
    BY <1>1, <1>2, DueBounds
  <1>4. B \in Nat /\ B >= Unit
    BY <1>1, AtLeastOne
  <1>5. m = [l EXCEPT !.tokens = a - Unit, !.last = now, !.dues = Append(l.dues, d)]
    BY DEF Reserve
  <1>6. /\ m \in LimiterType /\ m.last = now /\ m.born = l.born /\ m.rate = l.rate
        /\ m.burst = l.burst /\ m.tokens = a - Unit /\ m.dues = Append(l.dues, d) /\ Pos(m) = R
    <2>1. a - Unit \in Int /\ Append(l.dues, d) \in Seq(Nat \union {Never})
      BY <1>1, <1>2, <1>3
    <2> HIDE DEF a, d, m
    <2>2. m \in LimiterType
      BY <1>5, <2>1 DEF LimiterType
    <2>3. /\ m.last = now /\ m.born = l.born /\ m.rate = l.rate /\ m.burst = l.burst
          /\ m.tokens = a - Unit /\ m.dues = Append(l.dues, d)
      BY <1>5 DEF LimiterType
    <2>4. QED
      BY <2>2, <2>3 DEF Pos
  <1>7. /\ Len(m.dues) = n + 1 /\ m.dues[n + 1] = d
        /\ \A j \in 1 .. n : m.dues[j] = l.dues[j] /\ l.dues[j] \in Nat \union {Never}
    BY <1>1, <1>3, <1>6
  <1>8. /\ l.born <= l.last
        /\ n * Unit + l.tokens <= B + R * (l.last - l.born)
        /\ \A j \in 1 .. n : l.dues[j] # Never =>
              /\ (n - j + 1) * Unit + l.tokens <= B + R * (l.last - l.dues[j] + 1)
              /\ j * Unit <= B + R * (l.dues[j] - l.born)
        /\ \A k \in 1 .. n : \A j \in 1 .. k : l.dues[j] # Never /\ l.dues[k] # Never =>
              (k - j + 1) * Unit <= B + R * (l.dues[k] - l.dues[j] + 1)
    BY DEF Covered
  <1> HIDE DEF m, a, d, n, B, R
  <1>0. /\ B \in Int /\ R \in Int /\ l.born \in Int /\ l.last \in Int /\ now \in Int
        /\ l.tokens \in Int /\ Unit \in Int /\ a - Unit \in Int
    BY <1>1, <1>2, <1>4
  <1>9. l.born <= now /\ (n + 1) * Unit + (a - Unit) <= B + R * (now - l.born)
    <2>1. n * Unit \in Int /\ (n + 1) * Unit = n * Unit + Unit
      BY <1>1, OneMore
    <2>2. n * Unit + l.tokens <= B + R * (l.last - l.born) /\ l.born <= l.last
      BY <1>8
    <2>3. n * Unit + Unit + (a - Unit) <= B + R * (now - l.born)
      BY <1>0, <1>2, <2>1, <2>2, RefillSince, Zenon
    <2>4. QED
      BY <1>1, <2>1, <2>2, <2>3
  <1>10. ASSUME d # Never
         PROVE  (n + 1) * Unit <= B + R * (d - l.born)
    <2>1. (n + 1) * Unit \in Int /\ d \in Int /\ 0 <= (a - Unit) + R * (d - now)
      BY <1>1, <1>2, <1>3, <1>10, OneMore
    <2>2. QED
      BY <1>0, <1>9, <2>1, PaidWhenDue, Zenon
  <1>11. ASSUME d # Never
         PROVE  Unit + (a - Unit) <= B + R * (now - d + 1) /\ Unit <= B + R * (d - d + 1)
    <2>1. CASE d = now
      BY <1>1, <1>2, <1>3, <1>4, <1>11, <2>1
    <2>2. CASE R * (d - now) <= R - 1 - (a - Unit)
      BY <1>1, <1>2, <1>3, <1>4, <1>11, <2>2
    <2>3. QED
      BY <1>3, <1>11, <2>1, <2>2
  <1>12. ASSUME NEW j \in 1 .. n, l.dues[j] # Never
         PROVE  /\ ((n + 1) - j + 1) * Unit + (a - Unit) <= B + R * (now - l.dues[j] + 1)
                /\ d # Never => ((n + 1) - j + 1) * Unit <= B + R * (d - l.dues[j] + 1)
    <2>1. l.dues[j] \in Nat /\ j \in Nat
      BY <1>7, <1>12
    <2>2. (n - j + 1) * Unit + l.tokens <= B + R * (l.last - l.dues[j] + 1)
      BY <1>8, <1>12
    <2>3. ((n + 1) - j + 1) * Unit + (a - Unit) <= B + R * (now - l.dues[j] + 1)
      <3>1. (n - j + 1) * Unit \in Int /\ ((n + 1) - j + 1) * Unit = (n - j + 1) * Unit + Unit
        BY <1>1, <2>1, OneMore
      <3>2. (n - j + 1) * Unit + Unit + (a - Unit) <= B + R * (now - l.dues[j] + 1)
        <4>1. l.dues[j] \in Int /\ a \in Int /\ a <= l.tokens + R * (now - l.last)
          BY <1>2, <2>1
        <4> DEFINE w == (n - j + 1) * Unit
                   p == l.dues[j]
        <4>2. w \in Int /\ p \in Int /\ w + l.tokens <= B + R * (l.last - p + 1)
          BY <2>2, <3>1, <4>1
        <4> HIDE DEF w, p
        <4>3. w + Unit + (a - Unit) <= B + R * (now - p + 1)
          BY <1>0, <4>1, <4>2, RefillSinceDue, Zenon
        <4>4. QED
          BY <4>3 DEF w, p
      <3>3. QED
        BY <3>1, <3>2
    <2>4. ASSUME d # Never
          PROVE  ((n + 1) - j + 1) * Unit <= B + R * (d - l.dues[j] + 1)
      <3>1. /\ ((n + 1) - j + 1) * Unit \in Int /\ d \in Int /\ l.dues[j] \in Int
            /\ 0 <= (a - Unit) + R * (d - now)
        BY <1>1, <1>2, <1>3, <2>1, <2>4, OneMore
      <3>2. QED
        BY <1>0, <2>3, <3>1, PaidWhenDue, Zenon
    <2>5. QED
      BY <2>3, <2>4
  <1>13. Covered(m)
    <2>1. \A j \in 1 .. n + 1 : j \in 1 .. n \/ j = n + 1
      BY <1>1
    <2>2. \A j \in 1 .. n + 1 : m.dues[j] # Never =>
              /\ ((n + 1) - j + 1) * Unit + (a - Unit) <= B + R * (now - m.dues[j] + 1)
              /\ j * Unit <= B + R * (m.dues[j] - l.born)
      <3> SUFFICES ASSUME NEW j \in 1 .. n + 1, m.dues[j] # Never
                   PROVE  /\ ((n + 1) - j + 1) * Unit + (a - Unit) <= B + R * (now - m.dues[j] + 1)
                          /\ j * Unit <= B + R * (m.dues[j] - l.born)
        OBVIOUS
      <3>1. CASE j \in 1 .. n
        BY <1>7, <1>8, <1>12, <3>1
      <3>2. CASE j = n + 1
        <4>1. (n + 1) - j + 1 = 1 /\ 1 * Unit = Unit
          BY <1>1, <3>2
        <4>2. QED
          BY <1>7, <1>10, <1>11, <3>2, <4>1
      <3>3. QED
        BY <2>1, <3>1, <3>2
    <2>3. \A k \in 1 .. n + 1 : \A j \in 1 .. k : m.dues[j] # Never /\ m.dues[k] # Never =>
              (k - j + 1) * Unit <= B + R * (m.dues[k] - m.dues[j] + 1)
      <3> SUFFICES ASSUME NEW k \in 1 .. n + 1, NEW j \in 1 .. k, m.dues[j] # Never, m.dues[k] # Never
                   PROVE  (k - j + 1) * Unit <= B + R * (m.dues[k] - m.dues[j] + 1)
        OBVIOUS
      <3>1. CASE k \in 1 .. n
        <4>1. j \in 1 .. n
          BY <1>1, <3>1
        <4>2. QED
          BY <1>7, <1>8, <3>1, <4>1
      <3>2. CASE k = n + 1 /\ j \in 1 .. n
        BY <1>7, <1>12, <3>2
      <3>3. CASE k = n + 1 /\ j = n + 1
        <4>1. k - j + 1 = 1 /\ 1 * Unit = Unit
          BY <1>1, <3>3
        <4>2. QED
          BY <1>7, <1>11, <3>3, <4>1
      <3>4. QED
        BY <1>1, <2>1, <3>1, <3>2, <3>3
    <2>4. QED
      BY <1>6, <1>7, <1>9, <2>2, <2>3 DEF Covered, B
  <1>14. QED
    BY <1>6, <1>7, <1>13 DEF m, n

-----------------------------------------------------------------------------
(* All of them.                                                                *)

\* Every limiter of the queue, replaced or not, is covered.
AllCovered ==
    \A g \in 1 .. Len(limiters) : Covered(limiters[g]) /\ limiters[g].last <= now

\* Who waits holds a reservation of the limiter captured, not of the queue's last one.
Tickets ==
    \A d \in Drivers : driver[d].pc = "waiting" =>
        driver[d].ticket \in 1 .. Len(limiters[driver[d].lim].dues)

\* What has passed was due.
PassedDue ==
    \A g \in 1 .. MaxUpdates + 1 : \A k \in passed[g] :
        /\ g <= Len(limiters) /\ k \in 1 .. Len(limiters[g].dues)
        /\ limiters[g].dues[k] # Never /\ limiters[g].dues[k] <= now

IInv == TypeOK /\ AllCovered /\ Tickets /\ PassedDue

\* A new limiter is full, and has promised nothing (rebuildLimits).
LEMMA NewCovered ==
    ASSUME LimiterAssumption, BurstAssumption, NEW rate \in Rates, now \in Nat
    PROVE  /\ NewLimiter(rate) \in LimiterType /\ Covered(NewLimiter(rate))
           /\ NewLimiter(rate).last = now /\ NewLimiter(rate).dues = <<>>
  <1> DEFINE r == EffectiveRate(rate)
             b == Burst(EffectiveRate(rate))
             l == NewLimiter(rate)
  <1>1. r \in Int /\ Unit \in Nat \ {0}
    BY DEF LimiterAssumption, EffectiveRate
  <1>2. ComputeBurstSize(r) \in Nat
    BY DEF BurstAssumption
  <1>3. b \in Nat \ {0}
    <2> HIDE DEF r
    <2>1. QED
      BY <1>2 DEF Burst, r
  <1>4. l = [rate |-> r, burst |-> b, tokens |-> b * Unit, last |-> now, born |-> now, dues |-> <<>>]
    BY DEF NewLimiter
  <1> HIDE DEF r, b, l
  <1>5. b * Unit \in Int /\ <<>> \in Seq(Nat \union {Never}) /\ Len(<<>>) = 0
    BY <1>1, <1>3
  <1>6. l \in LimiterType
    BY <1>1, <1>3, <1>4, <1>5 DEF LimiterType
  <1>7. /\ l.rate = r /\ l.burst = b /\ l.tokens = b * Unit /\ l.last = now /\ l.born = now
        /\ l.dues = <<>>
    BY <1>4
  <1>8. Pos(l) \in Int
    BY <1>1, <1>7 DEF Pos
  <1>9. Pos(l) * (now - now) = 0 /\ 0 * Unit = 0
    BY <1>1, <1>8
  <1>10. 0 * Unit + b * Unit <= b * Unit + Pos(l) * (now - now) /\ now <= now
    BY <1>5, <1>9
  <1>11. Covered(l)
    BY <1>5, <1>7, <1>10 DEF Covered
  <1>12. QED
    BY <1>6, <1>7, <1>11 DEF l

LEMMA TypeOKLimiters ==
    ASSUME TypeOK
    PROVE  /\ limiters \in Seq(LimiterType) /\ Len(limiters) \in Nat
           /\ \A g \in 1 .. Len(limiters) : limiters[g] \in LimiterType /\ g \in 1 .. MaxUpdates + 1
           /\ \A d \in Drivers : driver[d].lim \in 1 .. Len(limiters)
  <1>1. limiters \in Seq(LimiterType)
    BY DEF TypeOK, LimiterType
  <1>2. /\ Len(limiters) \in Nat /\ Len(limiters) \in 1 .. MaxUpdates + 1 /\ MaxUpdates + 1 \in Nat
        /\ \A g \in 1 .. Len(limiters) : limiters[g] \in LimiterType
    <2>1. MaxUpdates \in Nat
      BY LimiterAssumption DEF LimiterAssumption
    <2>2. QED
      BY <1>1, <2>1 DEF TypeOK
  <1>3. \A d \in Drivers : driver[d].lim \in 1 .. MaxUpdates + 1 /\ driver[d].lim <= Len(limiters)
    BY DEF TypeOK
  <1>4. QED
    BY <1>1, <1>2, <1>3

LEMMA InitIInv ==
    ASSUME LimiterAssumption, BurstAssumption, Init
    PROVE  IInv
  <1>1. PICK rate \in Rates : limiters = <<NewLimiter(rate)>>
    BY DEF Init
  <1>2. now = 0 /\ now \in Nat
    BY DEF Init
  <1>3. /\ NewLimiter(rate) \in LimiterType /\ Covered(NewLimiter(rate))
        /\ NewLimiter(rate).last = now
    BY <1>2, NewCovered
  <1>4. limiters \in Seq(LimiterType) /\ Len(limiters) = 1 /\ limiters[1] = NewLimiter(rate)
    BY <1>1, <1>3
  <1>5. TypeOK
    BY <1>2, <1>4 DEF Init, Idle, TypeOK, LimiterType, LimiterAssumption
  <1>6. AllCovered
    BY <1>2, <1>3, <1>4 DEF AllCovered
  <1>7. Tickets /\ PassedDue
    BY DEF Init, Idle, Tickets, PassedDue
  <1>8. QED
    BY <1>5, <1>6, <1>7 DEF IInv

-----------------------------------------------------------------------------
(* Every step keeps it.                                                        *)

LEMMA CaptureIInv ==
    ASSUME IInv, NEW d \in Drivers, Capture(d)
    PROVE  IInv'
  <1>1. driver' = [driver EXCEPT ![d] = [Idle EXCEPT !.pc = "captured", !.lim = Len(limiters)]]
    BY DEF Capture
  <1>2. UNCHANGED <<limiters, passed, now>>
    BY DEF Capture
  <1>3. TypeOK'
    <2>1. Len(limiters) \in 1 .. MaxUpdates + 1 /\ Len(limiters) \in Nat
      BY TypeOKLimiters DEF IInv, TypeOK
    <2> DEFINE n == Len(limiters)
               r == [Idle EXCEPT !.pc = "captured", !.lim = n]
    <2>2. driver' = [driver EXCEPT ![d] = r] /\ n \in 1 .. MaxUpdates + 1 /\ n \in Nat /\ n <= n
      BY <1>1, <2>1
    <2> HIDE DEF n
    <2>3. /\ r \in [pc : {"idle", "captured", "waiting", "passed"},
                    lim : 1 .. MaxUpdates + 1, ticket : Nat]
          /\ r.lim = n
      BY <2>2 DEF Idle
    <2> HIDE DEF r
    <2>4. /\ driver' \in [Drivers -> [pc : {"idle", "captured", "waiting", "passed"},
                                      lim : 1 .. MaxUpdates + 1, ticket : Nat]]
          /\ \A e \in Drivers : driver'[e].lim <= n
      BY <2>2, <2>3 DEF IInv, TypeOK, n
    <2>5. QED
      BY <1>2, <2>4 DEF IInv, TypeOK, n
  <1>4. Tickets'
    BY <1>1, <1>2 DEF IInv, Tickets, TypeOK, Idle
  <1>5. AllCovered' /\ PassedDue'
    BY <1>2 DEF IInv, AllCovered, PassedDue, Covered, Pos
  <1>6. QED
    BY <1>3, <1>4, <1>5 DEF IInv

LEMMA WaitIInv ==
    ASSUME LimiterAssumption, IInv, NEW d \in Drivers, Wait(d)
    PROVE  IInv'
  <1> DEFINE g == driver[d].lim
             l == limiters[g]
             m == Reserve(l)
  <1>1. /\ TypeOK /\ AllCovered /\ Tickets /\ PassedDue /\ now \in Nat
        /\ limiters \in Seq(LimiterType) /\ Len(limiters) \in Nat
        /\ \A h \in 1 .. Len(limiters) : limiters[h] \in LimiterType
        /\ \A e \in Drivers : driver[e].lim \in 1 .. Len(limiters)
    BY TypeOKLimiters DEF IInv, TypeOK
  <1>2. /\ limiters' = [limiters EXCEPT ![g] = m]
        /\ driver' = [driver EXCEPT ![d].pc = "waiting", ![d].ticket = Len(l.dues) + 1]
        /\ UNCHANGED <<passed, now>>
    BY DEF Wait
  <1>3. g \in 1 .. Len(limiters) /\ l \in LimiterType /\ l.last <= now /\ Covered(l)
    BY <1>1 DEF AllCovered
  <1>4. /\ m \in LimiterType /\ m.last = now /\ Covered(m)
        /\ Len(m.dues) = Len(l.dues) + 1
        /\ \A j \in 1 .. Len(l.dues) : m.dues[j] = l.dues[j]
    BY <1>1, <1>3, ReserveCovered
  <1>5. /\ limiters' \in Seq(LimiterType) /\ Len(limiters') = Len(limiters)
        /\ limiters'[g] = m
        /\ \A h \in 1 .. Len(limiters) : h # g => limiters'[h] = limiters[h]
    <2> HIDE DEF g, m
    <2>1. QED
      BY <1>1, <1>2, <1>3, <1>4
  <1>6. Len(l.dues) \in Nat
    BY <1>3 DEF LimiterType
  <1>7. /\ \A e \in Drivers : driver'[e].lim = driver[e].lim
        /\ \A e \in Drivers : e # d => driver'[e] = driver[e]
        /\ driver'[d].ticket = Len(l.dues) + 1
        /\ driver' \in [Drivers -> [pc : {"idle", "captured", "waiting", "passed"},
                                    lim : 1 .. MaxUpdates + 1, ticket : Nat]]
    <2>1. driver \in [Drivers -> [pc : {"idle", "captured", "waiting", "passed"},
                                  lim : 1 .. MaxUpdates + 1, ticket : Nat]]
      BY <1>1 DEF TypeOK
    <2> DEFINE t == Len(l.dues) + 1
    <2>2. t \in Nat
      BY <1>6
    <2> HIDE DEF t
    <2>3. driver' = [driver EXCEPT ![d].pc = "waiting", ![d].ticket = t]
      BY <1>2 DEF t
    <2>4. QED
      BY <2>1, <2>2, <2>3 DEF t
  <1> HIDE DEF g, l, m
  <1>8. TypeOK'
    BY <1>1, <1>2, <1>5, <1>7 DEF TypeOK, LimiterType
  <1>9. AllCovered'
    <2> SUFFICES ASSUME NEW h \in 1 .. Len(limiters)
                 PROVE  Covered(limiters'[h]) /\ limiters'[h].last <= now
      BY <1>2, <1>5 DEF AllCovered, Covered, Pos
    <2>1. CASE h = g
      BY <1>1, <1>4, <1>5, <2>1
    <2>2. CASE h # g
      BY <1>1, <1>5, <2>2 DEF AllCovered
    <2>3. QED
      BY <2>1, <2>2
  <1>10. Tickets'
    <2> SUFFICES ASSUME NEW e \in Drivers, driver'[e].pc = "waiting"
                 PROVE  driver'[e].ticket \in 1 .. Len(limiters'[driver'[e].lim].dues)
      BY DEF Tickets
    <2>1. CASE e = d
      BY <1>4, <1>5, <1>6, <1>7, <2>1 DEF g
    <2>2. CASE e # d /\ driver[e].lim = g
      <3>1. driver[e].ticket \in 1 .. Len(l.dues)
        BY <1>1, <1>7, <2>2 DEF Tickets, l
      <3>2. QED
        BY <1>4, <1>5, <1>6, <1>7, <2>2, <3>1
    <2>3. CASE e # d /\ driver[e].lim # g
      <3>1. limiters'[driver[e].lim] = limiters[driver[e].lim]
        BY <1>1, <1>5, <2>3
      <3>2. QED
        BY <1>1, <1>7, <2>3, <3>1 DEF Tickets
    <2>4. QED
      BY <2>1, <2>2, <2>3
  <1>11. PassedDue'
    <2> SUFFICES ASSUME NEW h \in 1 .. MaxUpdates + 1, NEW k \in passed[h]
                 PROVE  /\ h <= Len(limiters') /\ k \in 1 .. Len(limiters'[h].dues)
                        /\ limiters'[h].dues[k] # Never /\ limiters'[h].dues[k] <= now
      BY <1>2 DEF PassedDue
    <2>1. /\ h <= Len(limiters) /\ k \in 1 .. Len(limiters[h].dues)
          /\ limiters[h].dues[k] # Never /\ limiters[h].dues[k] <= now
      BY <1>1 DEF PassedDue
    <2>2. CASE h = g
      BY <1>4, <1>5, <1>6, <2>1, <2>2 DEF l
    <2>3. CASE h # g
      <3>1. h \in 1 .. Len(limiters)
        BY <1>1, <2>1
      <3>2. QED
        BY <1>5, <2>1, <2>3, <3>1
    <2>4. QED
      BY <2>2, <2>3
  <1>12. QED
    BY <1>8, <1>9, <1>10, <1>11 DEF IInv

LEMMA PassIInv ==
    ASSUME IInv, NEW d \in Drivers, Pass(d)
    PROVE  IInv'
  <1> DEFINE g == driver[d].lim
             k == driver[d].ticket
  <1>1. /\ TypeOK /\ AllCovered /\ Tickets /\ PassedDue /\ Len(limiters) \in Nat
        /\ g \in 1 .. Len(limiters)
    BY TypeOKLimiters DEF IInv
  <1>2. /\ passed' = [passed EXCEPT ![g] = @ \union {k}]
        /\ driver' = [driver EXCEPT ![d].pc = "passed"]
        /\ UNCHANGED <<limiters, now>>
    BY DEF Pass
  <1>3. /\ k \in 1 .. Len(limiters[g].dues)
        /\ limiters[g].dues[k] # Never /\ limiters[g].dues[k] <= now
    BY <1>1 DEF Pass, Elapsed, Tickets
  <1>4. k \in Nat \ {0}
    <2>1. k \in Nat
      BY <1>1 DEF TypeOK
    <2>2. QED
      BY <1>3, <2>1
  <1>5. \A e \in Drivers :
           /\ driver'[e].lim = driver[e].lim /\ driver'[e].ticket = driver[e].ticket
           /\ driver'[e].pc = "waiting" => driver[e].pc = "waiting"
    BY <1>1, <1>2 DEF TypeOK
  <1>6. driver' \in [Drivers -> [pc : {"idle", "captured", "waiting", "passed"},
                                 lim : 1 .. MaxUpdates + 1, ticket : Nat]]
    BY <1>1, <1>2 DEF TypeOK
  <1> HIDE DEF g, k
  <1>7. passed' \in [1 .. MaxUpdates + 1 -> SUBSET (Nat \ {0})]
    BY <1>1, <1>2, <1>4 DEF TypeOK
  <1>8. TypeOK'
    BY <1>1, <1>2, <1>5, <1>6, <1>7 DEF TypeOK
  <1>9. AllCovered'
    BY <1>1, <1>2 DEF AllCovered, Covered, Pos
  <1>10. Tickets'
    BY <1>1, <1>2, <1>5 DEF Tickets
  <1>11. PassedDue'
    <2> SUFFICES ASSUME NEW h \in 1 .. MaxUpdates + 1, NEW i \in passed'[h]
                 PROVE  /\ h <= Len(limiters) /\ i \in 1 .. Len(limiters[h].dues)
                        /\ limiters[h].dues[i] # Never /\ limiters[h].dues[i] <= now
      BY <1>2 DEF PassedDue
    <2>1. i \in passed[h] \/ (h = g /\ i = k)
      BY <1>1, <1>2 DEF TypeOK
    <2>2. CASE i \in passed[h]
      BY <1>1, <2>2 DEF PassedDue
    <2>3. CASE h = g /\ i = k
      BY <1>1, <1>3, <2>3
    <2>4. QED
      BY <2>1, <2>2, <2>3
  <1>12. QED
    BY <1>8, <1>9, <1>10, <1>11 DEF IInv

LEMMA UpdateQueueIInv ==
    ASSUME LimiterAssumption, BurstAssumption, IInv, NEW rate \in Rates, UpdateQueue(rate)
    PROVE  IInv'
  <1> DEFINE n == Len(limiters)
             new == NewLimiter(rate)
  <1>1. /\ TypeOK /\ AllCovered /\ Tickets /\ PassedDue /\ now \in Nat
        /\ limiters \in Seq(LimiterType) /\ n \in Nat /\ n \in 1 .. MaxUpdates + 1
        /\ \A e \in Drivers : driver[e].lim \in 1 .. n
        /\ MaxUpdates \in Nat
    BY TypeOKLimiters DEF IInv, TypeOK, LimiterAssumption
  <1>2. new \in LimiterType /\ Covered(new) /\ new.last = now
    BY <1>1, NewCovered
  <1>3. n <= MaxUpdates /\ limiters' = Append(limiters, new) /\ UNCHANGED <<driver, passed, now>>
    BY DEF UpdateQueue
  <1> HIDE DEF new
  <1>4. /\ limiters' \in Seq(LimiterType) /\ Len(limiters') = n + 1 /\ limiters'[n + 1] = new
        /\ \A h \in 1 .. n : limiters'[h] = limiters[h]
    BY <1>1, <1>2, <1>3
  <1> HIDE DEF n
  <1>5. TypeOK'
    <2>1. Len(limiters') \in 1 .. MaxUpdates + 1
      BY <1>1, <1>3, <1>4
    <2>2. \A e \in Drivers : driver'[e].lim <= Len(limiters')
      BY <1>1, <1>3, <1>4
    <2>3. QED
      BY <1>1, <1>3, <1>4, <2>1, <2>2 DEF TypeOK, LimiterType
  <1>6. AllCovered'
    <2> SUFFICES ASSUME NEW h \in 1 .. n + 1
                 PROVE  Covered(limiters'[h]) /\ limiters'[h].last <= now
      BY <1>3, <1>4 DEF AllCovered, Covered, Pos
    <2>1. CASE h = n + 1
      BY <1>1, <1>2, <1>4, <2>1
    <2>2. CASE h \in 1 .. n
      BY <1>1, <1>4, <2>2 DEF AllCovered, n
    <2>3. QED
      BY <1>1, <2>1, <2>2
  <1>7. Tickets'
    BY <1>1, <1>3, <1>4 DEF Tickets
  <1>8. PassedDue'
    <2> SUFFICES ASSUME NEW h \in 1 .. MaxUpdates + 1, NEW k \in passed[h]
                 PROVE  /\ h <= Len(limiters') /\ k \in 1 .. Len(limiters'[h].dues)
                        /\ limiters'[h].dues[k] # Never /\ limiters'[h].dues[k] <= now
      BY <1>3 DEF PassedDue
    <2>1. /\ h <= n /\ k \in 1 .. Len(limiters[h].dues)
          /\ limiters[h].dues[k] # Never /\ limiters[h].dues[k] <= now
      BY <1>1 DEF PassedDue, n
    <2>2. h \in 1 .. n
      BY <1>1, <2>1
    <2>3. QED
      BY <1>1, <1>4, <2>1, <2>2
  <1>9. QED
    BY <1>5, <1>6, <1>7, <1>8 DEF IInv

LEMMA TickIInv ==
    ASSUME IInv, Tick
    PROVE  IInv'
  <1>1. now' = now + 1 /\ UNCHANGED <<limiters, driver, passed>> /\ now \in Nat
    BY DEF Tick, IInv, TypeOK
  <1>2. \A g \in 1 .. Len(limiters) :
           limiters[g] \in LimiterType /\ limiters[g].last \in Nat
           /\ limiters[g].dues \in Seq(Nat \union {Never})
    BY TypeOKLimiters DEF IInv, LimiterType
  <1>3. TypeOK'
    BY <1>1 DEF IInv, TypeOK
  <1>4. AllCovered'
    <2> SUFFICES ASSUME NEW g \in (1 .. Len(limiters))'
                 PROVE  (Covered(limiters[g]) /\ limiters[g].last <= now)'
      BY DEF AllCovered
    <2>1. g \in 1 .. Len(limiters)
      BY <1>1
    <2>2. Covered(limiters[g]) /\ limiters[g].last <= now
      BY <2>1 DEF IInv, AllCovered
    <2>3. Covered(limiters[g])'
      BY <1>1, <2>2 DEF Covered, Pos
    <2>4. limiters[g].last <= now + 1
      BY <1>1, <1>2, <2>1, <2>2
    <2>5. QED
      BY <1>1, <2>3, <2>4
  <1>5. Tickets'
    BY <1>1 DEF IInv, Tickets
  <1>6. PassedDue'
    <2> SUFFICES ASSUME NEW h \in 1 .. MaxUpdates + 1, NEW k \in passed[h]
                 PROVE  /\ h <= Len(limiters) /\ k \in 1 .. Len(limiters[h].dues)
                        /\ limiters[h].dues[k] # Never /\ limiters[h].dues[k] <= now + 1
      BY <1>1 DEF PassedDue
    <2>1. /\ h <= Len(limiters) /\ k \in 1 .. Len(limiters[h].dues)
          /\ limiters[h].dues[k] # Never /\ limiters[h].dues[k] <= now
      BY DEF IInv, PassedDue
    <2>2. h \in 1 .. Len(limiters)
      BY <2>1, TypeOKLimiters DEF IInv
    <2>3. limiters[h].dues[k] \in Nat
      BY <1>2, <2>1, <2>2
    <2>4. QED
      BY <1>1, <2>1, <2>3
  <1>7. QED
    BY <1>3, <1>4, <1>5, <1>6 DEF IInv

LEMMA NextIInv ==
    ASSUME LimiterAssumption, BurstAssumption, IInv, [Next]_vars
    PROVE  IInv'
  <1>1. CASE UNCHANGED vars
    BY <1>1 DEF vars, IInv, TypeOK, AllCovered, Tickets, PassedDue, Covered, Pos
  <1>2. CASE Next
    BY <1>2, CaptureIInv, WaitIInv, PassIInv, UpdateQueueIInv, TickIInv DEF Next
  <1>3. QED
    BY <1>1, <1>2

-----------------------------------------------------------------------------
(* What it shows.                                                              *)

\* More comes in over a longer time.
LEMMA MoreLater ==
    ASSUME NEW r \in Nat, NEW x \in Int, NEW y \in Int, x <= y
    PROVE  r * x \in Int /\ r * y \in Int /\ r * x <= r * y
  <1>1. y - x \in Nat
    OBVIOUS
  <1>2. r * (y - x) \in Nat /\ r * (y - x) = r * y - r * x
    BY <1>1
  <1>3. QED
    BY <1>2

LEMMA IInvRateBounded ==
    ASSUME LimiterAssumption, IInv
    PROVE  RateBounded
  <1> SUFFICES ASSUME NEW g \in 1 .. Len(limiters), NEW k \in passed[g]
               PROVE  k * Unit <= Supply(limiters[g], now - limiters[g].born)
    BY DEF RateBounded
  <1> DEFINE l == limiters[g]
  <1>1. l \in LimiterType /\ Covered(l) /\ now \in Nat /\ g \in 1 .. MaxUpdates + 1
    BY TypeOKLimiters DEF IInv, TypeOK, AllCovered
  <1>2. k \in 1 .. Len(l.dues) /\ l.dues[k] # Never /\ l.dues[k] <= now
    BY <1>1 DEF IInv, PassedDue
  <1> HIDE DEF l
  <1>3. /\ l.rate \in Int /\ l.burst \in Nat /\ l.born \in Nat /\ l.dues[k] \in Nat
        /\ Unit \in Nat /\ Pos(l) \in Nat
    BY <1>1, <1>2 DEF LimiterType, LimiterAssumption, Pos
  <1>4. k * Unit <= l.burst * Unit + Pos(l) * (l.dues[k] - l.born)
    BY <1>1, <1>2 DEF Covered
  <1>5. l.dues[k] - l.born \in Int /\ now - l.born \in Int /\ l.dues[k] - l.born <= now - l.born
    <2>1. \A x, y, z \in Nat : x <= y => x - z \in Int /\ y - z \in Int /\ x - z <= y - z
      OBVIOUS
    <2>2. QED
      BY <1>1, <1>2, <1>3, <2>1, Zenon
  <1>6. /\ Pos(l) * (l.dues[k] - l.born) \in Int /\ Pos(l) * (now - l.born) \in Int
        /\ Pos(l) * (l.dues[k] - l.born) <= Pos(l) * (now - l.born)
    BY <1>3, <1>5, MoreLater
  <1>7. k * Unit \in Int /\ l.burst * Unit \in Int
    BY <1>2, <1>3
  <1>8. k * Unit <= l.burst * Unit + Pos(l) * (now - l.born)
    BY <1>4, <1>6, <1>7
  <1>9. Supply(l, now - l.born) = l.burst * Unit + Pos(l) * (now - l.born)
    BY <1>3, <1>5 DEF Supply, Pos
  <1>10. QED
    BY <1>8, <1>9 DEF l

LEMMA IInvBurstBounded ==
    ASSUME IInv
    PROVE  BurstBounded
  <1> SUFFICES ASSUME NEW g \in 1 .. Len(limiters), NEW k \in 1 .. Len(limiters[g].dues),
                      NEW j \in 1 .. k,
                      Never \notin {limiters[g].dues[j], limiters[g].dues[k]}
               PROVE  (k - j + 1) * Unit
                          <= Supply(limiters[g], limiters[g].dues[k] - limiters[g].dues[j] + 1)
    BY DEF BurstBounded
  <1> DEFINE l == limiters[g]
  <1>1. l \in LimiterType /\ Covered(l)
    BY TypeOKLimiters DEF IInv, AllCovered
  <1> HIDE DEF l
  <1>2. Len(l.dues) \in Nat /\ l.dues \in Seq(Nat \union {Never}) /\ l.rate \in Int
    BY <1>1 DEF LimiterType
  <1>3. /\ k \in 1 .. Len(l.dues) /\ j \in 1 .. Len(l.dues)
        /\ l.dues[j] # Never /\ l.dues[k] # Never
    BY <1>2 DEF l
  <1>4. l.dues[j] \in Nat /\ l.dues[k] \in Nat
    BY <1>2, <1>3
  <1>5. (k - j + 1) * Unit <= l.burst * Unit + Pos(l) * (l.dues[k] - l.dues[j] + 1)
    BY <1>1, <1>3 DEF Covered
  <1>6. Supply(l, l.dues[k] - l.dues[j] + 1)
            = l.burst * Unit + Pos(l) * (l.dues[k] - l.dues[j] + 1)
    BY <1>2, <1>4 DEF Supply, Pos
  <1>7. QED
    BY <1>5, <1>6 DEF l

\* RateBounded: a limiter, also one UpdateQueue has replaced while goroutines wait for
\* it, lets no more pass than its burst and its rate since it was made.
THEOREM RateBoundedCorrect == Spec => []RateBounded
  <1>1. LimiterAssumption /\ BurstAssumption
    BY LimiterAssumption, BurstAssumption
  <1>2. Init => IInv
    BY <1>1, InitIInv
  <1>3. IInv /\ [Next]_vars => IInv'
    BY <1>1, NextIInv
  <1>4. IInv => RateBounded
    BY <1>1, IInvRateBounded
  <1>5. QED
    BY <1>2, <1>3, <1>4, PTL DEF Spec

\* BurstBounded: what a limiter makes due in any window of time is at most its burst and
\* what its rate brings in that time.
THEOREM BurstBoundedCorrect == Spec => []BurstBounded
  <1>1. LimiterAssumption /\ BurstAssumption
    BY LimiterAssumption, BurstAssumption
  <1>2. Init => IInv
    BY <1>1, InitIInv
  <1>3. IInv /\ [Next]_vars => IInv'
    BY <1>1, NextIInv
  <1>4. IInv => BurstBounded
    BY IInvBurstBounded
  <1>5. QED
    BY <1>2, <1>3, <1>4, PTL DEF Spec
=============================================================================
