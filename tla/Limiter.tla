------------------------------ MODULE Limiter ------------------------------
(* The rate limiter of a queue: the token bucket rebuildLimits makes, the      *)
(* goroutines of fire that wait for its tokens, and UpdateQueue, which puts a  *)
(* new bucket in the place of the one they wait for. Amounts of tokens are     *)
(* integers, Unit of them to a token; rates are amounts per tick of the clock. *)
EXTENDS Integers, Sequences

CONSTANTS Drivers,       \* goroutines that run fire
          Unit,          \* the amount that is one token
          Rates,         \* max_dispatches_per_second, as clients send it
          DefaultRate,   \* what zero stands for
          BurstSteps,    \* <<rate, burst>>: the burst from that rate on
          BaseBurst,     \* the burst below all of them
          Never,         \* the due time of a wait without end
          MaxUpdates,    \* bound: UpdateQueue calls
          Horizon,       \* bound: no wait begins after this time
          MaxTime        \* bound: the clock stops here

ASSUME LimiterAssumption ==
    /\ Unit \in Nat \ {0} /\ Rates \subseteq Int
    /\ DefaultRate \in Nat \ {0} /\ BaseBurst \in Nat
    /\ BurstSteps \subseteq Nat \X Nat
    /\ Never \notin Int
    /\ {MaxUpdates, Horizon, MaxTime} \subseteq Nat

VARIABLES
    limiters,   \* every limiter the queue has had; the last one is qs.limiter
    driver,     \* where each goroutine is
    passed,     \* history: per limiter, the reservations whose wait has ended
    now

vars == <<limiters, driver, passed, now>>

-----------------------------------------------------------------------------
(* Settings.                                                                   *)

\* applyQueueDefaults
EffectiveRate(rate) == IF rate = 0 THEN DefaultRate ELSE rate

ComputeBurstSize(rate) ==
    LET reached == {s \in BurstSteps : s[1] <= rate}
    IN  IF rate < 0 THEN 0
        ELSE IF reached = {} THEN BaseBurst
        ELSE (CHOOSE s \in reached : \A r \in reached : r[1] <= s[1])[2]

\* The steps have a greatest one below every rate.
ASSUME BurstAssumption ==
    \A rate \in Rates : ComputeBurstSize(EffectiveRate(rate)) \in Nat

\* Bug: the derived burst is used as it is.
BurstUnfloored(rate) == ComputeBurstSize(rate)

Burst(rate) == IF ComputeBurstSize(rate) < 1 THEN 1 ELSE ComputeBurstSize(rate)

\* A new limiter is full. dues is history: when each reservation may act.
NewLimiter(rate) ==
    [rate |-> EffectiveRate(rate), burst |-> Burst(EffectiveRate(rate)),
     tokens |-> Burst(EffectiveRate(rate)) * Unit, last |-> now, born |-> now, dues |-> <<>>]

-----------------------------------------------------------------------------
(* golang.org/x/time/rate.                                                     *)

Refill(l) == IF l.rate <= 0 THEN 0 ELSE l.rate * (now - l.last)

\* Bug: the bucket overflows its burst.
AdvanceUncapped(l) == l.tokens + Refill(l)

Advance(l) ==
    IF l.tokens + Refill(l) > l.burst * Unit THEN l.burst * Unit ELSE l.tokens + Refill(l)

\* When a reservation may act that leaves this much, negative while others wait.
Due(l, tokens) ==
    IF tokens >= 0 THEN now
    ELSE IF l.rate <= 0 THEN Never
    ELSE now + (-tokens + l.rate - 1) \div l.rate

Reserve(l) ==
    [l EXCEPT !.tokens = Advance(l) - Unit, !.last = now,
              !.dues = Append(@, Due(l, Advance(l) - Unit))]

-----------------------------------------------------------------------------
Idle == [pc |-> "idle", lim |-> 1, ticket |-> 0]

Init ==
    /\ now = 0
    /\ \E rate \in Rates : limiters = <<NewLimiter(rate)>>
    /\ driver = [d \in Drivers |-> Idle]
    /\ passed = [g \in 1 .. MaxUpdates + 1 |-> {}]

\* fire captures the limiter under the lock ...
Capture(d) ==
    /\ driver[d].pc = "idle" /\ now <= Horizon
    /\ driver' = [driver EXCEPT ![d] = [Idle EXCEPT !.pc = "captured", !.lim = Len(limiters)]]
    /\ UNCHANGED <<limiters, passed, now>>

\* ... and calls Wait without it: the reservation is made here.
Wait(d) ==
    LET g == driver[d].lim
    IN  /\ driver[d].pc = "captured"
        /\ limiters' = [limiters EXCEPT ![g] = Reserve(@)]
        /\ driver' = [driver EXCEPT ![d].pc = "waiting", ![d].ticket = Len(limiters[g].dues) + 1]
        /\ UNCHANGED <<passed, now>>

\* Bug: Wait returns without waiting.
ElapsedAtOnce(d) == TRUE

Elapsed(d) ==
    LET due == limiters[driver[d].lim].dues[driver[d].ticket]
    IN  due # Never /\ due <= now

\* The timer of Wait fires, perhaps late, and the dispatch goes on.
Pass(d) ==
    /\ driver[d].pc = "waiting" /\ Elapsed(d)
    /\ passed' = [passed EXCEPT ![driver[d].lim] = @ \union {driver[d].ticket}]
    /\ driver' = [driver EXCEPT ![d].pc = "passed"]
    /\ UNCHANGED <<limiters, now>>

\* UpdateQueue, whatever its mask: rebuildLimits.
UpdateQueue(rate) ==
    /\ Len(limiters) <= MaxUpdates /\ now <= Horizon
    /\ limiters' = Append(limiters, NewLimiter(rate))
    /\ UNCHANGED <<driver, passed, now>>

Tick ==
    /\ now < MaxTime /\ now' = now + 1
    /\ now = Horizon => \A d \in Drivers : driver[d].pc # "captured"
    /\ UNCHANGED <<limiters, driver, passed>>

Next ==
    \/ \E d \in Drivers : Capture(d) \/ Wait(d) \/ Pass(d)
    \/ \E rate \in Rates : UpdateQueue(rate)
    \/ Tick

Spec == Init /\ [][Next]_vars

\* Time goes on, timers fire and goroutines run; tasks and clients need not come.
FairSpec == Spec /\ WF_vars(Tick) /\ \A d \in Drivers : WF_vars(Wait(d)) /\ WF_vars(Pass(d))

-----------------------------------------------------------------------------
(* Properties.                                                                 *)

TypeOK ==
    /\ now \in Nat
    /\ limiters \in Seq([rate : Int, burst : Nat \ {0}, tokens : Int, last : Nat,
                         born : Nat, dues : Seq(Nat \union {Never})])
    /\ Len(limiters) \in 1 .. MaxUpdates + 1
    /\ driver \in [Drivers -> [pc : {"idle", "captured", "waiting", "passed"},
                               lim : 1 .. MaxUpdates + 1, ticket : Nat]]
    /\ \A d \in Drivers : driver[d].lim <= Len(limiters)
    /\ passed \in [1 .. MaxUpdates + 1 -> SUBSET (Nat \ {0})]

\* What a limiter gives out in a time.
Supply(l, time) == l.burst * Unit + (IF l.rate <= 0 THEN 0 ELSE l.rate * time)

\* A limiter lets its k-th reservation pass only when it has had k tokens to give since
\* it was made, however late timers fire and whatever becomes of the queue's other
\* limiters. With a negative rate that is one dispatch.
RateBounded ==
    \A g \in 1 .. Len(limiters) : \A k \in passed[g] :
        k * Unit <= Supply(limiters[g], now - limiters[g].born)

\* In any window of time, not only since the start, a limiter makes no more reservations
\* due than its burst and its rate allow: what is not used does not add up. One tick is
\* for the rounding of due times to the clock.
BurstBounded ==
    \A g \in 1 .. Len(limiters) :
        LET dues == limiters[g].dues
        IN  \A k \in 1 .. Len(dues) : \A j \in 1 .. k :
                Never \notin {dues[j], dues[k]} =>
                    (k - j + 1) * Unit <= Supply(limiters[g], dues[k] - dues[j] + 1)

Waits(d) == driver[d].pc = "captured" \/ driver[d].pc = "waiting"

\* A task whose limiter has a positive rate gets its token, also after updates that
\* replace the limiter; and whatever the rate is, somebody gets the first one.
TokenComes ==
    /\ \A d \in Drivers :
           (Waits(d) /\ limiters[driver[d].lim].rate > 0) ~> (driver[d].pc = "passed")
    /\ \A g \in 1 .. MaxUpdates + 1 :
           (\E d \in Drivers : Waits(d) /\ driver[d].lim = g) ~> (passed[g] # {})
=============================================================================
