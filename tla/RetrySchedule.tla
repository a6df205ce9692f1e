--------------------------- MODULE RetrySchedule ---------------------------
(***************************************************************************)
(* One task whose every attempt fails: the schedule the retry policy gives *)
(* it.  Each step is the failure branch of applyAttempt: the attempt is    *)
(* counted, shouldRetry decides, and backoff places the next attempt.      *)
(* Time is measured from the dispatch of the first attempt, as             *)
(* firstAttemptTime does.                                                  *)
(***************************************************************************)
EXTENDS RetryPolicy

CONSTANTS
    Configs,        \* the retry configurations, defaults applied
    Latencies,      \* how long a handler may take to fail
    MaxDispatched   \* bound: no attempt starts after so many

ASSUME RetryScheduleAssumption ==
    /\ Configs \subseteq RetryConfigs
    /\ Latencies \subseteq Nat
    /\ MaxDispatched \in Nat

VARIABLES
    rc,          \* the queue's RetryConfig
    dispatched,  \* t.DispatchCount
    due,         \* t.ScheduleTime: when the next attempt is due
    failedAt,    \* when the last attempt failed
    delay,       \* the last result of backoff
    dropped      \* retries are exhausted

vars == <<rc, dispatched, due, failedAt, delay, dropped>>

Init ==
    /\ rc \in Configs
    /\ dispatched = 0
    /\ due = 0
    /\ failedAt = 0
    /\ delay = 0
    /\ dropped = FALSE

(***************************************************************************)
(* The timer armed for a time that has passed fires at once, so an attempt *)
(* starts when it is due, but not before the last one failed.              *)
(***************************************************************************)
Start == IF due > failedAt THEN due ELSE failedAt

(* The attempt that is due fails: applyAttempt after a non-OK code. *)
AttemptFails(latency) ==
    /\ ~dropped
    /\ dispatched < MaxDispatched
    /\ dispatched' = dispatched + 1
    /\ failedAt' = Start + latency
    /\ IF ShouldRetry(rc, dispatched', failedAt')
       THEN /\ delay' = Backoff(rc, dispatched')
            /\ due' = failedAt' + delay'
            /\ UNCHANGED dropped
       ELSE /\ dropped' = TRUE
            /\ UNCHANGED <<delay, due>>
    /\ UNCHANGED rc

Next == \E latency \in Latencies : AttemptFails(latency)

(***************************************************************************)
(* The timer of a scheduled task fires and its handler answers or runs     *)
(* into the dispatch deadline, so the next failure always comes.           *)
(***************************************************************************)
Spec == Init /\ [][Next]_vars /\ WF_vars(Next)

---------------------------------------------------------------------------
(***************************************************************************)
(* The type invariant: the clock of the schedule never runs backwards past *)
(* the first attempt, although a client's negative MaxBackoff makes a      *)
(* delay negative (queue.go:264-269).                                      *)
(***************************************************************************)
TypeOK ==
    /\ rc \in Configs
    /\ dispatched \in 0 .. MaxDispatched
    /\ due \in Int /\ failedAt \in Nat /\ delay \in Int
    /\ dropped \in BOOLEAN

(***************************************************************************)
(* The reference: the delay doubles with each retry, after MaxDoublings    *)
(* doublings it grows linearly, and it never exceeds MaxBackoff.           *)
(***************************************************************************)
Growth[n \in Nat] ==
    IF n <= 1 THEN rc.MinBackoff
    ELSE IF n - 1 <= rc.MaxDoublings THEN 2 * Growth[n - 1]
    ELSE Growth[n - 1] + rc.MinBackoff * 2^rc.MaxDoublings

Retried == dispatched > 0 /\ ~dropped

Overflows == Growth[dispatched] \notin MinDuration .. MaxDuration

(***************************************************************************)
(* While the true delay fits in a time.Duration, backoff (queue.go:249)    *)
(* computes it, and MaxBackoff in its place if it is greater, or negative  *)
(* because a client set a negative MinBackoff.  A negative MaxDoublings    *)
(* doubles nothing and has no such delay.                                  *)
(***************************************************************************)
BackoffMatchesGrowth ==
    Retried /\ rc.MaxDoublings >= 0 /\ ~Overflows =>
        delay = IF Growth[dispatched] \in 0 .. rc.MaxBackoff
                THEN Growth[dispatched] ELSE rc.MaxBackoff

(***************************************************************************)
(* Whatever overflows in backoff (queue.go:258-269), no retry is scheduled *)
(* into the past and none later than MaxBackoff after the failure, unless  *)
(* the client set a negative MaxBackoff: then every retry is due at once,  *)
(* at that much before the failure.                                        *)
(***************************************************************************)
BackoffInRange ==
    Retried =>
        IF rc.MaxBackoff >= 0 THEN delay \in 0 .. rc.MaxBackoff
        ELSE delay = rc.MaxBackoff

(***************************************************************************)
(* A task that always fails and has some limit is eventually given up: no  *)
(* delay, wrapped around or negative, keeps the time that attempts take    *)
(* from adding up to MaxRetryDuration.                                     *)
(***************************************************************************)
EventuallyDropped ==
    AttemptsLimited(rc) \/ DurationLimited(rc) ~> dropped
=============================================================================
