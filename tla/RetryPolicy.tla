---------------------------- MODULE RetryPolicy ----------------------------
(***************************************************************************)
(* The retry policy of a queue: whether a failed task is tried again       *)
(* (shouldRetry) and after which delay (backoff).  Both are pure functions *)
(* of the queue's RetryConfig and of the task's counters; Queue calls them *)
(* when it applies a failed attempt, RetrySchedule checks them on their    *)
(* own.                                                                    *)
(*                                                                         *)
(* A delay is a time.Duration, a signed integer up to MaxDuration (2^63-1  *)
(* in Go, less in a model, so that TLC reaches the overflow).  Go leaves   *)
(* the conversion of a float that does not fit in the integer to the       *)
(* platform: amd64 yields the least integer, arm64 the nearest one.        *)
(* Saturating says which of the two the build has.                         *)
(***************************************************************************)
EXTENDS Integers

CONSTANTS
    MaxDuration,    \* the greatest time.Duration, one less than a power of 2
    Saturating      \* TRUE: float-to-integer conversion saturates (arm64)

ASSUME RetryPolicyAssumption ==
    /\ MaxDuration \in Nat
    /\ Saturating \in BOOLEAN

MinDuration == -MaxDuration - 1

(***************************************************************************)
(* A RetryConfig after applyQueueDefaults, which replaces zeros and checks *)
(* no sign: every field may be negative if a client says so.               *)
(* MaxAttempts = -1 and a MaxRetryDuration that is not positive both mean  *)
(* "no such limit".                                                        *)
(***************************************************************************)
RetryConfigs ==
    [MaxAttempts: Int, MaxRetryDuration: Int,
     MinBackoff: Int, MaxBackoff: Int, MaxDoublings: Int]

AttemptsLimited(rc) == rc.MaxAttempts # -1

DurationLimited(rc) == rc.MaxRetryDuration > 0

---------------------------------------------------------------------------
(* Bug: one attempt too many. *)
ShouldRetryOneMore(rc, dispatched, elapsed) ==
    \/ ~AttemptsLimited(rc) /\ ~DurationLimited(rc)
    \/ AttemptsLimited(rc) /\ dispatched <= rc.MaxAttempts
    \/ DurationLimited(rc) /\ elapsed < rc.MaxRetryDuration

(* Bug: a queue without MaxAttempts is taken for one without any limit. *)
ShouldRetryIgnoringDuration(rc, dispatched, elapsed) ==
    \/ ~AttemptsLimited(rc)
    \/ dispatched < rc.MaxAttempts
    \/ DurationLimited(rc) /\ elapsed < rc.MaxRetryDuration

(***************************************************************************)
(* A task that was dispatched so many times, the first time so long ago,   *)
(* is retried unless every limit that is set has been reached.             *)
(***************************************************************************)
ShouldRetry(rc, dispatched, elapsed) ==
    \/ ~AttemptsLimited(rc) /\ ~DurationLimited(rc)
    \/ AttemptsLimited(rc) /\ dispatched < rc.MaxAttempts
    \/ DurationLimited(rc) /\ elapsed < rc.MaxRetryDuration

---------------------------------------------------------------------------
(* Integer arithmetic on time.Duration wraps around. *)
Wrap(x) == ((x - MinDuration) % (2 * (MaxDuration + 1))) + MinDuration

(* time.Duration(f) for a float f. *)
FloatToDuration(x) ==
    IF x \in MinDuration .. MaxDuration THEN x
    ELSE IF Saturating /\ x > MaxDuration THEN MaxDuration
    ELSE MinDuration

(* x / 2^k in floating point, the fraction lost in the conversion. *)
Halved(x, k) == IF x >= 0 THEN x \div 2^k ELSE -((-x) \div 2^k)

(***************************************************************************)
(* minBackoff * 2^doublings, computed in floating point and converted.     *)
(* Doublings are negative only if the client's MaxDoublings is.            *)
(***************************************************************************)
Doubled(rc, doublings) ==
    IF doublings >= 0 THEN FloatToDuration(rc.MinBackoff * 2^doublings)
    ELSE Halved(rc.MinBackoff, -doublings)

(* Bug: the last doubling is skipped. *)
BackoffOneDoublingShort(rc, retries) ==
    LET past == retries - 1 - rc.MaxDoublings
        d == IF past > 0
             THEN Wrap(Doubled(rc, rc.MaxDoublings)
                         + Wrap((past - 1) * Doubled(rc, rc.MaxDoublings)))
             ELSE Doubled(rc, retries - 1)
    IN  IF d > rc.MaxBackoff \/ d < 0 THEN rc.MaxBackoff ELSE d

(* Bug: the clamp forgets the sums that wrapped to a negative delay. *)
BackoffUnclamped(rc, retries) ==
    LET past == retries - 1 - rc.MaxDoublings
        d == IF past > 0
             THEN Wrap(Doubled(rc, rc.MaxDoublings)
                         + Wrap(past * Doubled(rc, rc.MaxDoublings)))
             ELSE Doubled(rc, retries - 1)
    IN  IF d > rc.MaxBackoff THEN rc.MaxBackoff ELSE d

(***************************************************************************)
(* The delay before retry number `retries': it doubles MaxDoublings times, *)
(* then grows by the last doubled value, and is clamped to MaxBackoff.     *)
(***************************************************************************)
Backoff(rc, retries) ==
    LET past == retries - 1 - rc.MaxDoublings
        d == IF past > 0
             THEN Wrap(Doubled(rc, rc.MaxDoublings)
                         + Wrap(past * Doubled(rc, rc.MaxDoublings)))
             ELSE Doubled(rc, retries - 1)
    IN  IF d > rc.MaxBackoff \/ d < 0 THEN rc.MaxBackoff ELSE d
=============================================================================
