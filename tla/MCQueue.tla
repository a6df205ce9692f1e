------------------------------ MODULE MCQueue ------------------------------
(* Instances of Queue for TLC. *)
EXTENDS Queue, TLC

Retry(attempts, duration, min, max) ==
    [MaxAttempts |-> attempts, MaxRetryDuration |-> duration,
     MinBackoff |-> min, MaxBackoff |-> max, MaxDoublings |-> 1]

NewQueue(concurrent, retry) ==
    [State |-> "RUNNING", Pull |-> FALSE,
     MaxConcurrentDispatches |-> concurrent, TaskTTL |-> 0, TombstoneTTL |-> 0,
     RetryConfig |-> retry]

(***************************************************************************)
(* Untimed: no delay is ever positive, so the order of all steps is free.  *)
(* The queue is created with every setting unset or out of range.          *)
(***************************************************************************)
UntimedDefaults ==
    [MaxConcurrentDispatches |-> 2, MaxAttempts |-> 2, MinBackoff |-> 0,
     MaxBackoff |-> 0, MaxDoublings |-> 1, TaskTTL |-> 1, TombstoneTTL |-> 1]

(* The TTL lies past the horizon, and removed names are free at once. *)
UntimedEngines ==
    {[taskTTL |-> 0, tombstoneTTL |-> -1, hardResetOnPurge |-> FALSE]}

UntimedQueues == {NewQueue(-1, Retry(0, 0, 0, 0))}

(***************************************************************************)
(* Timed: delays, backoff, poll, TTL and tombstones of one or two units.   *)
(***************************************************************************)
TimedDefaults ==
    [MaxConcurrentDispatches |-> 1, MaxAttempts |-> 2, MinBackoff |-> 1,
     MaxBackoff |-> 2, MaxDoublings |-> 1, TaskTTL |-> 2, TombstoneTTL |-> 1]

TimedEngines ==
    [taskTTL: {0}, tombstoneTTL: {0}, hardResetOnPurge: BOOLEAN]

(* One task alone: what happens to names is left to the other instances. *)
SingleTaskEngines ==
    {[taskTTL |-> 3, tombstoneTTL |-> -1, hardResetOnPurge |-> FALSE]}

SingleTaskQueues == {NewQueue(1, Retry(1, 2, 1, 2))}

TimedQueues ==
    {NewQueue(1, Retry(1, 2, 1, 2)),
     [NewQueue(1, Retry(0, 0, 0, 0)) EXCEPT !.Pull = TRUE, !.State = "DISABLED"]}

TimedSymmetry == Permutations(TaskState)

Symmetry ==
    TimedSymmetry \union Permutations(Driver) \union Permutations(Name)
=============================================================================
