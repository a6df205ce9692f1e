-------------------------- MODULE MCRetrySchedule --------------------------
(* RetrySchedule on 384 configurations and durations of 8 bits. *)
EXTENDS RetrySchedule

MCConfigs ==
    [MaxAttempts: {-1, 1, 3, 10}, MaxRetryDuration: {0, 5},
     MinBackoff: {-3, 1, 2, 3}, MaxBackoff: {-2, 4, 100},
     MaxDoublings: {-1, 1, 2, 7}]
=============================================================================
