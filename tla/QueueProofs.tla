---------------------------- MODULE QueueProofs ----------------------------
(***************************************************************************)
(* Theorems about Queue, for every number of tasks, names, drivers and     *)
(* updates and every setting.                                              *)
(***************************************************************************)
EXTENDS Queue, FiniteSetTheorems, TLAPS

---------------------------------------------------------------------------
(* What the operators on settings return *)

(* A power of two counts the subsets of a set, of which there is one. *)
LEMMA PowerPositive ==
    ASSUME NEW k \in Nat
    PROVE  2^k \in Nat /\ 2^k > 0
<1>1. IsFiniteSet(1 .. k) /\ Cardinality(1 .. k) = k
  BY FS_Interval
<1>2. IsFiniteSet(SUBSET (1 .. k)) /\ Cardinality(SUBSET (1 .. k)) = 2^k
  BY <1>1, FS_SUBSET
<1>3. SUBSET (1 .. k) # {}
  OBVIOUS
<1>4. Cardinality(SUBSET (1 .. k)) \in Nat /\ Cardinality(SUBSET (1 .. k)) # 0
  BY <1>2, <1>3, FS_CardinalityType, FS_EmptySet
<1>5. \A n \in Nat : n # 0 => n > 0
  OBVIOUS
<1> QED
  BY <1>2, <1>4, <1>5, Zenon

(* A delay is an integer, whatever wraps around or does not fit. *)
LEMMA BackoffType ==
    ASSUME NEW rc \in RetryConfigs, NEW n \in Nat, n > 0
    PROVE  Backoff(rc, n) \in Int
<1>1. \A k \in Nat : 2^k \in Int
  OBVIOUS
<1>2. MinDuration \in Int /\ MaxDuration \in Int
  BY RetryPolicyAssumption DEF MinDuration
<1>3. \A x \in Int : Wrap(x) \in Int
  BY RetryPolicyAssumption DEF Wrap, MinDuration
<1>4. \A x \in Int : FloatToDuration(x) \in Int
  BY <1>2 DEF FloatToDuration
<1>5. ASSUME NEW k \in Int PROVE Doubled(rc, k) \in Int
  <2>1. CASE k >= 0
    BY <1>1, <1>4, <2>1 DEF Doubled, RetryConfigs
  <2>2. CASE k < 0
    <3>1. PICK p \in Nat : p = 2^(-k) /\ p > 0
      BY <2>2, PowerPositive
    <3>2. \A x \in Int : x \div p \in Int
      BY <3>1
    <3> QED
      BY <2>2, <3>1, <3>2 DEF Doubled, Halved, RetryConfigs
  <2> QED
    BY <2>1, <2>2
<1> QED
  BY <1>3, <1>5 DEF Backoff, RetryConfigs

(* Settings stay settings when the unset ones are filled in. *)
LEMMA DefaultsType ==
    ASSUME NEW new \in Queues
    PROVE  ApplyQueueDefaults(new) \in Queues
<1>1. \A x, y \in Int : Default(x, y) \in Int
  BY DEF Default
<1> DEFINE rc == new.RetryConfig
<1>2. rc \in RetryConfigs
  BY DEF Queues
<1>3. [MaxAttempts |-> Default(rc.MaxAttempts, Defaults.MaxAttempts),
       MaxRetryDuration |-> rc.MaxRetryDuration,
       MinBackoff |-> Default(rc.MinBackoff, Defaults.MinBackoff),
       MaxBackoff |-> Default(rc.MaxBackoff, Defaults.MaxBackoff),
       MaxDoublings |-> Default(rc.MaxDoublings, Defaults.MaxDoublings)]
        \in RetryConfigs
  BY <1>1, <1>2, QueueAssumption DEF RetryConfigs
<1>4. Default(new.MaxConcurrentDispatches, Defaults.MaxConcurrentDispatches)
        \in Int
  BY <1>1, QueueAssumption DEF Queues
<1> QED
  BY <1>3, <1>4 DEF ApplyQueueDefaults, Queues

(* A semaphore is made with at least one slot. *)
LEMMA SlotsType ==
    ASSUME NEW new \in Queues
    PROVE  Slots(new) \in Nat /\ Slots(new) > 0
BY DEF Slots, Queues

(* The lifetimes in force are integers. *)
LEMMA TTLType ==
    ASSUME TypeOK
    PROVE  EffectiveTaskTTL \in Int /\ EffectiveTombstoneTTL \in Int
BY DEF TypeOK, EffectiveTaskTTL, EffectiveTombstoneTTL, Queues, Engines

(* Removing tasks keeps the types of what it touches. *)
LEMMA DiscardType ==
    ASSUME TypeOK, NEW S, Discard(S)
    PROVE  /\ status' \in [TaskState -> {"free", "creating", "live", "removed"}]
           /\ timer' \in [TaskState -> Driver \union {None}]
           /\ ttlTimer' \in [TaskState -> Int \union {None}]
           /\ tasks' \in [Name -> TaskState \union {None}]
BY DEF TypeOK, Discard

(* Reserving names keeps the types of what it touches. *)
LEMMA TombstoneType ==
    ASSUME TypeOK, NEW S, Tombstone(S)
    PROVE  /\ tombstones' \in [Name -> Int \union {None}]
           /\ cleanups' \in [Name -> SUBSET Int]
           /\ reserved' \in [Name -> Int \union {None}]
<1>1. now + EffectiveTombstoneTTL \in Int
  BY TTLType DEF TypeOK
<1>2. CASE EffectiveTombstoneTTL < 0
  BY <1>2 DEF Tombstone, TypeOK
<1>3. CASE ~(EffectiveTombstoneTTL < 0)
  <2>1. Reservation(S, tombstones) \in [Name -> Int \union {None}]
    BY <1>1 DEF Reservation, TypeOK
  <2>2. Reservation(S, reserved) \in [Name -> Int \union {None}]
    BY <1>1 DEF Reservation, TypeOK
  <2>3. CleanupTimers(S) \in [Name -> SUBSET Int]
    BY <1>1 DEF CleanupTimers, TypeOK
  <2> QED
    BY <1>3, <2>1, <2>2, <2>3 DEF Tombstone
<1> QED
  BY <1>2, <1>3

(* Idle, armed and forced drivers are drivers. *)
LEMMA DriverTypes ==
    ASSUME NEW t \in TaskState, NEW at \in Int
    PROVE  /\ Idle \in Drivers
           /\ Armed(t, at) \in Drivers
           /\ Running(t) \in Drivers
BY DEF Idle, Armed, Running, NewDriver, Drivers, NoSlot

(* A driver that moves on stays a driver. *)
LEMMA DriverUpdates ==
    ASSUME NEW d \in Drivers, NEW a \in Int, NEW k \in Nat,
           NEW pc \in {"armed", "fired", "throttled", "attempt", "dispatch"}
    PROVE  /\ [d EXCEPT !.pc = pc] \in Drivers
           /\ [d EXCEPT !.pc = pc, !.at = a, !.number = k] \in Drivers
BY DEF Drivers

(* Stopping timers leaves drivers. *)
LEMMA StopTimersType ==
    ASSUME NEW ds \in [Driver -> Drivers], NEW S
    PROVE  StopTimers(ds, S) \in [Driver -> Drivers]
<1>1. Idle \in Drivers
  BY DEF Idle, NewDriver, Drivers, NoSlot
<1> QED
  BY <1>1 DEF StopTimers

(* applyAttempt's bookkeeping yields a task. *)
LEMMA CountedType ==
    ASSUME TypeOK, NEW w \in Driver, drv[w].ts \in TaskState,
           NEW outcome \in Outcomes
    PROVE  /\ Counted(w, outcome) \in Tasks
           /\ Counted(w, outcome).DispatchCount \in Nat
           /\ Counted(w, outcome).DispatchCount > 0
<1>1. task[drv[w].ts] \in Tasks /\ drv[w].at \in Int
  BY DEF TypeOK, Drivers
<1>2. outcome \in Exchanges \union {"none"}
  BY QueueAssumption
<1> DEFINE t == task[drv[w].ts]
           d == t.DispatchCount + 1
           a == IF outcome = "noresponse" THEN t.ResponseCount
                ELSE t.ResponseCount + 1
           e == IF outcome \in {"ok", "4xx"} THEN t.executionCount + 1
                ELSE t.executionCount
           f == IF t.firstAttempt = None THEN drv[w].at ELSE t.firstAttempt
<1>4. d \in Nat /\ d > 0 /\ a \in Nat /\ e \in Nat
  BY <1>1 DEF Tasks
<1>5. f \in Int \union {None}
  BY <1>1 DEF Tasks
<1>6. Counted(w, outcome) =
        [t EXCEPT !.DispatchCount = d, !.ResponseCount = a,
                  !.executionCount = e, !.firstAttempt = f, !.last = outcome]
  BY DEF Counted
<1>7. t \in Tasks
  BY <1>1
<1> HIDE DEF t, d, a, e, f
<1>8. LET c == [t EXCEPT !.DispatchCount = d, !.ResponseCount = a,
                         !.executionCount = e, !.firstAttempt = f,
                         !.last = outcome]
      IN  c \in Tasks /\ c.DispatchCount = d
  BY <1>2, <1>4, <1>5, <1>7 DEF Tasks
<1> QED
  BY <1>4, <1>6, <1>8

---------------------------------------------------------------------------
(* The inductive invariant *)

(***************************************************************************)
(* A driver that is not idle works for a task that was added to the queue, *)
(* and it is bound to a semaphore only while it waits for a slot or holds  *)
(* one.                                                                    *)
(***************************************************************************)
DriverTarget ==
    \A w \in Driver :
        /\ AtPC(w, "idle") => drv[w].ts = None
        /\ ~AtPC(w, "idle") => /\ drv[w].ts \in TaskState
                               /\ status[drv[w].ts] \in {"live", "removed"}
        /\ drv[w].pc \in {"idle", "armed", "fired"} => drv[w].sem = NoSlot
        /\ AtPC(w, "throttled") => drv[w].sem \in 0 .. gen

(***************************************************************************)
(* ts.timer, while it has not expired, is an armed timer of that task, and *)
(* only a task in the queue has one.                                       *)
(***************************************************************************)
TimerPointer ==
    \A t \in TaskState :
        timer[t] # None => /\ Live(t)
                           /\ drv[timer[t]].ts = t
                           /\ AtPC(timer[t], "armed")

(* A task that CreateTask is adding, or has added, has a name. *)
Named == \A t \in TaskState : status[t] # "free" => task[t].Name \in Name

(* CreateTask keeps the types. *)
LEMMA TypeCreate ==
    ASSUME TypeOK, NEW t \in TaskState, CreateTask(t)
    PROVE  TypeOK'
<1>1. ASSUME NEW n \in Name, NEW pull \in Targets, NEW delay \in Delays,
             CreateTaskLookup(t, n, pull, delay)
      PROVE  TypeOK'
  <2> DEFINE r == [Name |-> n, Pull |-> pull, ScheduleTime |-> now + delay,
                   DispatchCount |-> 0, ResponseCount |-> 0,
                   executionCount |-> 0, firstAttempt |-> None,
                   last |-> "none"]
  <2>1. pull \in BOOLEAN /\ now + delay \in Int
    BY QueueAssumption DEF TypeOK
  <2>2. r \in Tasks
    BY <2>1 DEF Tasks
  <2> HIDE DEF r
  <2>3. task' = [task EXCEPT ![t] = r]
    BY <1>1 DEF CreateTaskLookup, r
  <2> QED
    BY <1>1, <2>2, <2>3 DEF CreateTaskLookup, TypeOK, qVars, nameVars
<1>2. CASE CreateTaskRejected(t)
  BY <1>2 DEF CreateTaskRejected, TypeOK, qVars, nameVars
<1>3. CASE CreateTaskAdd(t)
  <2>1. task[t] \in Tasks /\ task[t].ScheduleTime \in Int
    BY DEF TypeOK, Tasks
  <2>2. now + EffectiveTaskTTL \in Int
    BY TTLType DEF TypeOK
  <2>3. drv' \in [Driver -> Drivers] /\ timer' \in [TaskState -> Driver \union {None}]
    <3>1. CASE Push(t)
      <4>1. PICK w \in IdleDrivers :
              /\ drv' = [drv EXCEPT ![w] = Armed(t, task[t].ScheduleTime)]
              /\ timer' = [timer EXCEPT ![t] = w]
        BY <1>3, <3>1 DEF CreateTaskAdd, Schedule
      <4>2. Armed(t, task[t].ScheduleTime) \in Drivers
        BY <2>1, DriverTypes
      <4> QED
        BY <4>1, <4>2 DEF TypeOK, IdleDrivers
    <3>2. CASE ~Push(t)
      BY <1>3, <3>2 DEF CreateTaskAdd, Schedule, TypeOK
    <3> QED
      BY <3>1, <3>2
  <2> QED
    BY <1>3, <2>2, <2>3 DEF CreateTaskAdd, TypeOK, qVars
<1> QED
  BY <1>1, <1>2, <1>3 DEF CreateTask

(* Arming a timer again keeps the types. *)
LEMMA RearmType ==
    ASSUME TypeOK, NEW w \in Driver, drv[w].ts \in TaskState, NEW at \in Int,
           Rearm(w, at)
    PROVE  /\ drv' \in [Driver -> Drivers]
           /\ timer' \in [TaskState -> Driver \union {None}]
<1>1. Armed(drv[w].ts, at) \in Drivers
  BY DriverTypes
<1> QED
  BY <1>1 DEF Rearm, TypeOK

(* A timer that expires, and fire, keep the types. *)
LEMMA TypeFire ==
    ASSUME TypeOK, DriverTarget, NEW w \in Driver, Fire(w) \/ AcquireSlot(w)
    PROVE  TypeOK'
<1>0. \A pc \in {"fired", "attempt"} : [drv[w] EXCEPT !.pc = pc] \in Drivers
  BY DriverUpdates DEF TypeOK
<1>1. CASE TimerExpires(w)
  <2>1. drv' \in [Driver -> Drivers]
    BY <1>0, <1>1 DEF TimerExpires, TypeOK
  <2> QED
    BY <1>1, <2>1 DEF TimerExpires, TypeOK, qVars, nameVars
<1>2. CASE FireRemoved(w)
  <2>1. Idle \in Drivers
    BY DEF Idle, NewDriver, Drivers, NoSlot
  <2> QED
    BY <1>2, <2>1 DEF FireRemoved, TypeOK, qVars, nameVars, taskVars
<1>3. CASE FireHeld(w)
  <2>1. drv[w].ts \in TaskState
    BY <1>3 DEF FireHeld, DriverTarget, AtPC
  <2>2. now + PollInterval \in Int
    BY QueueAssumption DEF TypeOK
  <2>3. /\ drv' \in [Driver -> Drivers]
        /\ timer' \in [TaskState -> Driver \union {None}]
    BY <1>3, <2>1, <2>2, RearmType DEF FireHeld
  <2> QED
    BY <1>3, <2>1, <2>3 DEF FireHeld, TypeOK, qVars, nameVars
<1>4. CASE FirePass(w)
  <2>1. [drv[w] EXCEPT !.pc = "throttled", !.sem = gen] \in Drivers
    BY DEF TypeOK, Drivers
  <2>2. drv' \in [Driver -> Drivers]
    BY <1>4, <2>1 DEF FirePass, TypeOK
  <2> QED
    BY <1>4, <2>2 DEF FirePass, TypeOK, qVars, nameVars, taskVars
<1>5. CASE AcquireSlot(w)
  <2>1. drv[w].sem \in Generation
    BY <1>5, QueueAssumption
       DEF AcquireSlot, DriverTarget, AtPC, TypeOK, Generation
  <2>2. inUse' \in [Generation -> Int]
    BY <1>5, <2>1 DEF AcquireSlot, TypeOK
  <2>3. drv' \in [Driver -> Drivers]
    BY <1>0, <1>5 DEF AcquireSlot, TypeOK
  <2> QED
    BY <1>5, <2>2, <2>3 DEF AcquireSlot, TypeOK, qVars, nameVars, taskVars
<1> QED
  BY <1>1, <1>2, <1>3, <1>4, <1>5 DEF Fire

(* Giving a slot back keeps the type of the semaphores. *)
LEMMA ReleaseType ==
    ASSUME TypeOK, NEW w \in Driver, ReleaseSlot(w)
    PROVE  inUse' \in [Generation -> Int]
<1>1. drv[w].sem = NoSlot \/ drv[w].sem \in Generation
  BY DEF TypeOK, Drivers
<1> QED
  BY <1>1 DEF ReleaseSlot, TypeOK

(* Taking a slot and an attempt keep the types. *)
LEMMA TypeAttempt ==
    ASSUME TypeOK, DriverTarget, NEW w \in Driver, Attempt(w)
    PROVE  TypeOK'
<1>0. Idle \in Drivers
  BY DEF Idle, NewDriver, Drivers, NoSlot
<1>1. CASE AttemptAborted(w)
  BY <1>0, <1>1, ReleaseType
     DEF AttemptAborted, TypeOK, qVars, nameVars, taskVars
<1>2. CASE SnapshotAttempt(w)
  <2>1. drv[w].ts \in TaskState
    BY <1>2 DEF SnapshotAttempt, DriverTarget, AtPC
  <2>2. PICK k \in Nat : k = task[drv[w].ts].DispatchCount + 1
    BY <2>1 DEF TypeOK, Tasks
  <2>3. drv[w] \in Drivers /\ now \in Int
    BY DEF TypeOK
  <2>4. [drv[w] EXCEPT !.pc = "dispatch", !.at = now, !.number = k] \in Drivers
    BY <2>3, DriverUpdates
  <2>5. drv' \in [Driver -> Drivers]
    BY <1>2, <2>2, <2>4 DEF SnapshotAttempt, TypeOK
  <2> QED
    BY <1>2, <2>5 DEF SnapshotAttempt, TypeOK, qVars, nameVars, taskVars
<1>3. CASE ApplyStale(w)
  BY <1>0, <1>3, ReleaseType DEF ApplyStale, TypeOK, qVars, nameVars, taskVars
<1>4. ASSUME NEW outcome \in Outcomes, ApplyRemove(w, outcome)
      PROVE  TypeOK'
  <2>1. drv[w].ts \in TaskState
    BY <1>4 DEF ApplyRemove, DriverTarget, AtPC
  <2>2. Counted(w, outcome) \in Tasks
    BY <2>1, CountedType
  <2>3. task' \in [TaskState -> Tasks]
    BY <1>4, <2>1, <2>2 DEF ApplyRemove, TypeOK
  <2>4. [drv EXCEPT ![w] = Idle] \in [Driver -> Drivers]
    BY <1>0 DEF TypeOK
  <2>5. drv' \in [Driver -> Drivers]
    BY <1>4, <2>4, StopTimersType DEF ApplyRemove, RemoveLocked
  <2>6. Discard({drv[w].ts}) /\ Tombstone({drv[w].ts}) /\ ReleaseSlot(w)
    BY <1>4 DEF ApplyRemove, RemoveLocked
  <2> QED
    BY <1>4, <2>3, <2>5, <2>6, DiscardType, TombstoneType, ReleaseType
       DEF ApplyRemove, TypeOK, qVars
<1>5. ASSUME NEW outcome \in Outcomes, ApplyRetry(w, outcome)
      PROVE  TypeOK'
  <2>1. drv[w].ts \in TaskState
    BY <1>5 DEF ApplyRetry, DriverTarget, AtPC
  <2> DEFINE c == Counted(w, outcome)
             at == now + Backoff(q.RetryConfig, c.DispatchCount)
  <2>2. c \in Tasks /\ c.DispatchCount \in Nat /\ c.DispatchCount > 0
    BY <2>1, CountedType
  <2>3. at \in Int
    BY <2>2, BackoffType DEF TypeOK, Queues
  <2>4. task' = [task EXCEPT ![drv[w].ts] = [c EXCEPT !.ScheduleTime = at]]
    BY <1>5 DEF ApplyRetry
  <2> HIDE DEF c, at
  <2>5. /\ [c EXCEPT !.ScheduleTime = at] \in Tasks
        /\ [c EXCEPT !.ScheduleTime = at].ScheduleTime = at
    BY <2>2, <2>3 DEF Tasks
  <2>6. task' \in [TaskState -> Tasks] /\ task'[drv[w].ts].ScheduleTime = at
    BY <2>1, <2>4, <2>5 DEF TypeOK
  <2>7. Rearm(w, at) /\ ReleaseSlot(w)
    BY <1>5, <2>6 DEF ApplyRetry
  <2>8. /\ drv' \in [Driver -> Drivers]
        /\ timer' \in [TaskState -> Driver \union {None}]
    BY <2>1, <2>3, <2>7, RearmType
  <2> QED
    BY <1>5, <2>6, <2>7, <2>8, ReleaseType DEF ApplyRetry, TypeOK, qVars, nameVars
<1> QED
  BY <1>1, <1>2, <1>3, <1>4, <1>5 DEF Attempt

(* Expiry and the cleanup of tombstones keep the types. *)
LEMMA TypeTimers ==
    ASSUME TypeOK,
           \/ \E t \in TaskState : TTLTimerExpires(t) \/ Expire(t)
           \/ \E n \in Name : CleanupTombstone(n)
           \/ Tick
    PROVE  TypeOK'
<1>1. ASSUME NEW t \in TaskState, TTLTimerExpires(t) PROVE TypeOK'
  BY <1>1 DEF TTLTimerExpires, TypeOK, qVars, nameVars
<1>2. ASSUME NEW t \in TaskState, Expire(t) PROVE TypeOK'
  <2>1. CASE Live(t)
    <3>1. Discard({t}) /\ Tombstone({t}) /\ drv' = StopTimers(drv, {t})
      BY <1>2, <2>1 DEF Expire, RemoveLocked
    <3>2. drv' \in [Driver -> Drivers]
      BY <3>1, StopTimersType DEF TypeOK
    <3> QED
      BY <1>2, <3>1, <3>2, DiscardType, TombstoneType DEF Expire, TypeOK, qVars
  <2>2. CASE ~Live(t)
    BY <1>2, <2>2 DEF Expire, TypeOK, qVars, nameVars
  <2> QED
    BY <2>1, <2>2
<1>3. ASSUME NEW n \in Name, CleanupTombstone(n) PROVE TypeOK'
  <2>1. CleanedUp(n) \in Int \union {None}
    BY DEF CleanedUp, TypeOK
  <2>2. tombstones' \in [Name -> Int \union {None}]
    BY <1>3, <2>1 DEF CleanupTombstone, TypeOK
  <2>3. cleanups' \in [Name -> SUBSET Int]
    BY <1>3 DEF CleanupTombstone, TypeOK
  <2> QED
    BY <1>3, <2>2, <2>3 DEF CleanupTombstone, TypeOK, qVars, taskVars
<1>4. CASE Tick
  BY <1>4 DEF Tick, TypeOK, qVars, nameVars, taskVars
<1> QED
  BY <1>1, <1>2, <1>3, <1>4

(* DeleteTask and RunTask keep the types. *)
LEMMA TypeTaskCalls ==
    ASSUME TypeOK, NEW n \in Name, DeleteTask(n) \/ RunTask(n)
    PROVE  TypeOK'
<1>0. tasks[n] # None => tasks[n] \in TaskState
  BY DEF TypeOK
<1>1. CASE DeleteTask(n)
  <2>1. /\ Discard({tasks[n]})
        /\ Tombstone({tasks[n]})
        /\ drv' = StopTimers(drv, {tasks[n]})
    BY <1>1 DEF DeleteTask, RemoveLocked
  <2>2. drv' \in [Driver -> Drivers]
    BY <2>1, StopTimersType DEF TypeOK
  <2> QED
    BY <1>1, <2>1, <2>2, DiscardType, TombstoneType DEF DeleteTask, TypeOK, qVars
<1>2. CASE RunTask(n)
  <2>1. tasks[n] \in TaskState
    BY <1>0, <1>2 DEF RunTask
  <2>2. Running(tasks[n]) \in Drivers
    BY <2>1, DriverTypes
  <2>3. RunDrivers(tasks[n]) \subseteq Driver
    BY <2>1 DEF RunDrivers, IdleDrivers, TypeOK
  <2>4. drv' \in [Driver -> Drivers]
    BY <1>2, <2>2, <2>3 DEF RunTask, TypeOK
  <2>5. timer' \in [TaskState -> Driver \union {None}]
    BY <1>2, <2>1 DEF RunTask, TypeOK
  <2>6. ASSUME NEW r \in Tasks PROVE [r EXCEPT !.ScheduleTime = now] \in Tasks
    <3>1. now \in Int
      BY DEF TypeOK
    <3> QED
      BY <3>1 DEF Tasks
  <2>7. task' \in [TaskState -> Tasks]
    BY <1>2, <2>1, <2>6 DEF RunTask, TypeOK
  <2>8. forked' \subseteq TaskState
    BY <1>2, <2>1 DEF RunTask, TypeOK
  <2> QED
    BY <1>2, <2>4, <2>5, <2>7, <2>8 DEF RunTask, TypeOK, qVars, nameVars
<1> QED
  BY <1>1, <1>2

(* PurgeQueue, PauseQueue, UpdateQueue and DeleteQueue keep the types. *)
LEMMA TypeQueueCalls ==
    ASSUME TypeOK,
           \/ PurgeQueue
           \/ \E st \in {"RUNNING", "PAUSED"} : SetQueueState(st)
           \/ \E new \in NewQueues, mask \in SUBSET Fields : UpdateQueue(new, mask)
           \/ DeleteQueue
    PROVE  TypeOK'
<1>1. CASE PurgeQueue
  <2>1. Discard(Listed)
    BY <1>1 DEF PurgeQueue
  <2>2. drv' \in [Driver -> Drivers]
    BY <1>1, StopTimersType DEF PurgeQueue, TypeOK
  <2>3. /\ tombstones' \in [Name -> Int \union {None}]
        /\ cleanups' \in [Name -> SUBSET Int]
        /\ reserved' \in [Name -> Int \union {None}]
    <3>1. CASE eng.hardResetOnPurge
      <4>1. CleanupTimers(Listed) \in [Name -> SUBSET Int]
        BY TTLType DEF CleanupTimers, TypeOK
      <4> QED
        BY <1>1, <3>1, <4>1 DEF PurgeQueue, TypeOK
    <3>2. CASE ~eng.hardResetOnPurge
      BY <1>1, <3>2, TombstoneType DEF PurgeQueue
    <3> QED
      BY <3>1, <3>2
  <2> QED
    BY <1>1, <2>1, <2>2, <2>3, DiscardType DEF PurgeQueue, TypeOK, qVars
<1>2. ASSUME NEW st \in {"RUNNING", "PAUSED"}, SetQueueState(st) PROVE TypeOK'
  <2>1. q' \in Queues
    BY <1>2 DEF SetQueueState, TypeOK, Queues
  <2> QED
    BY <1>2, <2>1 DEF SetQueueState, TypeOK, nameVars, taskVars
<1>3. ASSUME NEW new \in NewQueues, NEW mask \in SUBSET Fields,
             UpdateQueue(new, mask)
      PROVE  TypeOK'
  <2> DEFINE conc == IF mask = {} \/ "RateLimits" \in mask
                     THEN new.MaxConcurrentDispatches
                     ELSE q.MaxConcurrentDispatches
             rc == IF mask = {} \/ "RetryConfig" \in mask
                   THEN new.RetryConfig ELSE q.RetryConfig
  <2>1. new \in Queues
    BY QueueAssumption
  <2>2. conc \in Int /\ rc \in RetryConfigs
    BY <2>1 DEF TypeOK, Queues
  <2>3. q' = ApplyQueueDefaults([q EXCEPT !.MaxConcurrentDispatches = conc,
                                          !.RetryConfig = rc])
    BY <1>3 DEF UpdateQueue
  <2> HIDE DEF conc, rc
  <2>4. [q EXCEPT !.MaxConcurrentDispatches = conc, !.RetryConfig = rc] \in Queues
    BY <2>2 DEF TypeOK, Queues
  <2>5. q' \in Queues
    BY <2>3, <2>4, DefaultsType
  <2>6. Slots(q') \in Nat /\ Slots(q') > 0
    BY <2>5, SlotsType
  <2>7. MaxUpdates \in Nat
    BY QueueAssumption
  <2>8. gen \in 0 .. MaxUpdates /\ gen < MaxUpdates /\ gen' = gen + 1
    BY <1>3 DEF UpdateQueue, TypeOK, Generation
  <2>9. gen' \in Generation
    BY <2>7, <2>8 DEF Generation
  <2>10. capacity' = [capacity EXCEPT ![gen'] = Slots(q')]
    BY <1>3, <2>8 DEF UpdateQueue
  <2>11. capacity \in [Generation -> Nat] /\ \A g \in 0 .. gen : capacity[g] > 0
    BY DEF TypeOK
  <2>12. capacity' \in [Generation -> Nat]
    BY <2>6, <2>9, <2>10, <2>11
  <2>13. ASSUME NEW g \in 0 .. gen' PROVE capacity'[g] > 0
    <3>1. g = gen' \/ g \in 0 .. gen
      BY <2>7, <2>8
    <3>2. g \in Generation
      BY <2>7, <2>8 DEF Generation
    <3> QED
      BY <2>6, <2>10, <2>11, <3>1, <3>2
  <2> QED
    BY <1>3, <2>5, <2>9, <2>12, <2>13 DEF UpdateQueue, TypeOK, nameVars, taskVars
<1>4. CASE DeleteQueue
  <2>1. Discard(Listed)
    BY <1>4 DEF DeleteQueue
  <2>2. drv' \in [Driver -> Drivers]
    BY <1>4, StopTimersType DEF DeleteQueue, TypeOK
  <2> QED
    BY <1>4, <2>1, <2>2, DiscardType DEF DeleteQueue, TypeOK
<1> QED
  BY <1>1, <1>2, <1>3, <1>4

(* A new queue is well typed. *)
LEMMA TypeInit == Init => TypeOK
<1> SUFFICES ASSUME Init PROVE TypeOK
  OBVIOUS
<1>1. q \in Queues
  BY QueueAssumption, DefaultsType DEF Init
<1>2. eng \in Engines
  <2>1. PICK cfg \in EngineConfigs : eng = NewEngine(cfg)
    BY DEF Init
  <2>2. \A a, b \in Int :
          [cfg EXCEPT !.taskTTL = a, !.tombstoneTTL = b] \in Engines
    BY QueueAssumption DEF Engines
  <2>3. /\ Default(cfg.taskTTL, Defaults.TaskTTL) \in Int
        /\ Default(cfg.tombstoneTTL, Defaults.TombstoneTTL) \in Int
    BY QueueAssumption DEF Default, Engines
  <2> QED
    BY <2>1, <2>2, <2>3 DEF NewEngine
<1>3. 0 \in Generation /\ 0 .. 0 = {0}
  BY QueueAssumption DEF Generation
<1>4. /\ capacity \in [Generation -> Nat]
      /\ \A g \in 0 .. gen : capacity[g] > 0
  BY <1>1, <1>3, SlotsType DEF Init
<1>5. NoTask \in Tasks
  BY DEF NoTask, Tasks
<1>6. Idle \in Drivers
  BY DEF Idle, NewDriver, Drivers, NoSlot
<1> QED
  BY <1>1, <1>2, <1>3, <1>4, <1>5, <1>6 DEF Init, TypeOK

(* Every step keeps the types. *)
LEMMA TypeStep ==
    ASSUME TypeOK, DriverTarget, [Next]_vars
    PROVE  TypeOK'
<1>1. CASE UNCHANGED vars
  BY <1>1 DEF vars, qVars, nameVars, taskVars, TypeOK
<1>2. CASE Next
  BY <1>2, TypeCreate, TypeFire, TypeAttempt, TypeTimers, TypeTaskCalls,
     TypeQueueCalls DEF Next
<1> QED
  BY <1>1, <1>2

---------------------------------------------------------------------------
(* How tasks, timers and drivers hang together *)

Structure ==
    /\ Named /\ IndexMatches /\ DriverTarget /\ TimerPointer
    /\ NeverStranded /\ SingleChain

(* What no action but CreateTask changes of a task. *)
SameTasks ==
    /\ q'.Pull = q.Pull
    /\ \A t \in TaskState : /\ task'[t].Name = task[t].Name
                            /\ task'[t].Pull = task[t].Pull

SameCounts(S) ==
    \A t \in S : task'[t].DispatchCount = task[t].DispatchCount

(* What an idle driver carries: nothing. *)
LEMMA IdleFields ==
    /\ Idle.pc = "idle"
    /\ Idle.ts = None
    /\ Idle.sem = NoSlot
BY DEF Idle, NewDriver

(* What a new driver carries. *)
LEMMA ArmedFields ==
    ASSUME NEW t, NEW at
    PROVE  /\ Armed(t, at).pc = "armed"
           /\ Armed(t, at).ts = t
           /\ Armed(t, at).sem = NoSlot
BY DEF Armed, NewDriver

(***************************************************************************)
(* Any step that removes tasks of the queue, with their timers, and ends   *)
(* drivers of theirs only: DeleteTask, PurgeQueue, DeleteQueue, Expire and *)
(* the end of the last attempt.                                            *)
(***************************************************************************)
LEMMA StructureRemove ==
    ASSUME TypeOK, Structure,
           NEW S \in SUBSET TaskState, \A t \in S : Live(t),
           NEW ds \in [Driver -> Drivers],
           \A w \in Driver : ds[w] = drv[w] \/ (ds[w] = Idle /\ drv[w].ts \in S),
           Discard(S), drv' = StopTimers(ds, S),
           SameTasks, SameCounts(TaskState \ S),
           gen' = gen, forked' = forked
    PROVE  Structure'
<1>1. ASSUME NEW w \in Driver
      PROVE  drv'[w] = drv[w] \/ (drv'[w] = Idle /\ drv[w].ts \in S)
  BY QueueAssumption DEF StopTimers, Structure, TimerPointer, TypeOK
<1>2. \A t \in TaskState :
        /\ t \in S => status'[t] = "removed" /\ timer'[t] = None
        /\ t \notin S => status'[t] = status[t] /\ timer'[t] = timer[t]
  BY DEF Discard
<1>3. \A n \in Name :
        tasks'[n] = IF \E t \in S : task[t].Name = n THEN None ELSE tasks[n]
  BY DEF Discard, NamesOf
<1>4. None \notin TaskState
  BY QueueAssumption
<1>5. IndexMatches'
  <2>1. ASSUME NEW n \in Name, tasks'[n] # None
        PROVE  Live(tasks[n])' /\ task'[tasks'[n]].Name = n
    <3>1. tasks'[n] = tasks[n] /\ \A t \in S : task[t].Name # n
      BY <1>3, <2>1
    <3>2. /\ tasks[n] \in TaskState
          /\ Live(tasks[n])
          /\ task[tasks[n]].Name = n
      BY <2>1, <3>1 DEF Structure, IndexMatches, TypeOK
    <3> QED
      BY <1>2, <3>1, <3>2 DEF Live, SameTasks
  <2>2. ASSUME NEW t \in TaskState, Live(t)'
        PROVE  task'[t].Name \in Name /\ tasks'[task'[t].Name] = t
    <3>1. t \notin S /\ Live(t)
      BY <1>2, <2>2 DEF Live
    <3>2. task[t].Name \in Name /\ tasks[task[t].Name] = t
      BY <3>1 DEF Structure, IndexMatches
    <3>3. \A s \in S : task[s].Name # task[t].Name
      BY <3>1, <3>2 DEF Structure, IndexMatches
    <3> QED
      BY <1>3, <3>2, <3>3 DEF SameTasks
  <2> QED
    BY <2>1, <2>2 DEF IndexMatches, Live
<1>6. DriverTarget'
  <2> SUFFICES ASSUME NEW w \in Driver
               PROVE  DriverTarget!(w)'
    BY DEF DriverTarget
  <2>1. CASE drv'[w] = drv[w]
    BY <1>2, <2>1 DEF Structure, DriverTarget, AtPC
  <2>2. CASE drv'[w] = Idle
    BY <2>2, IdleFields DEF AtPC
  <2> QED
    BY <1>1, <2>1, <2>2
<1>7. TimerPointer'
  <2> SUFFICES ASSUME NEW t \in TaskState, timer'[t] # None
               PROVE  TimerPointer!(t)'
    BY DEF TimerPointer
  <2>1. t \notin S /\ timer'[t] = timer[t] /\ timer[t] \in Driver
    BY <1>2 DEF TypeOK
  <2>2. Live(t) /\ drv[timer[t]].ts = t /\ AtPC(timer[t], "armed")
    BY <2>1 DEF Structure, TimerPointer
  <2>3. drv'[timer[t]] = drv[timer[t]]
    BY <1>1, <2>1, <2>2
  <2> QED
    BY <1>2, <2>1, <2>2, <2>3 DEF Live, AtPC
<1>8. NeverStranded'
  <2> SUFFICES ASSUME NEW t \in TaskState, Live(t)', Push(t)'
               PROVE  \E w \in Driver : drv'[w].ts = t
    BY DEF NeverStranded
  <2>1. t \notin S /\ Live(t) /\ Push(t)
    BY <1>2 DEF Live, Push, SameTasks
  <2>2. PICK w \in Driver : drv[w].ts = t
    BY <2>1 DEF Structure, NeverStranded
  <2> QED
    BY <1>1, <2>1, <2>2
<1>9. SingleChain'
  <2>1. ASSUME NEW t \in TaskState, NEW w \in Driver, drv'[w].ts = t
        PROVE  drv'[w] = drv[w]
    BY <1>1, <1>4, <2>1, IdleFields
  <2>2. ASSUME NEW t \in TaskState \ forked', NEW v \in Driver, NEW w \in Driver,
               drv'[v].ts = t, drv'[w].ts = t
        PROVE  v = w
    BY <2>1, <2>2 DEF Structure, SingleChain
  <2>3. ASSUME NEW t \in TaskState \ forked', NEW w \in Driver,
               drv'[w].ts = t, drv'[w].pc = "dispatch", Live(t)'
        PROVE  drv'[w].number = task'[t].DispatchCount + 1
    <3>1. t \notin S /\ Live(t) /\ drv'[w] = drv[w]
      BY <1>2, <2>1, <2>3 DEF Live
    <3> QED
      BY <2>3, <3>1 DEF Structure, SingleChain, SameCounts, AtPC
  <2> QED
    BY <2>2, <2>3 DEF SingleChain, AtPC
<1>10. Named'
  BY <1>2 DEF Structure, Named, Live, SameTasks
<1> QED
  BY <1>5, <1>6, <1>7, <1>8, <1>9, <1>10 DEF Structure

(***************************************************************************)
(* Any step of one driver w that leaves the queue's tasks in place: it     *)
(* goes on with its task, or it ends because the task is gone.             *)
(***************************************************************************)
LEMMA StructureDriver ==
    ASSUME TypeOK, Structure,
           NEW w \in Driver, ~AtPC(w, "idle"),
           NEW d \in Drivers, drv' = [drv EXCEPT ![w] = d],
           \/ d.ts = drv[w].ts /\ d.pc # "idle"
           \/ d = Idle /\ ~Live(drv[w].ts),
           d.pc \in {"armed", "fired"} => d.sem = NoSlot,
           d.pc = "throttled" => d.sem \in 0 .. gen,
           d.pc = "dispatch" => d.number = task'[drv[w].ts].DispatchCount + 1,
           \A t \in TaskState :
             timer'[t] # None =>
                \/ timer'[t] = timer[t] /\ timer[t] # w
                \/ /\ t = drv[w].ts /\ Live(t)
                   /\ timer'[t] = w /\ d.pc = "armed",
           SameTasks, SameCounts(TaskState \ {drv[w].ts}),
           status' = status, tasks' = tasks, gen' = gen, forked' = forked
    PROVE  Structure'
<1>1. /\ drv'[w] = d
      /\ \A v \in Driver \ {w} : drv'[v] = drv[v]
  BY DEF TypeOK
<1>2. None \notin TaskState
  BY QueueAssumption
<1>3. IndexMatches'
  <2>1. \A n \in Name : tasks[n] \in TaskState \union {None}
    BY DEF TypeOK
  <2> QED
    BY <2>1 DEF Structure, IndexMatches, Live, SameTasks
<1>4. DriverTarget'
  <2> SUFFICES ASSUME NEW v \in Driver
               PROVE  DriverTarget!(v)'
    BY DEF DriverTarget
  <2>1. CASE v # w
    BY <1>1, <2>1 DEF Structure, DriverTarget, AtPC
  <2>2. CASE v = w /\ d = Idle
    BY <1>1, <2>2, IdleFields DEF AtPC
  <2>3. CASE v = w /\ d.ts = drv[w].ts /\ d.pc # "idle"
    BY <1>1, <2>3 DEF Structure, DriverTarget, AtPC
  <2> QED
    BY <2>1, <2>2, <2>3
<1>5. TimerPointer'
  <2> SUFFICES ASSUME NEW t \in TaskState, timer'[t] # None
               PROVE  TimerPointer!(t)'
    BY DEF TimerPointer
  <2>1. CASE timer'[t] = timer[t] /\ timer[t] # w
    <3>1. timer[t] \in Driver \ {w}
      BY <2>1 DEF TypeOK
    <3> QED
      BY <1>1, <2>1, <3>1 DEF Structure, TimerPointer, Live, AtPC
  <2>2. CASE t = drv[w].ts /\ Live(t) /\ timer'[t] = w /\ d.pc = "armed"
    BY <1>1, <2>2, IdleFields DEF Live, AtPC
  <2> QED
    BY <2>1, <2>2
<1>6. NeverStranded'
  <2> SUFFICES ASSUME NEW t \in TaskState, Live(t)', Push(t)'
               PROVE  \E v \in Driver : drv'[v].ts = t
    BY DEF NeverStranded
  <2>1. Live(t) /\ Push(t)
    BY DEF Live, Push, SameTasks
  <2>2. PICK v \in Driver : drv[v].ts = t
    BY <2>1 DEF Structure, NeverStranded
  <2> QED
    BY <1>1, <2>1, <2>2
<1>7. SingleChain'
  <2>1. ASSUME NEW t \in TaskState, NEW v \in Driver, drv'[v].ts = t
        PROVE  drv[v].ts = t
    BY <1>1, <1>2, <2>1, IdleFields
  <2>2. ASSUME NEW t \in TaskState \ forked', NEW u \in Driver, NEW v \in Driver,
               drv'[u].ts = t, drv'[v].ts = t
        PROVE  u = v
    BY <2>1, <2>2 DEF Structure, SingleChain
  <2>3. ASSUME NEW t \in TaskState \ forked', NEW v \in Driver,
               drv'[v].ts = t, drv'[v].pc = "dispatch", Live(t)'
        PROVE  drv'[v].number = task'[t].DispatchCount + 1
    <3>1. CASE v = w
      BY <1>1, <2>1, <2>3, <3>1
    <3>2. CASE v # w
      <4>1. t # drv[w].ts
        BY <2>1, <2>3, <3>2 DEF Structure, SingleChain
      <4>2. task'[t].DispatchCount = task[t].DispatchCount
        BY <4>1 DEF SameCounts
      <4> QED
        BY <1>1, <2>3, <3>2, <4>2 DEF Structure, SingleChain, Live, AtPC
    <3> QED
      BY <3>1, <3>2
  <2> QED
    BY <2>2, <2>3 DEF SingleChain, AtPC
<1>8. Named'
  BY DEF Structure, Named, SameTasks
<1> QED
  BY <1>3, <1>4, <1>5, <1>6, <1>7, <1>8 DEF Structure

(* Any step that touches neither tasks nor drivers. *)
LEMMA StructureSame ==
    ASSUME TypeOK, Structure, SameTasks, SameCounts(TaskState),
           status' = status, tasks' = tasks, timer' = timer, drv' = drv,
           forked' = forked, gen' \in Int, gen' >= gen
    PROVE  Structure'
<1>1. IndexMatches'
  <2>1. \A n \in Name : tasks[n] \in TaskState \union {None}
    BY DEF TypeOK
  <2> QED
    BY <2>1 DEF Structure, IndexMatches, Live, SameTasks
<1>2. DriverTarget'
  <2>1. gen \in Int /\ 0 .. gen \subseteq 0 .. gen'
    BY DEF TypeOK, Generation
  <2> QED
    BY <2>1 DEF Structure, DriverTarget, AtPC
<1>3. TimerPointer'
  BY DEF Structure, TimerPointer, Live, AtPC
<1>4. NeverStranded'
  BY DEF Structure, NeverStranded, Live, Push, SameTasks
<1>5. SingleChain'
  BY DEF Structure, SingleChain, Live, AtPC, SameCounts
<1>6. Named'
  BY DEF Structure, Named, SameTasks
<1> QED
  BY <1>1, <1>2, <1>3, <1>4, <1>5, <1>6 DEF Structure

(* CreateTask keeps the structure: a new task gets its index entry and its driver. *)
LEMMA StructureCreate ==
    ASSUME TypeOK, Structure, NEW t \in TaskState, CreateTask(t)
    PROVE  Structure'
<1>0. None \notin TaskState
  BY QueueAssumption
<1>1. ASSUME status[t] \in {"free", "creating"}
      PROVE  /\ timer[t] = None
             /\ \A w \in Driver : drv[w].ts # t
             /\ \A n \in Name : tasks[n] # t
  BY <1>0, <1>1 DEF Structure, TimerPointer, DriverTarget, IndexMatches, Live
(* Neither before nor after is t in the queue. *)
<1>2. ASSUME status[t] \in {"free", "creating"},
             status'[t] \in {"free", "creating"},
             status'[t] = "free" \/ task'[t].Name \in Name,
             \A s \in TaskState \ {t} :
               status'[s] = status[s] /\ task'[s] = task[s],
             q' = q, gen' = gen, tasks' = tasks, timer' = timer, drv' = drv,
             forked' = forked
      PROVE  Structure'
  <2>1. IndexMatches'
    <3>1. \A n \in Name : tasks[n] \in TaskState \union {None}
      BY DEF TypeOK
    <3> QED
      BY <1>1, <1>2, <3>1 DEF Structure, IndexMatches, Live
  <2>2. DriverTarget'
    BY <1>1, <1>2 DEF Structure, DriverTarget, AtPC
  <2>3. TimerPointer'
    BY <1>1, <1>2 DEF Structure, TimerPointer, Live, AtPC
  <2>4. NeverStranded'
    BY <1>1, <1>2 DEF Structure, NeverStranded, Live, Push
  <2>5. SingleChain'
    BY <1>1, <1>2 DEF Structure, SingleChain, Live, AtPC
  <2>6. Named'
    BY <1>2 DEF Structure, Named
  <2> QED
    BY <2>1, <2>2, <2>3, <2>4, <2>5, <2>6 DEF Structure
<1>3. ASSUME NEW n \in Name, NEW pull \in Targets, NEW delay \in Delays,
             CreateTaskLookup(t, n, pull, delay)
      PROVE  Structure'
  <2>1. task'[t].Name = n
    BY <1>3 DEF CreateTaskLookup, TypeOK
  <2> QED
    BY <1>2, <1>3, <2>1 DEF CreateTaskLookup, TypeOK, qVars, nameVars
<1>4. CASE CreateTaskRejected(t)
  BY <1>2, <1>4 DEF CreateTaskRejected, TypeOK, qVars, nameVars
<1>5. CASE CreateTaskAdd(t)
  <2>1. /\ status[t] = "creating" /\ status'[t] = "live"
        /\ \A s \in TaskState \ {t} : status'[s] = status[s]
        /\ task' = task /\ q' = q /\ gen' = gen /\ forked' = forked
    BY <1>5 DEF CreateTaskAdd, TypeOK, qVars
  <2>2. task[t].Name \in Name
    BY <2>1 DEF Structure, Named
  <2>3. /\ tasks[task[t].Name] = None
        /\ tasks'[task[t].Name] = t
        /\ \A n \in Name \ {task[t].Name} : tasks'[n] = tasks[n]
    BY <1>5, <2>2 DEF CreateTaskAdd, NameTaken, TypeOK
  <2>4. timer[t] = None /\ \A w \in Driver : drv[w].ts # t
    BY <1>1, <2>1
  <2>5. \/ ~Push(t) /\ drv' = drv /\ timer' = timer
        \/ \E w \in Driver :
             /\ AtPC(w, "idle")
             /\ drv' = [drv EXCEPT ![w] = Armed(t, task[t].ScheduleTime)]
             /\ timer' = [timer EXCEPT ![t] = w]
    BY <1>5 DEF CreateTaskAdd, Schedule, IdleDrivers
  <2>6. \/ ~Push(t) /\ drv' = drv /\ timer' = timer
        \/ \E w \in Driver :
             /\ AtPC(w, "idle")
             /\ drv'[w].pc = "armed" /\ drv'[w].ts = t /\ drv'[w].sem = NoSlot
             /\ \A v \in Driver \ {w} : drv'[v] = drv[v]
             /\ timer'[t] = w
             /\ \A s \in TaskState \ {t} : timer'[s] = timer[s]
    BY <2>5, ArmedFields DEF TypeOK
  <2>7. IndexMatches'
    <3>1. ASSUME NEW n \in Name, tasks'[n] # None
          PROVE  Live(tasks[n])' /\ task'[tasks'[n]].Name = n
      <4>1. CASE n = task[t].Name
        BY <2>1, <2>3, <4>1 DEF Live
      <4>2. CASE n # task[t].Name
        <5>1. tasks'[n] = tasks[n] /\ tasks[n] \in TaskState \ {t}
          BY <1>1, <2>1, <2>3, <3>1, <4>2 DEF TypeOK
        <5> QED
          BY <2>1, <3>1, <5>1 DEF Structure, IndexMatches, Live
      <4> QED
        BY <4>1, <4>2
    <3>2. ASSUME NEW s \in TaskState, Live(s)'
          PROVE  task'[s].Name \in Name /\ tasks'[task'[s].Name] = s
      <4>1. CASE s = t
        BY <2>1, <2>2, <2>3, <4>1
      <4>2. CASE s # t
        <5>1. task[s].Name \in Name /\ tasks[task[s].Name] = s
          BY <2>1, <3>2, <4>2 DEF Structure, IndexMatches, Live
        <5>2. task[s].Name # task[t].Name
          BY <1>0, <2>3, <5>1
        <5> QED
          BY <2>1, <2>3, <5>1, <5>2
      <4> QED
        BY <4>1, <4>2
    <3> QED
      BY <3>1, <3>2 DEF IndexMatches, Live
  <2>8. Named'
    BY <2>1, <2>2 DEF Structure, Named
  <2>9. DriverTarget'
    <3>1. \A s \in TaskState :
            status[s] \in {"live", "removed"} =>
              status'[s] \in {"live", "removed"}
      BY <2>1
    <3> QED
      BY <2>1, <2>6, <3>1 DEF Structure, DriverTarget, AtPC
  <2>10. TimerPointer'
    <3> SUFFICES ASSUME NEW s \in TaskState, timer'[s] # None
                 PROVE  TimerPointer!(s)'
      BY DEF TimerPointer
    <3>1. CASE s = t
      BY <2>1, <2>4, <2>6, <3>1 DEF Live, AtPC
    <3>2. CASE s # t
      <4>1. timer'[s] = timer[s] /\ timer[s] \in Driver
        BY <2>6, <3>2 DEF TypeOK
      <4>2. Live(s) /\ drv[timer[s]].ts = s /\ AtPC(timer[s], "armed")
        BY <4>1 DEF Structure, TimerPointer
      <4>3. drv'[timer[s]] = drv[timer[s]]
        BY <2>6, <4>1, <4>2 DEF AtPC
      <4> QED
        BY <2>1, <3>2, <4>1, <4>2, <4>3 DEF Live, AtPC
    <3> QED
      BY <3>1, <3>2
  <2>11. NeverStranded'
    <3> SUFFICES ASSUME NEW s \in TaskState, Live(s)', Push(s)'
                 PROVE  \E w \in Driver : drv'[w].ts = s
      BY DEF NeverStranded
    <3>1. CASE s = t
      BY <2>1, <2>6, <3>1 DEF Push
    <3>2. CASE s # t
      <4>1. PICK v \in Driver : drv[v].ts = s
        BY <2>1, <3>2 DEF Structure, NeverStranded, Live, Push
      <4>2. ~AtPC(v, "idle")
        BY <1>0, <4>1 DEF Structure, DriverTarget
      <4> QED
        BY <2>6, <4>1, <4>2
    <3> QED
      BY <3>1, <3>2
  <2>12. SingleChain'
    <3>1. ASSUME NEW s \in TaskState \ {t}, NEW v \in Driver, drv'[v].ts = s
          PROVE  drv'[v] = drv[v]
      BY <2>6, <3>1
    <3>2. ASSUME NEW v \in Driver, NEW w \in Driver, drv'[v].ts = t, drv'[w].ts = t
          PROVE  v = w /\ drv'[v].pc # "dispatch"
      BY <2>4, <2>6, <3>2
    <3>3. \A s \in TaskState \ {t} : Live(s)' <=> Live(s)
      BY <2>1 DEF Live
    <3> QED
      BY <2>1, <3>1, <3>2, <3>3 DEF Structure, SingleChain, AtPC
  <2> QED
    BY <2>7, <2>8, <2>9, <2>10, <2>11, <2>12 DEF Structure
<1> QED
  BY <1>3, <1>4, <1>5 DEF CreateTask

(* A timer that expires, and fire, keep the structure. *)
LEMMA StructureFire ==
    ASSUME TypeOK, Structure, NEW w \in Driver, Fire(w) \/ AcquireSlot(w)
    PROVE  Structure'
<1>0. /\ drv[w] \in Drivers /\ Idle \in Drivers
      /\ \A t \in TaskState : timer[t] = w => AtPC(w, "armed") /\ drv[w].ts = t
      /\ ~AtPC(w, "idle") => drv[w].ts \in TaskState
  BY QueueAssumption
     DEF TypeOK, Structure, TimerPointer, DriverTarget, Idle, NewDriver,
         Drivers, NoSlot
<1>1. CASE TimerExpires(w)
  <2> DEFINE d == [drv[w] EXCEPT !.pc = "fired"]
  <2>1. d \in Drivers /\ d.pc = "fired" /\ d.ts = drv[w].ts /\ d.sem = drv[w].sem
    BY <1>0 DEF Drivers
  <2>2. drv[w].sem = NoSlot /\ AtPC(w, "armed")
    BY <1>1 DEF TimerExpires, Structure, DriverTarget, AtPC
  <2>3. drv' = [drv EXCEPT ![w] = d]
    BY <1>1 DEF TimerExpires
  <2>4. \A t \in TaskState : timer'[t] # None => timer'[t] = timer[t] /\ timer[t] # w
    BY <1>1 DEF TimerExpires
  <2>5. SameTasks /\ SameCounts(TaskState \ {drv[w].ts})
    BY <1>1 DEF TimerExpires, SameTasks, SameCounts, qVars
  <2>6. status' = status /\ tasks' = tasks /\ gen' = gen /\ forked' = forked
    BY <1>1 DEF TimerExpires, qVars, nameVars
  <2> HIDE DEF d
  <2> QED
    BY <2>1, <2>2, <2>3, <2>4, <2>5, <2>6, StructureDriver DEF AtPC
<1>2. CASE FireRemoved(w)
  <2>1. /\ AtPC(w, "fired") /\ ~Live(drv[w].ts)
        /\ drv' = [drv EXCEPT ![w] = Idle]
        /\ timer' = timer
    BY <1>2 DEF FireRemoved, taskVars
  <2>2. SameTasks /\ SameCounts(TaskState \ {drv[w].ts})
    BY <1>2 DEF FireRemoved, SameTasks, SameCounts, qVars, taskVars
  <2>3. status' = status /\ tasks' = tasks /\ gen' = gen /\ forked' = forked
    BY <1>2 DEF FireRemoved, qVars, nameVars, taskVars
  <2> QED
    BY <1>0, <2>1, <2>2, <2>3, IdleFields, StructureDriver DEF AtPC
<1>3. CASE FireHeld(w)
  <2> DEFINE d == Armed(drv[w].ts, now + PollInterval)
  <2>1. /\ AtPC(w, "fired") /\ Live(drv[w].ts)
        /\ drv' = [drv EXCEPT ![w] = d]
        /\ timer' = [timer EXCEPT ![drv[w].ts] = w]
    BY <1>3 DEF FireHeld, Rearm
  <2>2. drv[w].ts \in TaskState /\ now + PollInterval \in Int
    BY <1>0, <2>1, QueueAssumption DEF TypeOK, AtPC
  <2>3. d \in Drivers /\ d.pc = "armed" /\ d.ts = drv[w].ts /\ d.sem = NoSlot
    BY <2>2, DriverTypes, ArmedFields
  <2>4. \A t \in TaskState :
          timer'[t] # None =>
            \/ timer'[t] = timer[t] /\ timer[t] # w
            \/ t = drv[w].ts /\ timer'[t] = w
    BY <1>0, <2>1 DEF TypeOK, AtPC
  <2>5. SameTasks /\ SameCounts(TaskState \ {drv[w].ts})
    BY <1>3 DEF FireHeld, SameTasks, SameCounts, qVars
  <2>6. status' = status /\ tasks' = tasks /\ gen' = gen /\ forked' = forked
    BY <1>3 DEF FireHeld, qVars, nameVars
  <2> HIDE DEF d
  <2> QED
    BY <2>1, <2>3, <2>4, <2>5, <2>6, StructureDriver DEF AtPC
<1>4. CASE FirePass(w)
  <2> DEFINE d == [drv[w] EXCEPT !.pc = "throttled", !.sem = gen]
  <2>1. /\ d \in Drivers /\ d.pc = "throttled" /\ d.ts = drv[w].ts
        /\ d.sem \in 0 .. gen
    <3>1. gen \in Generation /\ gen \in 0 .. gen
      BY QueueAssumption DEF TypeOK, Generation
    <3> QED
      BY <1>0, <3>1 DEF Drivers
  <2>2. /\ AtPC(w, "fired") /\ timer' = timer
        /\ drv' = [drv EXCEPT ![w] = d]
    BY <1>4 DEF FirePass, taskVars
  <2>3. SameTasks /\ SameCounts(TaskState \ {drv[w].ts})
    BY <1>4 DEF FirePass, SameTasks, SameCounts, qVars, taskVars
  <2>4. status' = status /\ tasks' = tasks /\ gen' = gen /\ forked' = forked
    BY <1>4 DEF FirePass, qVars, nameVars, taskVars
  <2> HIDE DEF d
  <2> QED
    BY <1>0, <2>1, <2>2, <2>3, <2>4, StructureDriver DEF AtPC
<1>5. CASE AcquireSlot(w)
  <2> DEFINE d == [drv[w] EXCEPT !.pc = "attempt"]
  <2>1. d \in Drivers /\ d.pc = "attempt" /\ d.ts = drv[w].ts
    BY <1>0 DEF Drivers
  <2>2. /\ AtPC(w, "throttled") /\ timer' = timer
        /\ drv' = [drv EXCEPT ![w] = d]
    BY <1>5 DEF AcquireSlot, taskVars
  <2>3. SameTasks /\ SameCounts(TaskState \ {drv[w].ts})
    BY <1>5 DEF AcquireSlot, SameTasks, SameCounts, qVars, taskVars
  <2>4. status' = status /\ tasks' = tasks /\ gen' = gen /\ forked' = forked
    BY <1>5 DEF AcquireSlot, qVars, nameVars, taskVars
  <2> HIDE DEF d
  <2> QED
    BY <1>0, <2>1, <2>2, <2>3, <2>4, StructureDriver DEF AtPC
<1> QED
  BY <1>1, <1>2, <1>3, <1>4, <1>5 DEF Fire

(* What applyAttempt's bookkeeping leaves of a task. *)
LEMMA CountedFields ==
    ASSUME TypeOK, NEW w \in Driver, drv[w].ts \in TaskState,
           NEW outcome \in Outcomes
    PROVE  /\ Counted(w, outcome).Name = task[drv[w].ts].Name
           /\ Counted(w, outcome).Pull = task[drv[w].ts].Pull
<1>1. task[drv[w].ts] \in Tasks
  BY DEF TypeOK
<1> QED
  BY <1>1 DEF Counted, Tasks

(* Taking a slot and an attempt keep the structure. *)
LEMMA StructureAttempt ==
    ASSUME TypeOK, Structure, NEW w \in Driver, Attempt(w)
    PROVE  Structure'
<1>0. /\ drv[w] \in Drivers /\ Idle \in Drivers
      /\ \A t \in TaskState : timer[t] = w => AtPC(w, "armed")
      /\ ~AtPC(w, "idle") => drv[w].ts \in TaskState
  BY QueueAssumption
     DEF TypeOK, Structure, TimerPointer, DriverTarget, Idle, NewDriver,
         Drivers, NoSlot
<1>1. CASE AttemptAborted(w) \/ ApplyStale(w)
  <2>1. /\ drv[w].pc \in {"attempt", "dispatch"} /\ ~Live(drv[w].ts)
        /\ drv' = [drv EXCEPT ![w] = Idle]
        /\ timer' = timer
    BY <1>1 DEF AttemptAborted, ApplyStale, taskVars, AtPC
  <2>2. SameTasks /\ SameCounts(TaskState \ {drv[w].ts})
    BY <1>1 DEF AttemptAborted, ApplyStale, SameTasks, SameCounts, qVars, taskVars
  <2>3. status' = status /\ tasks' = tasks /\ gen' = gen /\ forked' = forked
    BY <1>1 DEF AttemptAborted, ApplyStale, qVars, nameVars, taskVars
  <2> QED
    BY <1>0, <2>1, <2>2, <2>3, IdleFields, StructureDriver DEF AtPC
<1>2. CASE SnapshotAttempt(w)
  <2>1. drv[w].ts \in TaskState /\ AtPC(w, "attempt") /\ timer' = timer
    BY <1>0, <1>2 DEF SnapshotAttempt, AtPC, taskVars
  <2>2. PICK k \in Nat : k = task[drv[w].ts].DispatchCount + 1
    BY <2>1 DEF TypeOK, Tasks
  <2> DEFINE d == [drv[w] EXCEPT !.pc = "dispatch", !.at = now, !.number = k]
  <2>3. d \in Drivers /\ d.pc = "dispatch" /\ d.ts = drv[w].ts /\ d.number = k
    <3>1. now \in Int
      BY DEF TypeOK
    <3> QED
      BY <1>0, <3>1 DEF Drivers
  <2>4. drv' = [drv EXCEPT ![w] = d]
    BY <1>2, <2>2 DEF SnapshotAttempt
  <2>5. SameTasks /\ SameCounts(TaskState \ {drv[w].ts}) /\ task' = task
    BY <1>2 DEF SnapshotAttempt, SameTasks, SameCounts, qVars, taskVars
  <2>6. status' = status /\ tasks' = tasks /\ gen' = gen /\ forked' = forked
    BY <1>2 DEF SnapshotAttempt, qVars, nameVars, taskVars
  <2> HIDE DEF d
  <2> QED
    BY <1>0, <2>1, <2>2, <2>3, <2>4, <2>5, <2>6, StructureDriver DEF AtPC
<1>3. ASSUME NEW outcome \in Outcomes, ApplyRemove(w, outcome)
      PROVE  Structure'
  <2>1. drv[w].ts \in TaskState /\ Live(drv[w].ts)
    BY <1>0, <1>3 DEF ApplyRemove, AtPC
  <2> DEFINE S == {drv[w].ts}
             ds == [drv EXCEPT ![w] = Idle]
  <2>2. ds \in [Driver -> Drivers]
    BY <1>0 DEF TypeOK
  <2>3. \A v \in Driver : ds[v] = drv[v] \/ (ds[v] = Idle /\ drv[v].ts \in S)
    BY DEF TypeOK
  <2>4. Discard(S) /\ drv' = StopTimers(ds, S)
    BY <1>3 DEF ApplyRemove, RemoveLocked
  <2>5. \A t \in TaskState :
          task'[t] = IF t = drv[w].ts THEN Counted(w, outcome) ELSE task[t]
    BY <1>3 DEF ApplyRemove, TypeOK
  <2>6. SameTasks /\ SameCounts(TaskState \ S)
    BY <1>3, <2>1, <2>5, CountedFields
       DEF ApplyRemove, SameTasks, SameCounts, qVars
  <2>7. gen' = gen /\ forked' = forked
    BY <1>3 DEF ApplyRemove, qVars
  <2>8. S \in SUBSET TaskState /\ \A t \in S : Live(t)
    BY <2>1
  <2> HIDE DEF S, ds
  <2> QED
    BY <2>2, <2>3, <2>4, <2>6, <2>7, <2>8, StructureRemove
<1>4. ASSUME NEW outcome \in Outcomes, ApplyRetry(w, outcome)
      PROVE  Structure'
  <2>1. drv[w].ts \in TaskState /\ Live(drv[w].ts) /\ AtPC(w, "dispatch")
    BY <1>0, <1>4 DEF ApplyRetry, AtPC
  <2> DEFINE c == Counted(w, outcome)
             at == now + Backoff(q.RetryConfig, c.DispatchCount)
             d == Armed(drv[w].ts, at)
  <2>2. c \in Tasks /\ c.DispatchCount \in Nat /\ c.DispatchCount > 0
    BY <2>1, CountedType
  <2>3. at \in Int
    BY <2>2, BackoffType DEF TypeOK, Queues
  <2>4. task' = [task EXCEPT ![drv[w].ts] = [c EXCEPT !.ScheduleTime = at]]
    BY <1>4 DEF ApplyRetry
  <2>5. c.Name = task[drv[w].ts].Name /\ c.Pull = task[drv[w].ts].Pull
    BY <2>1, CountedFields
  <2>6. d \in Drivers /\ d.pc = "armed" /\ d.ts = drv[w].ts /\ d.sem = NoSlot
    BY <2>1, <2>3, DriverTypes, ArmedFields
  <2> HIDE DEF c, at
  <2>7. /\ \A t \in TaskState \ {drv[w].ts} : task'[t] = task[t]
        /\ task'[drv[w].ts].Name = c.Name
        /\ task'[drv[w].ts].Pull = c.Pull
        /\ task'[drv[w].ts].ScheduleTime = at
    BY <2>1, <2>2, <2>4 DEF TypeOK, Tasks
  <2>8. /\ drv' = [drv EXCEPT ![w] = d]
        /\ timer' = [timer EXCEPT ![drv[w].ts] = w]
    BY <1>4, <2>7 DEF ApplyRetry, Rearm
  <2>9. \A t \in TaskState :
          timer'[t] # None =>
            \/ timer'[t] = timer[t] /\ timer[t] # w
            \/ t = drv[w].ts /\ timer'[t] = w
    BY <1>0, <2>1, <2>8 DEF TypeOK, AtPC
  <2>10. SameTasks /\ SameCounts(TaskState \ {drv[w].ts})
    BY <1>4, <2>5, <2>7 DEF ApplyRetry, SameTasks, SameCounts, qVars
  <2>11. status' = status /\ tasks' = tasks /\ gen' = gen /\ forked' = forked
    BY <1>4 DEF ApplyRetry, qVars, nameVars
  <2> HIDE DEF d
  <2> QED
    BY <2>1, <2>6, <2>8, <2>9, <2>10, <2>11, StructureDriver DEF AtPC
<1> QED
  BY <1>1, <1>2, <1>3, <1>4 DEF Attempt

(* Expiry and the cleanup of tombstones keep the structure. *)
LEMMA StructureTimers ==
    ASSUME TypeOK, Structure,
           \/ \E t \in TaskState : TTLTimerExpires(t) \/ Expire(t)
           \/ \E n \in Name : CleanupTombstone(n)
           \/ Tick
    PROVE  Structure'
<1>0. gen \in Int /\ drv \in [Driver -> Drivers]
  BY DEF TypeOK, Generation
<1>1. ASSUME SameTasks, SameCounts(TaskState), status' = status, tasks' = tasks,
             timer' = timer, drv' = drv, forked' = forked, gen' = gen
      PROVE  Structure'
  BY <1>0, <1>1, StructureSame
<1>2. ASSUME NEW t \in TaskState, TTLTimerExpires(t) PROVE Structure'
  BY <1>1, <1>2 DEF TTLTimerExpires, SameTasks, SameCounts, qVars, nameVars
<1>3. ASSUME NEW t \in TaskState, Expire(t) PROVE Structure'
  <2>1. CASE Live(t)
    <3>1. Discard({t}) /\ drv' = StopTimers(drv, {t})
      BY <1>3, <2>1 DEF Expire, RemoveLocked
    <3>2. /\ SameTasks /\ SameCounts(TaskState \ {t})
          /\ gen' = gen /\ forked' = forked
      BY <1>3 DEF Expire, SameTasks, SameCounts, qVars
    <3> QED
      BY <1>0, <2>1, <3>1, <3>2, StructureRemove
  <2>2. CASE ~Live(t)
    BY <1>1, <1>3, <2>2 DEF Expire, SameTasks, SameCounts, qVars, nameVars
  <2> QED
    BY <2>1, <2>2
<1>4. ASSUME NEW n \in Name, CleanupTombstone(n) PROVE Structure'
  BY <1>1, <1>4 DEF CleanupTombstone, SameTasks, SameCounts, qVars, taskVars
<1>5. CASE Tick
  BY <1>1, <1>5 DEF Tick, SameTasks, SameCounts, qVars, nameVars, taskVars
<1> QED
  BY <1>2, <1>3, <1>4, <1>5

(* DeleteTask and RunTask keep the structure. *)
LEMMA StructureTaskCalls ==
    ASSUME TypeOK, Structure, NEW n \in Name, DeleteTask(n) \/ RunTask(n)
    PROVE  Structure'
<1>0. /\ None \notin TaskState
      /\ drv \in [Driver -> Drivers]
      /\ tasks[n] # None => tasks[n] \in TaskState /\ Live(tasks[n])
  BY QueueAssumption DEF TypeOK, Structure, IndexMatches
<1> DEFINE t == tasks[n]
<1>1. CASE DeleteTask(n)
  <2>1. /\ t \in TaskState /\ Live(t)
        /\ Discard({t}) /\ drv' = StopTimers(drv, {t})
    BY <1>0, <1>1 DEF DeleteTask, RemoveLocked
  <2>2. /\ SameTasks /\ SameCounts(TaskState \ {t})
        /\ gen' = gen /\ forked' = forked
    BY <1>1 DEF DeleteTask, SameTasks, SameCounts, qVars
  <2> HIDE DEF t
  <2> QED
    BY <1>0, <2>1, <2>2, StructureRemove
<1>2. CASE RunTask(n)
  <2>1. t \in TaskState /\ Live(t)
    BY <1>0, <1>2 DEF RunTask
  <2>2. PICK w \in RunDrivers(t) : drv' = [drv EXCEPT ![w] = Running(t)]
    BY <1>2 DEF RunTask
  <2>3. /\ Running(t) \in Drivers
        /\ Running(t).pc = "attempt" /\ Running(t).ts = t
    BY <2>1, DriverTypes DEF Running, NewDriver
  <2>4. /\ timer' = [timer EXCEPT ![t] = None]
        /\ status' = status /\ tasks' = tasks /\ gen' = gen /\ q' = q
        /\ forked' = IF timer[t] = None THEN forked \union {t} ELSE forked
    BY <1>2 DEF RunTask, qVars, nameVars
  <2>5. ASSUME NEW s \in TaskState
        PROVE  /\ task'[s].Name = task[s].Name
               /\ task'[s].Pull = task[s].Pull
               /\ task'[s].DispatchCount = task[s].DispatchCount
    <3>1. task[s] \in Tasks
      BY DEF TypeOK
    <3> QED
      BY <1>2, <2>1, <3>1 DEF RunTask, TypeOK, Tasks
  <2>6. SameTasks /\ SameCounts(TaskState)
    BY <2>4, <2>5 DEF SameTasks, SameCounts
  <2>7. \A s \in TaskState :
          timer'[s] = IF s = t THEN None ELSE timer[s]
    BY <2>1, <2>4 DEF TypeOK
  <2> HIDE DEF t
  <2>8. CASE timer[t] # None
    <3>1. w = timer[t] /\ w \in Driver
      BY <2>1, <2>2, <2>8 DEF RunDrivers, TypeOK
    <3>2. drv[w].ts = t /\ AtPC(w, "armed")
      BY <2>1, <2>8, <3>1 DEF Structure, TimerPointer
    <3>3. \A s \in TaskState :
            timer'[s] # None => timer'[s] = timer[s] /\ timer[s] # w
      BY <2>7, <3>1, <3>2 DEF Structure, TimerPointer
    <3>4. SameCounts(TaskState \ {drv[w].ts})
      BY <2>6 DEF SameCounts
    <3>5. forked' = forked
      BY <2>4, <2>8
    <3> QED
      BY <2>2, <2>3, <2>4, <2>6, <3>1, <3>2, <3>3, <3>4, <3>5, StructureDriver
         DEF AtPC
  <2>9. CASE timer[t] = None
    <3>1. w \in Driver /\ AtPC(w, "idle") /\ forked' = forked \union {t}
      BY <2>2, <2>4, <2>9 DEF RunDrivers, IdleDrivers
    <3>2. /\ drv'[w] = Running(t) /\ drv[w].ts = None
          /\ \A v \in Driver \ {w} : drv'[v] = drv[v]
      BY <1>0, <2>2, <3>1 DEF Structure, DriverTarget
    <3>3. IndexMatches' /\ Named'
      <4>1. \A m \in Name : tasks[m] \in TaskState \union {None}
        BY DEF TypeOK
      <4> QED
        BY <2>4, <2>6, <4>1 DEF Structure, IndexMatches, Named, Live, SameTasks
    <3>4. DriverTarget'
      <4> SUFFICES ASSUME NEW v \in Driver
                   PROVE  DriverTarget!(v)'
        BY DEF DriverTarget
      <4>1. CASE v = w
        BY <2>1, <2>3, <2>4, <3>2, <4>1 DEF AtPC, Live
      <4>2. CASE v # w
        BY <2>4, <3>2, <4>2 DEF Structure, DriverTarget, AtPC
      <4> QED
        BY <4>1, <4>2
    <3>5. TimerPointer'
      <4> SUFFICES ASSUME NEW s \in TaskState, timer'[s] # None
                   PROVE  TimerPointer!(s)'
        BY DEF TimerPointer
      <4>1. timer'[s] = timer[s] /\ timer[s] \in Driver
        BY <2>7 DEF TypeOK
      <4>2. Live(s) /\ drv[timer[s]].ts = s /\ AtPC(timer[s], "armed")
        BY <4>1 DEF Structure, TimerPointer
      <4>3. timer[s] # w
        BY <3>1, <4>2 DEF AtPC
      <4> QED
        BY <2>4, <3>2, <4>1, <4>2, <4>3 DEF Live, AtPC
    <3>6. NeverStranded'
      <4> SUFFICES ASSUME NEW s \in TaskState, Live(s)', Push(s)'
                   PROVE  \E v \in Driver : drv'[v].ts = s
        BY DEF NeverStranded
      <4>1. PICK v \in Driver : drv[v].ts = s
        BY <2>4, <2>6 DEF Structure, NeverStranded, Live, Push, SameTasks
      <4> QED
        BY <1>0, <3>2, <4>1
    <3>7. SingleChain'
      <4>1. \A s \in TaskState \ forked' :
              s # t /\ s \notin forked /\ task'[s].DispatchCount = task[s].DispatchCount
        BY <2>5, <3>1
      <4>2. ASSUME NEW s \in TaskState \ forked', NEW v \in Driver, drv'[v].ts = s
            PROVE  drv'[v] = drv[v]
        BY <2>3, <3>2, <4>1, <4>2
      <4> QED
        BY <2>4, <4>1, <4>2 DEF Structure, SingleChain, Live, AtPC
    <3> QED
      BY <3>3, <3>4, <3>5, <3>6, <3>7 DEF Structure
  <2> QED
    BY <2>8, <2>9
<1> QED
  BY <1>1, <1>2

(* The calls on the queue keep the structure. *)
LEMMA StructureQueueCalls ==
    ASSUME TypeOK, Structure,
           \/ PurgeQueue
           \/ \E st \in {"RUNNING", "PAUSED"} : SetQueueState(st)
           \/ \E new \in NewQueues, mask \in SUBSET Fields : UpdateQueue(new, mask)
           \/ DeleteQueue
    PROVE  Structure'
<1>0. gen \in Int /\ drv \in [Driver -> Drivers] /\ q \in Queues
  BY DEF TypeOK, Generation
<1>1. CASE PurgeQueue \/ DeleteQueue
  <2>1. Listed \in SUBSET TaskState /\ \A t \in Listed : Live(t)
    BY DEF Listed, TypeOK, Structure, IndexMatches
  <2>2. Discard(Listed) /\ drv' = StopTimers(drv, Listed)
    BY <1>1 DEF PurgeQueue, DeleteQueue
  <2>3. /\ SameTasks /\ SameCounts(TaskState \ Listed)
        /\ gen' = gen /\ forked' = forked
    BY <1>1 DEF PurgeQueue, DeleteQueue, SameTasks, SameCounts, qVars
  <2> QED
    BY <1>0, <2>1, <2>2, <2>3, StructureRemove
<1>2. ASSUME NEW st \in {"RUNNING", "PAUSED"}, SetQueueState(st)
      PROVE  Structure'
  <2>1. q'.Pull = q.Pull
    BY <1>0, <1>2 DEF SetQueueState, Queues
  <2> QED
    BY <1>0, <1>2, <2>1, StructureSame
       DEF SetQueueState, SameTasks, SameCounts, nameVars, taskVars
<1>3. ASSUME NEW new \in NewQueues, NEW mask \in SUBSET Fields,
             UpdateQueue(new, mask)
      PROVE  Structure'
  <2>1. q'.Pull = q.Pull
    BY <1>0, <1>3 DEF UpdateQueue, ApplyQueueDefaults, Queues
  <2>2. gen' = gen + 1
    BY <1>3 DEF UpdateQueue
  <2>3. gen' \in Int /\ gen' >= gen
    BY <1>0, <2>2
  <2>4. /\ status' = status /\ tasks' = tasks /\ timer' = timer
        /\ task' = task /\ drv' = drv /\ forked' = forked
    BY <1>3 DEF UpdateQueue, nameVars, taskVars
  <2>5. SameTasks /\ SameCounts(TaskState)
    BY <2>1, <2>4 DEF SameTasks, SameCounts
  <2> QED
    BY <2>3, <2>4, <2>5, StructureSame
<1> QED
  BY <1>1, <1>2, <1>3

(* A new queue has no tasks and no drivers. *)
LEMMA StructureInit == Init => Structure
<1> SUFFICES ASSUME Init PROVE Structure
  OBVIOUS
<1>1. \A w \in Driver : drv[w] = Idle
  BY DEF Init
<1> QED
  BY <1>1, IdleFields, QueueAssumption
     DEF Init, Structure, Named, IndexMatches, DriverTarget, TimerPointer,
         NeverStranded, SingleChain, Live, AtPC

(* Every step keeps the structure. *)
LEMMA StructureStep ==
    ASSUME TypeOK, Structure, [Next]_vars
    PROVE  Structure'
<1>1. CASE UNCHANGED vars
  <2>1. gen \in Int
    BY DEF TypeOK, Generation
  <2> QED
    BY <1>1, <2>1, StructureSame
       DEF vars, qVars, nameVars, taskVars, SameTasks, SameCounts
<1>2. CASE Next
  BY <1>2, StructureCreate, StructureFire, StructureAttempt, StructureTimers,
     StructureTaskCalls, StructureQueueCalls DEF Next
<1> QED
  BY <1>1, <1>2

---------------------------------------------------------------------------
(* Theorems *)

(***************************************************************************)
(* The specification is well typed, and tasks, timers and drivers hang     *)
(* together as the code in queue.go takes for granted.                     *)
(***************************************************************************)
THEOREM Invariance == Spec => [](TypeOK /\ Structure)
<1>1. Init => TypeOK /\ Structure
  BY TypeInit, StructureInit
<1>2. TypeOK /\ Structure /\ [Next]_vars => (TypeOK /\ Structure)'
  BY TypeStep, StructureStep DEF Structure
<1> QED
  BY <1>1, <1>2, PTL DEF Spec

(***************************************************************************)
(* Every variable keeps its type, and every semaphore of the queue has a   *)
(* slot, for all settings a client may send (rebuildLimits).               *)
(***************************************************************************)
THEOREM TypeCorrect == Spec => []TypeOK
BY Invariance, PTL

(***************************************************************************)
(* qs.tasks holds exactly the tasks that are not removed, each under its   *)
(* name, whatever late expire or late result comes in (removeLocked).      *)
(***************************************************************************)
THEOREM IndexCorrect == Spec => []IndexMatches
<1>1. TypeOK /\ Structure => IndexMatches
  BY DEF Structure
<1> QED
  BY <1>1, Invariance, PTL

(***************************************************************************)
(* A push task in the queue always has a timer or a goroutine that carries *)
(* it on (schedule, fire, RunTask).                                        *)
(***************************************************************************)
THEOREM TasksNeverStranded == Spec => []NeverStranded
<1>1. TypeOK /\ Structure => NeverStranded
  BY DEF Structure
<1> QED
  BY <1>1, Invariance, PTL

(***************************************************************************)
(* Unless RunTask came after its timer had expired, a task is carried by   *)
(* one driver at a time and the attempts of it are numbered without a gap  *)
(* or a repetition (snapshotAttempt, applyAttempt).                        *)
(***************************************************************************)
THEOREM ChainsAreSingle == Spec => []SingleChain
<1>1. TypeOK /\ Structure => SingleChain
  BY DEF Structure
<1> QED
  BY <1>1, Invariance, PTL
=============================================================================
