------------------------------- MODULE Queue -------------------------------
(***************************************************************************)
(* One queue of the emulator: a queueState, the tasks in it, the timers    *)
(* that drive them and the API calls that reach it.                        *)
(*                                                                         *)
(* Every action is one critical section of the queue's mutex, or one step  *)
(* a goroutine takes outside it: a timer that expires, a wait for the rate *)
(* limiter and for a concurrency slot, an HTTP exchange.  Between two of   *)
(* them any other goroutine may run.                                       *)
(*                                                                         *)
(* A Driver is a time.AfterFunc timer together with the goroutine it       *)
(* becomes when it expires; a RunTask call is a driver that starts at the  *)
(* attempt.  After a failed attempt the driver goes back to being a timer. *)
(* The pool of drivers is a bound on how many exist at once.               *)
(*                                                                         *)
(* Time is a counter, `now'.  With Horizon = 0 and every delay 0 it does   *)
(* not advance and a timer expires at any moment after it is armed.        *)
(***************************************************************************)
EXTENDS FiniteSets, RetryPolicy

CONSTANTS
    TaskState,        \* the taskState objects CreateTask allocates
    Name,             \* task names within the queue
    Driver,           \* timers and goroutines
    None,             \* Go's nil
    NewQueues,        \* the Queue values CreateQueue and UpdateQueue receive
    Defaults,         \* what applyQueueDefaults and NewEngine fill in
    Targets,          \* which tasks are created: TRUE for pull, FALSE for push
    Delays,           \* ScheduleTime of a created task, relative to now
    Outcomes,         \* how an HTTP exchange may end
    PollInterval,     \* pausePollInterval
    EngineConfigs,    \* the Config values NewEngine may receive
    Horizon,          \* bound: the clock stops here
    MaxUpdates,       \* bound: UpdateQueue calls
    MaxDispatches     \* bound: no attempt starts after so many results

NoSlot == -1

Generation == 0 .. MaxUpdates

Queues ==
    [State: {"RUNNING", "PAUSED", "DISABLED"}, Pull: BOOLEAN,
     MaxConcurrentDispatches: Int, TaskTTL: Int, TombstoneTTL: Int,
     RetryConfig: RetryConfigs]

(* A negative TombstoneTTL: the names of removed tasks are not reserved. *)
Engines == [taskTTL: Int, tombstoneTTL: Int, hardResetOnPurge: BOOLEAN]

(***************************************************************************)
(* What dispatch() makes of an HTTP exchange: a 2XX; any other answer      *)
(* below 500, redirects included; a 5XX; no answer, because the request    *)
(* could not be built or sent or the deadline passed.                      *)
(***************************************************************************)
Exchanges == {"ok", "4xx", "5xx", "noresponse"}

ASSUME QueueAssumption ==
    /\ None \notin TaskState /\ None \notin Driver /\ None \notin Int
    /\ IsFiniteSet(Driver)
    /\ NewQueues \subseteq Queues
    /\ EngineConfigs \subseteq Engines
    /\ Defaults \in
         [MaxConcurrentDispatches: Nat \ {0}, MaxAttempts: Int,
          MinBackoff: Int, MaxBackoff: Int, MaxDoublings: Int,
          TaskTTL: Int, TombstoneTTL: Int]
    /\ Targets \subseteq BOOLEAN
    /\ Delays \subseteq Int
    /\ Outcomes \subseteq Exchanges
    /\ PollInterval \in Nat
    /\ Horizon \in Nat /\ MaxUpdates \in Nat /\ MaxDispatches \in Nat

VARIABLES
    now,         \* the clock
    eng,         \* qs.eng, the engine's settings
    published,   \* the queue is in the engine's map
    q,           \* qs.q, the queue's settings and state
    gen,         \* which limiter and semaphore qs points to
    capacity,    \* cap(concurrency), for each semaphore ever made
    inUse,       \* len(concurrency), for each semaphore ever made
    tasks,       \* qs.tasks
    tombstones,  \* qs.tombstones: when the reservation of a name ends
    cleanups,    \* the timers that delete a tombstone
    status,      \* where a taskState is in its life (ts.removed)
    task,        \* ts.t and the counters beside it
    timer,       \* ts.timer while it has not expired
    ttlTimer,    \* ts.ttlTimer while it has not expired
    expiring,    \* tasks whose TTL timer expired and whose expire() waits
    drv,         \* the drivers
    forked,      \* history: tasks RunTask was called on when their timer had
                 \* expired, so that Stop could not take it back
    held,        \* history: tasks created or found held in the current pause
    reserved     \* history: until when each name was promised to be reserved

qVars == <<eng, published, q, gen, capacity>>
nameVars == <<tasks, tombstones, cleanups, reserved>>
taskVars == <<status, task, timer, ttlTimer, expiring>>
vars == <<now, qVars, inUse, nameVars, taskVars, drv, forked, held>>

---------------------------------------------------------------------------
(* Settings *)

(* Bug: the floor of one slot is gone. *)
SlotsUnfloored(new) == new.MaxConcurrentDispatches

(* rebuildLimits: a semaphore has at least one slot. *)
Slots(new) ==
    IF new.MaxConcurrentDispatches < 1 THEN 1
    ELSE new.MaxConcurrentDispatches

Default(value, default) == IF value = 0 THEN default ELSE value

ApplyQueueDefaults(new) ==
    [new EXCEPT
        !.MaxConcurrentDispatches =
            Default(@, Defaults.MaxConcurrentDispatches),
        !.RetryConfig = [MaxAttempts |->
                             Default(@.MaxAttempts, Defaults.MaxAttempts),
                         MaxRetryDuration |-> @.MaxRetryDuration,
                         MinBackoff |->
                             Default(@.MinBackoff, Defaults.MinBackoff),
                         MaxBackoff |->
                             Default(@.MaxBackoff, Defaults.MaxBackoff),
                         MaxDoublings |->
                             Default(@.MaxDoublings, Defaults.MaxDoublings)]]

(* NewEngine: a TTL of zero is one that was not set. *)
NewEngine(cfg) ==
    [cfg EXCEPT !.taskTTL = Default(@, Defaults.TaskTTL),
                !.tombstoneTTL = Default(@, Defaults.TombstoneTTL)]

EffectiveTaskTTL == IF q.TaskTTL > 0 THEN q.TaskTTL ELSE eng.taskTTL

EffectiveTombstoneTTL ==
    IF q.TombstoneTTL > 0 THEN q.TombstoneTTL ELSE eng.tombstoneTTL

---------------------------------------------------------------------------
(* Drivers and timers *)

NewDriver(pc, t, at) ==
    [pc |-> pc, ts |-> t, at |-> at, sem |-> NoSlot, number |-> 0]

Idle == NewDriver("idle", None, 0)

(* Bug: the delay is dropped, the timer is due at once. *)
ArmedNow(t, at) == NewDriver("armed", t, now)

(* A timer that calls fire(t) at the instant `at', or at once if it passed. *)
Armed(t, at) == NewDriver("armed", t, at)

(* A RunTask call at its attempt. *)
Running(t) == NewDriver("attempt", t, 0)

AtPC(w, pc) == drv[w].pc = pc

IdleDrivers == {w \in Driver : AtPC(w, "idle")}

(* schedule() and fire() leave pull tasks and pull queues alone. *)
Push(t) == ~q.Pull /\ ~task[t].Pull

Live(t) == status[t] = "live"

Listed == {tasks[n] : n \in Name} \ {None}

(* timer.Stop() for each task of S; a timer that has expired is past it. *)
StopTimers(ds, S) ==
    [w \in Driver |-> IF \E t \in S : timer[t] = w THEN Idle ELSE ds[w]]

(* Bug: the driver ends without a timer for the next round. *)
RearmForgotten(w, at) ==
    /\ drv' = [drv EXCEPT ![w] = Idle]
    /\ UNCHANGED timer

(* ts.timer = time.AfterFunc(...), by the driver w of the task itself. *)
Rearm(w, at) ==
    /\ drv' = [drv EXCEPT ![w] = Armed(drv[w].ts, at)]
    /\ timer' = [timer EXCEPT ![drv[w].ts] = w]

(* Bug: the slot is never given back. *)
ReleaseSlotNever(w) == UNCHANGED inUse

(* The deferred receive from the semaphore.  It only enables other steps,  *)
(* so it is taken together with the end of the attempt before it.          *)
ReleaseSlot(w) ==
    inUse' = IF drv[w].sem = NoSlot THEN inUse
             ELSE [inUse EXCEPT ![drv[w].sem] = @ - 1]

---------------------------------------------------------------------------
(* Removing tasks *)

NamesOf(S) == {task[t].Name : t \in S}

(* ts.removed = true, both timers stopped, out of qs.tasks. *)
Discard(S) ==
    /\ status' = [t \in TaskState |-> IF t \in S THEN "removed" ELSE status[t]]
    /\ timer' = [t \in TaskState |-> IF t \in S THEN None ELSE timer[t]]
    /\ ttlTimer' = [t \in TaskState |-> IF t \in S THEN None ELSE ttlTimer[t]]
    /\ tasks' = [n \in Name |-> IF n \in NamesOf(S) THEN None ELSE tasks[n]]

(* Bug: the timer is started before the expiry is computed. *)
CleanupTimersEarly(S) ==
    [n \in Name |-> IF n \in NamesOf(S)
                    THEN cleanups[n] \union {now + EffectiveTombstoneTTL - 1}
                    ELSE cleanups[n]]

(* The time.AfterFunc of tombstoneLocked. *)
CleanupTimers(S) ==
    [n \in Name |-> IF n \in NamesOf(S)
                    THEN cleanups[n] \union {now + EffectiveTombstoneTTL}
                    ELSE cleanups[n]]

Reservation(S, old) ==
    [n \in Name |-> IF n \in NamesOf(S) THEN now + EffectiveTombstoneTTL
                    ELSE old[n]]

(* tombstoneLocked for each task of S. *)
Tombstone(S) ==
    IF EffectiveTombstoneTTL < 0
    THEN UNCHANGED <<tombstones, cleanups, reserved>>
    ELSE /\ tombstones' = Reservation(S, tombstones)
         /\ reserved' = Reservation(S, reserved)
         /\ cleanups' = CleanupTimers(S)

(* removeLocked(t), in a section that also leaves the drivers as ds. *)
RemoveLocked(t, ds) ==
    /\ Discard({t})
    /\ Tombstone({t})
    /\ drv' = StopTimers(ds, {t})

---------------------------------------------------------------------------
(* CreateTask *)

(***************************************************************************)
(* The first half, up to qs.mu.Lock(): the queue is looked up, the name    *)
(* and the schedule time are settled.                                      *)
(***************************************************************************)
CreateTaskLookup(t, n, pull, delay) ==
    /\ published
    /\ status[t] = "free"
    /\ status' = [status EXCEPT ![t] = "creating"]
    /\ task' = [task EXCEPT ![t] =
                  [Name |-> n, Pull |-> pull, ScheduleTime |-> now + delay,
                   DispatchCount |-> 0, ResponseCount |-> 0,
                   executionCount |-> 0, firstAttempt |-> None,
                   last |-> "none"]]
    /\ UNCHANGED <<now, qVars, inUse, nameVars, timer, ttlTimer, expiring,
                   drv, forked, held>>

Tombstoned(n) == tombstones[n] # None /\ now < tombstones[n]

(* Bug: only the reservations are looked at. *)
NameTakenTombstonesOnly(t) == Tombstoned(task[t].Name)

NameTaken(t) == tasks[task[t].Name] # None \/ Tombstoned(task[t].Name)

(* AlreadyExists: the object is dropped and can be allocated again. *)
CreateTaskRejected(t) ==
    /\ status[t] = "creating"
    /\ NameTaken(t)
    /\ status' = [status EXCEPT ![t] = "free"]
    /\ UNCHANGED <<now, qVars, inUse, nameVars, task, timer, ttlTimer,
                   expiring, drv, forked, held>>

(* schedule(t) for a new task: a push task gets a timer, a pull task none. *)
Schedule(t) ==
    \/ /\ Push(t)
       /\ \E w \in IdleDrivers :
            /\ drv' = [drv EXCEPT ![w] = Armed(t, task[t].ScheduleTime)]
            /\ timer' = [timer EXCEPT ![t] = w]
    \/ /\ ~Push(t)
       /\ UNCHANGED <<drv, timer>>

(* The critical section: the name is free, addTask. *)
CreateTaskAdd(t) ==
    /\ status[t] = "creating"
    /\ ~NameTaken(t)
    /\ status' = [status EXCEPT ![t] = "live"]
    /\ tasks' = [tasks EXCEPT ![task[t].Name] = t]
    /\ ttlTimer' = [ttlTimer EXCEPT ![t] = now + EffectiveTaskTTL]
    /\ Schedule(t)
    /\ held' = IF q.State # "RUNNING" THEN held \union {t} ELSE held
    /\ UNCHANGED <<now, qVars, inUse, tombstones, cleanups, reserved, task,
                   expiring, forked>>

---------------------------------------------------------------------------
(* A driver: the timer expires, fire(), attempt() *)

(* The runtime starts fire in a goroutine; Stop no longer reaches it. *)
TimerExpires(w) ==
    /\ AtPC(w, "armed")
    /\ now >= drv[w].at
    /\ drv' = [drv EXCEPT ![w].pc = "fired"]
    /\ timer' = [t \in TaskState |-> IF timer[t] = w THEN None ELSE timer[t]]
    /\ UNCHANGED <<now, qVars, inUse, nameVars, status, task, ttlTimer,
                   expiring, forked, held>>

(* fire: the task is gone. *)
FireRemoved(w) ==
    /\ AtPC(w, "fired")
    /\ ~Live(drv[w].ts)
    /\ drv' = [drv EXCEPT ![w] = Idle]
    /\ UNCHANGED <<now, qVars, inUse, nameVars, taskVars, forked, held>>

(* Bug: the state of the queue is not looked at. *)
HoldingNever == FALSE

Holding == q.State \in {"PAUSED", "DISABLED"}

(* fire: the queue is paused or disabled, look again later. *)
FireHeld(w) ==
    /\ AtPC(w, "fired")
    /\ Live(drv[w].ts)
    /\ Holding
    /\ Rearm(w, now + PollInterval)
    /\ held' = held \union {drv[w].ts}
    /\ UNCHANGED <<now, qVars, inUse, nameVars, status, task, ttlTimer,
                   expiring, forked>>

(* fire: the limiter and the semaphore of this moment are captured. *)
FirePass(w) ==
    /\ AtPC(w, "fired")
    /\ Live(drv[w].ts)
    /\ ~Holding
    /\ drv' = [drv EXCEPT ![w].pc = "throttled", ![w].sem = gen]
    /\ UNCHANGED <<now, qVars, inUse, nameVars, taskVars, forked, held>>

(***************************************************************************)
(* limiter.Wait returns (it only delays: with a background context and a   *)
(* burst of at least one it reports no error) and the send on the captured *)
(* semaphore goes through.                                                 *)
(***************************************************************************)
AcquireSlot(w) ==
    /\ AtPC(w, "throttled")
    /\ inUse[drv[w].sem] < capacity[drv[w].sem]
    /\ inUse' = [inUse EXCEPT ![drv[w].sem] = @ + 1]
    /\ drv' = [drv EXCEPT ![w].pc = "attempt"]
    /\ UNCHANGED <<now, qVars, nameVars, taskVars, forked, held>>

(* snapshotAttempt: the task was removed while the driver waited. *)
AttemptAborted(w) ==
    /\ AtPC(w, "attempt")
    /\ ~Live(drv[w].ts)
    /\ drv' = [drv EXCEPT ![w] = Idle]
    /\ ReleaseSlot(w)
    /\ UNCHANGED <<now, qVars, nameVars, taskVars, forked, held>>

(* snapshotAttempt, and the request goes out. *)
SnapshotAttempt(w) ==
    /\ AtPC(w, "attempt")
    /\ Live(drv[w].ts)
    /\ task[drv[w].ts].DispatchCount < MaxDispatches
    /\ drv' = [drv EXCEPT ![w].pc = "dispatch", ![w].at = now,
                          ![w].number = task[drv[w].ts].DispatchCount + 1]
    /\ UNCHANGED <<now, qVars, inUse, nameVars, taskVars, forked, held>>

(* applyAttempt: the task was removed during the exchange. *)
ApplyStale(w) ==
    /\ AtPC(w, "dispatch")
    /\ ~Live(drv[w].ts)
    /\ drv' = [drv EXCEPT ![w] = Idle]
    /\ ReleaseSlot(w)
    /\ UNCHANGED <<now, qVars, nameVars, taskVars, forked, held>>

(* Bug: a 5XX counts as an execution, too. *)
CountedAll(w, outcome) ==
    [task[drv[w].ts] EXCEPT
        !.DispatchCount = @ + 1,
        !.ResponseCount = IF outcome = "noresponse" THEN @ ELSE @ + 1,
        !.executionCount = @ + 1,
        !.firstAttempt = IF @ = None THEN drv[w].at ELSE @,
        !.last = outcome]

(* Bug: the attempt is counted on from the copy taken before the exchange. *)
CountedFromSnapshot(w, outcome) ==
    [task[drv[w].ts] EXCEPT
        !.DispatchCount = drv[w].number,
        !.ResponseCount = IF outcome = "noresponse" THEN @ ELSE @ + 1,
        !.executionCount = IF outcome \in {"ok", "4xx"} THEN @ + 1 ELSE @,
        !.firstAttempt = IF @ = None THEN drv[w].at ELSE @,
        !.last = outcome]

(***************************************************************************)
(* The task after applyAttempt has counted the attempt of w.  response_    *)
(* count counts the answers, executionCount those that are not a 5XX.      *)
(***************************************************************************)
Counted(w, outcome) ==
    [task[drv[w].ts] EXCEPT
        !.DispatchCount = @ + 1,
        !.ResponseCount = IF outcome = "noresponse" THEN @ ELSE @ + 1,
        !.executionCount = IF outcome \in {"ok", "4xx"} THEN @ + 1 ELSE @,
        !.firstAttempt = IF @ = None THEN drv[w].at ELSE @,
        !.last = outcome]

Retryable(w, outcome) ==
    ShouldRetry(q.RetryConfig, Counted(w, outcome).DispatchCount,
                now - Counted(w, outcome).firstAttempt)

(* applyAttempt: done, or retries are exhausted: removeLocked. *)
ApplyRemove(w, outcome) ==
    /\ AtPC(w, "dispatch")
    /\ Live(drv[w].ts)
    /\ outcome = "ok" \/ ~Retryable(w, outcome)
    /\ task' = [task EXCEPT ![drv[w].ts] = Counted(w, outcome)]
    /\ RemoveLocked(drv[w].ts, [drv EXCEPT ![w] = Idle])
    /\ ReleaseSlot(w)
    /\ UNCHANGED <<now, qVars, expiring, forked, held>>

(* applyAttempt: the task is rescheduled; ts.timer is overwritten. *)
ApplyRetry(w, outcome) ==
    /\ AtPC(w, "dispatch")
    /\ Live(drv[w].ts)
    /\ outcome # "ok" /\ Retryable(w, outcome)
    /\ task' = [task EXCEPT ![drv[w].ts] =
                  [Counted(w, outcome) EXCEPT
                     !.ScheduleTime = now + Backoff(q.RetryConfig,
                                        Counted(w, outcome).DispatchCount)]]
    /\ Rearm(w, task'[drv[w].ts].ScheduleTime)
    /\ ReleaseSlot(w)
    /\ UNCHANGED <<now, qVars, nameVars, status, ttlTimer, expiring, forked, held>>

---------------------------------------------------------------------------
(* The other timers *)

(* The TTL timer of a task expires: expire(t) starts in a goroutine. *)
TTLTimerExpires(t) ==
    /\ ttlTimer[t] # None
    /\ now >= ttlTimer[t]
    /\ ttlTimer' = [ttlTimer EXCEPT ![t] = None]
    /\ expiring' = expiring \union {t}
    /\ UNCHANGED <<now, qVars, inUse, nameVars, status, task, timer, drv,
                   forked, held>>

(* Bug: a task without a dispatch timer is skipped. *)
ExpireTimedOnly(t) ==
    /\ t \in expiring
    /\ expiring' = expiring \ {t}
    /\ \/ /\ Live(t) /\ timer[t] # None
          /\ RemoveLocked(t, drv)
       \/ /\ ~Live(t) \/ timer[t] = None
          /\ UNCHANGED <<nameVars, status, timer, ttlTimer, drv>>
    /\ UNCHANGED <<now, qVars, inUse, task, forked, held>>

(* expire(t) *)
Expire(t) ==
    /\ t \in expiring
    /\ expiring' = expiring \ {t}
    /\ \/ /\ Live(t)
          /\ RemoveLocked(t, drv)
       \/ /\ ~Live(t)
          /\ UNCHANGED <<nameVars, status, timer, ttlTimer, drv>>
    /\ UNCHANGED <<now, qVars, inUse, task, forked, held>>

(* Bug: a tombstone that is newer than the timer is deleted, too. *)
CleanedUpUnchecked(n) == None

CleanedUp(n) == IF Tombstoned(n) THEN tombstones[n] ELSE None

(* The function tombstoneLocked leaves to a timer. *)
CleanupTombstone(n) ==
    \E due \in cleanups[n] :
        /\ now >= due
        /\ cleanups' = [cleanups EXCEPT ![n] = @ \ {due}]
        /\ tombstones' = [tombstones EXCEPT ![n] = CleanedUp(n)]
        /\ UNCHANGED <<now, qVars, inUse, tasks, reserved, taskVars, drv,
                       forked, held>>

---------------------------------------------------------------------------
(* API calls on tasks and on the queue *)

DeleteTask(n) ==
    /\ tasks[n] # None
    /\ RemoveLocked(tasks[n], drv)
    /\ UNCHANGED <<now, qVars, inUse, task, expiring, forked, held>>

(* Bug: the timer is left armed. *)
RunDriversUnstopped(t) == IdleDrivers

(* ts.timer.Stop(): a timer that was stopped gives its driver to the call. *)
RunDrivers(t) == IF timer[t] # None THEN {timer[t]} ELSE IdleDrivers

(***************************************************************************)
(* RunTask, up to its attempt: the timer is stopped if it can be, and the  *)
(* call becomes a driver of its own, subject neither to the queue's state  *)
(* nor to its limits.                                                      *)
(***************************************************************************)
RunTask(n) ==
    /\ tasks[n] # None
    /\ Push(tasks[n])
    /\ \E w \in RunDrivers(tasks[n]) :
         drv' = [drv EXCEPT ![w] = Running(tasks[n])]
    /\ timer' = [timer EXCEPT ![tasks[n]] = None]
    /\ task' = [task EXCEPT ![tasks[n]].ScheduleTime = now]
    /\ forked' = IF timer[tasks[n]] = None
                 THEN forked \union {tasks[n]} ELSE forked
    /\ UNCHANGED <<now, qVars, inUse, nameVars, status, ttlTimer, expiring,
                   held>>

(* purge: hard reset also forgets every reservation, older ones included. *)
PurgeQueue ==
    /\ Discard(Listed)
    /\ drv' = StopTimers(drv, Listed)
    /\ IF eng.hardResetOnPurge
       THEN /\ tombstones' = [n \in Name |-> None]
            /\ reserved' = [n \in Name |-> None]
            /\ cleanups' = IF EffectiveTombstoneTTL < 0 THEN cleanups
                           ELSE CleanupTimers(Listed)
       ELSE Tombstone(Listed)
    /\ UNCHANGED <<now, qVars, inUse, task, expiring, forked, held>>

(* PauseQueue and ResumeQueue. *)
SetQueueState(st) ==
    /\ q' = [q EXCEPT !.State = st]
    /\ held' = IF st = "RUNNING" THEN {} ELSE held
    /\ UNCHANGED <<now, eng, published, gen, capacity, inUse, nameVars, taskVars,
                   drv, forked>>

(***************************************************************************)
(* UpdateQueue on an existing queue.  An empty mask stands for every       *)
(* field; whatever the mask, the limiter and the semaphore are rebuilt.    *)
(***************************************************************************)
UpdateQueue(new, mask) ==
    /\ published
    /\ gen < MaxUpdates
    /\ q' = ApplyQueueDefaults(
              [q EXCEPT !.MaxConcurrentDispatches =
                            IF mask = {} \/ "RateLimits" \in mask
                            THEN new.MaxConcurrentDispatches ELSE @,
                        !.RetryConfig =
                            IF mask = {} \/ "RetryConfig" \in mask
                            THEN new.RetryConfig ELSE @])
    /\ gen' = gen + 1
    /\ capacity' = [capacity EXCEPT ![gen + 1] = Slots(q')]
    /\ UNCHANGED <<now, eng, published, inUse, nameVars, taskVars, drv, forked, held>>

(* DeleteQueue: stop(), and the queue leaves the engine's map. *)
DeleteQueue ==
    /\ published
    /\ published' = FALSE
    /\ Discard(Listed)
    /\ drv' = StopTimers(drv, Listed)
    /\ UNCHANGED <<now, eng, q, gen, capacity, inUse, tombstones, cleanups, reserved,
                   task, expiring, forked, held>>

Tick ==
    /\ now < Horizon
    /\ now' = now + 1
    /\ UNCHANGED <<qVars, inUse, nameVars, taskVars, drv, forked, held>>

---------------------------------------------------------------------------
(* The specification *)

NoTask ==
    [Name |-> None, Pull |-> FALSE, ScheduleTime |-> 0, DispatchCount |-> 0,
     ResponseCount |-> 0, executionCount |-> 0, firstAttempt |-> None,
     last |-> "none"]

(* CreateQueue has just published a new queueState. *)
Init ==
    /\ now = 0
    /\ \E cfg \in EngineConfigs : eng = NewEngine(cfg)
    /\ published = TRUE
    /\ \E new \in NewQueues : q = ApplyQueueDefaults(new)
    /\ gen = 0
    /\ capacity = [g \in Generation |-> IF g = 0 THEN Slots(q) ELSE 0]
    /\ inUse = [g \in Generation |-> 0]
    /\ tasks = [n \in Name |-> None]
    /\ tombstones = [n \in Name |-> None]
    /\ cleanups = [n \in Name |-> {}]
    /\ status = [t \in TaskState |-> "free"]
    /\ task = [t \in TaskState |-> NoTask]
    /\ timer = [t \in TaskState |-> None]
    /\ ttlTimer = [t \in TaskState |-> None]
    /\ expiring = {}
    /\ drv = [w \in Driver |-> Idle]
    /\ forked = {}
    /\ held = {}
    /\ reserved = [n \in Name |-> None]

(* What a mask may name; the two overrides reach dispatch() only. *)
Fields == {"RateLimits", "RetryConfig", "Overrides"}

CreateTask(t) ==
    \/ \E n \in Name, pull \in Targets, delay \in Delays :
         CreateTaskLookup(t, n, pull, delay)
    \/ CreateTaskRejected(t)
    \/ CreateTaskAdd(t)

Fire(w) == TimerExpires(w) \/ FireRemoved(w) \/ FireHeld(w) \/ FirePass(w)

Attempt(w) ==
    \/ AttemptAborted(w)
    \/ SnapshotAttempt(w)
    \/ ApplyStale(w)
    \/ \E outcome \in Outcomes : ApplyRemove(w, outcome) \/ ApplyRetry(w, outcome)

Next ==
    \/ \E t \in TaskState : CreateTask(t) \/ TTLTimerExpires(t) \/ Expire(t)
    \/ \E w \in Driver : Fire(w) \/ AcquireSlot(w) \/ Attempt(w)
    \/ \E n \in Name : CleanupTombstone(n) \/ DeleteTask(n) \/ RunTask(n)
    \/ PurgeQueue
    \/ \E st \in {"RUNNING", "PAUSED"} : SetQueueState(st)
    \/ \E new \in NewQueues, mask \in SUBSET Fields : UpdateQueue(new, mask)
    \/ DeleteQueue
    \/ Tick

Spec == Init /\ [][Next]_vars

(***************************************************************************)
(* What the runtime guarantees: timers expire, a goroutine that can run    *)
(* runs, an HTTP exchange ends at its deadline at the latest, the clock    *)
(* advances.  Blocked senders on a channel are served in order, so a       *)
(* driver that waits for a slot gets one if slots keep being released.     *)
(* Nothing is assumed of the clients: no call needs ever to be made.       *)
(***************************************************************************)
Fairness ==
    /\ \A t \in TaskState :
         /\ WF_vars(CreateTaskRejected(t) \/ CreateTaskAdd(t))
         /\ WF_vars(TTLTimerExpires(t))
         /\ WF_vars(Expire(t))
    /\ \A w \in Driver :
         /\ WF_vars(Fire(w))
         /\ SF_vars(AcquireSlot(w))
         /\ WF_vars(Attempt(w))
    /\ \A n \in Name : WF_vars(CleanupTombstone(n))
    /\ WF_vars(Tick)

FairSpec == Spec /\ Fairness

---------------------------------------------------------------------------
(* Safety *)

Tasks ==
    [Name: Name \union {None}, Pull: BOOLEAN, ScheduleTime: Int,
     DispatchCount: Nat, ResponseCount: Nat, executionCount: Nat,
     firstAttempt: Int \union {None},
     last: Exchanges \union {"none"}]

Drivers ==
    [pc: {"idle", "armed", "fired", "throttled", "attempt", "dispatch"},
     ts: TaskState \union {None}, at: Int,
     sem: Generation \union {NoSlot}, number: Nat]

(***************************************************************************)
(* The type invariant.  A semaphore the queue has, or had, has at least    *)
(* one slot, whatever settings a client sent (rebuildLimits, queue.go:63). *)
(***************************************************************************)
TypeOK ==
    /\ now \in Nat
    /\ eng \in Engines
    /\ published \in BOOLEAN
    /\ q \in Queues
    /\ gen \in Generation
    /\ capacity \in [Generation -> Nat]
    /\ \A g \in 0 .. gen : capacity[g] > 0
    /\ inUse \in [Generation -> Int]
    /\ tasks \in [Name -> TaskState \union {None}]
    /\ tombstones \in [Name -> Int \union {None}]
    /\ cleanups \in [Name -> SUBSET Int]
    /\ status \in [TaskState -> {"free", "creating", "live", "removed"}]
    /\ task \in [TaskState -> Tasks]
    /\ timer \in [TaskState -> Driver \union {None}]
    /\ ttlTimer \in [TaskState -> Int \union {None}]
    /\ expiring \subseteq TaskState
    /\ drv \in [Driver -> Drivers]
    /\ forked \subseteq TaskState
    /\ held \subseteq TaskState
    /\ reserved \in [Name -> Int \union {None}]

(***************************************************************************)
(* qs.tasks holds exactly the tasks that are not removed, each under its   *)
(* own name.  removeLocked deletes by name (queue.go:300): a late expire   *)
(* or a late result of an earlier task of the same name must not take the  *)
(* new one out.                                                            *)
(***************************************************************************)
IndexMatches ==
    /\ \A n \in Name :
         tasks[n] # None => Live(tasks[n]) /\ task[tasks[n]].Name = n
    /\ \A t \in TaskState :
         Live(t) => task[t].Name \in Name /\ tasks[task[t].Name] = t

(***************************************************************************)
(* A task the queue must dispatch always has a timer or a goroutine that   *)
(* carries it on: no interleaving of fire, retry, pause, update and        *)
(* RunTask leaves it in the queue with nothing to come (queue.go:102,113). *)
(***************************************************************************)
NeverStranded ==
    \A t \in TaskState :
        Live(t) /\ Push(t) => \E w \in Driver : drv[w].ts = t

(***************************************************************************)
(* A task is carried by one driver at a time, so its attempts do not       *)
(* overlap and their retry counts are fresh, unless RunTask came when the  *)
(* timer had expired and Stop (engine.go:381) was too late.                *)
(***************************************************************************)
SingleChain ==
    \A t \in TaskState \ forked :
        /\ \A v, w \in Driver : drv[v].ts = t /\ drv[w].ts = t => v = w
        /\ \A w \in Driver :
             drv[w].ts = t /\ AtPC(w, "dispatch") /\ Live(t) =>
                drv[w].number = task[t].DispatchCount + 1

Holders(g) ==
    {w \in Driver : drv[w].sem = g /\ drv[w].pc \in {"attempt", "dispatch"}}

(***************************************************************************)
(* Each semaphore counts its holders and no more than its capacity hold    *)
(* it, also when UpdateQueue replaced it meanwhile: every driver gives     *)
(* back to the semaphore it took from (queue.go:117-127).                  *)
(***************************************************************************)
SlotsAccounted ==
    \A g \in Generation :
        inUse[g] = Cardinality(Holders(g)) /\ inUse[g] <= capacity[g]

InFlight(t) == {w \in Driver : drv[w].ts = t /\ AtPC(w, "dispatch")}

AttemptsStarted(t) == task[t].DispatchCount + Cardinality(InFlight(t))

OnlyAttemptsLimited ==
    /\ gen = 0
    /\ q.RetryConfig.MaxAttempts > 0
    /\ ~DurationLimited(q.RetryConfig)

(***************************************************************************)
(* When MaxAttempts is the only limit of a queue, no more attempts than    *)
(* that are started for a task (queue.go:239), calls of RunTask on the     *)
(* waiting task included.                                                  *)
(***************************************************************************)
AttemptsBounded ==
    OnlyAttemptsLimited =>
        \A t \in TaskState \ forked :
            AttemptsStarted(t) <= q.RetryConfig.MaxAttempts

(***************************************************************************)
(* A task that was created in a paused queue, or that a timer found there, *)
(* is not dispatched by a timer until the queue is resumed                 *)
(* (queue.go:112).                                                         *)
(***************************************************************************)
HeldNotDispatched ==
    \A w \in Driver :
        drv[w].ts \in held \ forked =>
            drv[w].sem = NoSlot

(***************************************************************************)
(* A name that was promised to be reserved is not given to a new task      *)
(* before the promise ends: neither the cleanup timer of an older          *)
(* tombstone (queue.go:314) nor a late expire shortens it.  Only a hard    *)
(* reset withdraws it.                                                     *)
(***************************************************************************)
ReservedNamesFree ==
    \A n \in Name :
        reserved[n] # None /\ now < reserved[n] =>
            tasks[n] = None /\ tombstones[n] = reserved[n]

(***************************************************************************)
(* No tombstone is kept for ever: each has a timer to come that will find  *)
(* it expired and delete it (queue.go:311).                                *)
(***************************************************************************)
TombstonesReclaimed ==
    \A n \in Name :
        tombstones[n] # None =>
            \E due \in cleanups[n] : due >= tombstones[n]

(***************************************************************************)
(* No attempt starts before the task's schedule time, whatever polls,      *)
(* retries and forced runs came before it (queue.go:98).                   *)
(***************************************************************************)
NotEarly ==
    \A w \in Driver :
        AtPC(w, "dispatch") /\ drv[w].ts \notin forked =>
            drv[w].at >= task[drv[w].ts].ScheduleTime

(***************************************************************************)
(* The counters behind the X-CloudTasks headers agree with each other      *)
(* (queue.go:199-211): executions are answers, answers are attempts, and   *)
(* the first attempt is on record as soon as one was counted.              *)
(***************************************************************************)
CountersConsistent ==
    \A t \in TaskState :
        /\ task[t].executionCount <= task[t].ResponseCount
        /\ task[t].ResponseCount <= task[t].DispatchCount
        /\ task[t].DispatchCount = 0 <=> task[t].firstAttempt = None
        /\ task[t].firstAttempt # None => task[t].firstAttempt <= now

---------------------------------------------------------------------------
(* Liveness *)

(***************************************************************************)
(* Once the queue stays out of pause, each of its push tasks is dispatched *)
(* until it succeeds or is given up, if the attempts are limited: it does  *)
(* not wait for ever for a timer, a poll or a concurrency slot.            *)
(***************************************************************************)
Drained ==
    <>[]~Holding =>
        \A t \in TaskState : Live(t) /\ Push(t) ~> status[t] = "removed"

(***************************************************************************)
(* A task whose TTL ends within the horizon leaves the queue, be it a pull *)
(* task, held in a pause or in the middle of its retries (queue.go:276).   *)
(***************************************************************************)
ExpiresInTime ==
    \A t \in TaskState :
        ttlTimer[t] # None /\ ttlTimer[t] <= Horizon ~> status[t] = "removed"

---------------------------------------------------------------------------
(* The contract *)

(* A driver shows as a request when a RunTask call has it, until it finds  *)
(* the task again, and during its exchange.                                *)
RequestOf(w) ==
    IF AtPC(w, "dispatch")
    THEN [stage |-> "sent", task |-> drv[w].ts, at |-> drv[w].at,
          lane |-> IF drv[w].sem = NoSlot THEN None ELSE drv[w].sem]
    ELSE IF AtPC(w, "attempt") /\ drv[w].sem = NoSlot
    THEN [stage |-> "forced", task |-> drv[w].ts, at |-> 0, lane |-> None]
    ELSE [stage |-> "none", task |-> None, at |-> 0, lane |-> None]

Requests == [w \in Driver |-> RequestOf(w)]

Queued == {t \in TaskState : Live(t)}

Created ==
    [t \in TaskState |-> IF status[t] \in {"live", "removed"} THEN task[t]
                        ELSE NoTask]

Settings ==
    [retry |-> q.RetryConfig, keep |-> EffectiveTombstoneTTL,
     hardReset |-> eng.hardResetOnPurge, pull |-> q.Pull,
     running |-> q.State = "RUNNING"]

Contract ==
    INSTANCE TaskLife
        WITH Request <- Driver, Lane <- Generation, settings <- Settings,
             slots <- capacity, task <- Created, queued <- Queued,
             request <- Requests, overtaken <- forked

(***************************************************************************)
(* The queue with its timers, goroutines, maps and semaphores (queue.go)   *)
(* keeps the contract: names are taken once and kept as long as promised,  *)
(* requests are sent for queued push tasks only, when they are due, one at *)
(* a time, within the slots and not in a pause, each result is applied     *)
(* once, and none to a task that is gone.                                  *)
(***************************************************************************)
KeepsContract == Contract!Spec

---------------------------------------------------------------------------
(* What the repository says and the code does not do *)

(***************************************************************************)
(* docs/testing.md: "After `MaxAttempts` (or `MaxRetryDuration`) the task  *)
(* is dropped", here also of a task RunTask was called on during an        *)
(* attempt.                                                                *)
(***************************************************************************)
AttemptsAlwaysBounded ==
    OnlyAttemptsLimited =>
        \A t \in TaskState : AttemptsStarted(t) <= q.RetryConfig.MaxAttempts
=============================================================================
