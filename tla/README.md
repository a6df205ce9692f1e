# A TLA+ development for cloud-tasks-emulator

The emulator is one Go process that plays Google Cloud Tasks: clients create
queues and tasks over gRPC or REST, and the emulator delivers each push task to
an HTTP handler, with schedule times, rate limits, bounded concurrency, retries,
task names that stay reserved, pauses and purges. Everything is in memory and
everything is concurrent: one goroutine per RPC, and one per timer that expires.

This directory holds TLA+ modules that model the parts of the code where that
concurrency lives (`core/queue.go`, `core/engine.go`, `main.go`) and the path from
an API message to the request that is sent (`emulator/`, `rest/`,
`core/dispatch.go`), TLC configurations that check them on small instances, and
TLAPS proofs of all their safety properties for every value of the constants.
`PROJECT.json` maps each definition to the lines it models.

## The system

| Component | State | Operations | Modelled in |
|---|---|---|---|
| Queue scheduling, `core/queue.go` and the task calls of `core/engine.go` | per queue: settings, tasks, tombstones, limiter, semaphore, timers; per task: counters, two timers, `removed` | CreateTask, fire, attempt, applyAttempt, expire, DeleteTask, RunTask, purge, pause/resume, update, stop | `Queue`, `TaskLife`, `Limiter` |
| Retry policy, `shouldRetry` and `backoff` | none (pure) | | `RetryPolicy`, `RetrySchedule` |
| Engine registry, `core/engine.go` | maps of queues and IAM policies; `Engine.mu` and one mutex per queue | EnsureQueue, CreateQueue, GetQueue, ListQueues, UpdateQueue, DeleteQueue, lookups, IAM | `Engine`, `Registry` |
| Task names, `core/naming.go`, `nextTaskID` | `idSeq`, with no lock | resolveTaskName, nextTaskID | `TaskIds` (ids only) |
| HTTP dispatch, `core/dispatch.go` | none | buildRequest, overrides, headers, authentication | `Dispatch`, `Delivery`; the outcome of an exchange in `Queue` |
| Validation, pagination | none | validateCreateTask, paginate | `Dispatch`, `Pagination` |
| OIDC signer, `core/oidc.go` | a key | Token, Handler | no |
| gRPC adapters, `emulator/` | none | one engine call per RPC, conversions | `Engine` (the calls), `Messages` (the conversions) |
| REST gateway, `rest/` | routes, fixed at start | ServeHTTP | `Gateway` |
| Startup and shutdown, `main.go` | listeners, servers, two channels | parseFlags, run, signals | `Startup` |

The components meet in three ways. RPC handlers call the engine, which looks a
queue up under `Engine.mu`; some calls keep that lock while they take the
queue's, the others release it and go on with the pointer. Timers
(`time.AfterFunc`) call back into the queue: to fire a task, to expire it, to
clean a tombstone up. And `fire` waits, outside every lock, for the limiter, for
a slot of the semaphore and for the HTTP exchange, then comes back to apply a
result to a task that may be gone.

What is hard, and what the properties are about:

* a timer that has expired can no longer be stopped: removal, RunTask, purge and
  delete all race with goroutines that are already on their way;
* values captured before a wait (the queue pointer in CreateTask, the limiter and
  semaphore in `fire`, the task in `attempt`) may be stale after it;
* names are reused: a late expiry, a late result or the cleanup timer of an older
  tombstone must not hit the next task of that name;
* a task survives a pause, a failure or an update only if somebody arms the next
  timer;
* the retry arithmetic mixes floats, 64-bit integers and two optional limits;
* the two levels of locks, and the hand-written unlocks of RunTask;
* the token bucket is replaced while goroutines wait for its tokens, and its rate
  comes from the client unchecked;
* a page token is an index into a list that changes between two pages;
* two API versions with different fields write the same queues, each through its
  own masks and conversions; a task is validated when it is created and its
  request is built later, with the override the queue has by then;
* startup takes four steps that may fail, and a signal may come at any of them.

`PROJECT.json` lists these as hazards, at their lines.

## The modules

**`RetryPolicy`** has `ShouldRetry` and `Backoff` as pure operators. Durations
are integers of a given width that wrap around; the conversion of a float that
does not fit is the platform's (`Saturating`: arm64 saturates, amd64 yields the
least integer). The adapters pass a client's retry settings on unchecked, so every
setting may be negative; a negative `MaxDoublings` halves, and the conversion drops
the fraction (`Halved`). The subtraction `retries-1-maxDoublings` is not wrapped
around at 32 bits: where it would be, the interval it multiplies is zero.

**`RetrySchedule`** is one task whose every attempt fails. Its only action is
the failure branch of `applyAttempt`; time is measured from the first dispatch. A
timer armed for a time that has passed fires at once (`Start`), so a negative delay
never brings an attempt before the failure of the last one.
`Growth` is the reference the delays are compared with.

**`Queue`** is one `queueState`. Every action is one critical section of its
mutex, or one step of a goroutine outside it. State and code correspond as
follows.

| Model | Code |
|---|---|
| `q`, `gen`, `capacity`, `inUse` | `qs.q`; which semaphore `qs.concurrency` is; its capacity and length, for the replaced ones too |
| `tasks`, `tombstones`, `cleanups` | the two maps, and the cleanup timers of `tombstoneLocked` |
| `status`, `task` | allocated or not, `ts.removed`; `ts.t` and the counters beside it |
| `timer`, `ttlTimer`, `expiring` | the two timers while they can be stopped; `expire` calls that wait for the lock |
| `drv` | timers and the goroutines they become: `armed` → `fired` → `throttled` → `attempt` → `dispatch`, and back |
| `published` | the queue is in the engine's map |
| `forked`, `held`, `reserved` | history, for stating properties only |

A *driver* is a `time.AfterFunc` timer and the goroutine it turns into; a RunTask
call is a driver that starts at `attempt`. CreateTask is two actions, because it
releases `Engine.mu` between looking the queue up and locking it; so DeleteQueue
may come between them. The calls other than CreateTask and UpdateQueue do not ask
whether the queue is still published: they too may have looked it up before.
`removeLocked`, with its tombstone and its stopped timers, is part of every
action that calls it. The receive from the semaphore (`defer`) is taken together
with the end of the attempt: it only enables other steps, so no behaviour that a
property could tell apart is lost.

**`TaskLife`** is the abstract specification of `Queue`: what a queue promises about
its tasks, without timers, goroutines or locks. A task is queued under a free name,
requests are sent for it, and each result is counted and ends or reschedules it. Once
a task is gone nothing is done for it any more, and its name is kept as long as the
queue says. A request that no client forces needs a slot of a lane and a task that no
pause holds. `Queue!Contract` is the refinement mapping.

| `TaskLife` | `Queue` |
|---|---|
| `queued`, `task` | the live tasks; a task shows once CreateTask has added it, and stays as it was when it leaves |
| `settings` | what clients can tell of the queue: retry limits, how long names are kept, pull, pause |
| `slots` | `capacity`, a lane for each semaphore the queue has had |
| `request` | a driver at `dispatch` is one that is sent, with the semaphore it holds as its lane; a RunTask call at `attempt` is one that is forced; other drivers do not show |
| `overtaken` | `forked` |
| `Create`, `Send`, `Complete`, `Retry`, `Drop` | CreateTaskAdd, SnapshotAttempt, ApplyRemove, ApplyRetry, and ApplyStale or the end of a RunTask call whose task is gone |
| `Remove`, `Purge`, `Close`, `Run`, `Hold` | DeleteTask or Expire, PurgeQueue, DeleteQueue, RunTask, FireHeld |
| nothing | timers that expire, `fire` up to the attempt, the wait for a slot, cleanup timers, a CreateTask that is rejected or has only looked the queue up |

The names a client can see are those of the promise: `Taken` knows the tasks in the
queue and the reservations, and nothing of the two maps and their cleanup timers. A
RunTask that meets a task whose timer has expired cannot take that request's place
(see `queue_forked` below): it is promised only that the task was due by then, and
from then on requests for this task may overlap, come early and pass a pause. The
slots, the removal and the counting of the results are promised for it all the same.

**`Engine`** is the registry at the grain of its locks. A section of `Engine.mu`
that waits for nothing is one action; a section of a queue's mutex is entered in
one action and left in another, so a call can be seen waiting, and holding.
`QueueCall` stands for SetQueueState, CreateTask, GetTask, ListTasks and
DeleteTask, which have the same locks; goroutines of timers (`fire`) compete for
the queue's mutex and never take the engine's. What the sections do to the queue
is `Queue`'s subject.

**`Registry`** is the abstract specification of `Engine`: a set of names and a
policy for some of them, on which every call takes effect at one instant. A call
that releases `Engine.mu` promises only that its queue existed at some instant.
`Engine!Abstract` is the refinement mapping: a call has been answered, as far as
the registry is concerned, once it has let go of `Engine.mu` for the last time.

**`Limiter`** is the bucket behind `limiter.Wait` in `fire`, which `Queue` takes as
a wait that ends. All buckets a queue has had are kept in `limiters`, because a
goroutine goes on with the one it captured. Tokens are counted in units, so that a
rate may be a fraction of a token per tick; `Reserve`, `Advance` and `Due` are
`reserveN`, `advance` and `durationFromTokens` of `golang.org/x/time/rate`.

**`Pagination`** is `paginate` under ListTasks or ListQueues, a client that follows
the tokens, and others that create and remove names. Names are integers, and the
position of a name is the number of smaller ones.

**`Startup`** is `main` and `run`: options from flags and environment, the initial
queues, the three listeners and servers, every error return, the goroutine of the
signal and the one that shuts down, and calls in flight. An HTTP server that is
closed before its goroutine has called `Serve` keeps its listener until it has; a
gRPC server that is stopped before `Serve` makes `Serve` close the listener and
return an error.

**`Messages`**, **`Dispatch`** and **`Gateway`** are the pure parts of the path of a
message: the conversions of both versions, how a request is built, and how a REST
request is routed and decoded. Submessages are records, unset ones `Nil`; a URL is
a record of its components, and one that does not parse is `Nil`; names stand for
whole resource names. Where the code ranges over a Go map, the operator returns
the set of results any order can give. `DecodeUpdateQueue` writes the message three
times, as `decode` does: the body (`BodyRead`), the query parameters in any order
(`QuerySet`, with a name of the queue and two spellings of the mask among them), the
path (`PathSet`). A request has the headers of the task and the override, but for
those the emulator sets over them: the User-Agent and, with a token, Authorization
(`HTTPHeaders`); to App Engine the User-Agent is appended, and a body gets a
Content-Type if it has none (`AppEngineHeaders`).

**`Delivery`** composes them. Clients of both versions read a queue, update it over
gRPC or REST with a message of their own or the one they have read, create tasks,
read and create them again; an attempt copies its queue in one step and sends its
request in a later one. `want` and `lost` are history: what the last client that
named a field asked for, in the terms of the API, and which fields an update
without a usable mask has replaced since. `last` is what the last update was asked
to touch: the queue its caller named and, for each mask it sent, the fields in it.

**`TaskIds`** is `nextTaskID` between concurrent CreateTask calls, load by load
and store by store.

The **`MC`** modules hold the settings for TLC, the modules whose names end in
**`Proofs`** the theorems. Definitions whose comment begins with *Bug:* are variants of the
definition that follows them, as a plausible mistake would leave it; they are used
to see that a property can fail.

## The runs

| Run | Question | Instance |
|---|---|---|
| `queue` | do index, drivers, slots, attempts and counters stay consistent in every order of steps? | 2 tasks, 2 names, 3 drivers, 1 update, no clock; 600 000 states with symmetry |
| `queue_names` | are names reserved as long as promised, and released? Does the queue implement `TaskLife`? | 2 tasks in turn under 1 name, clock to 2, hard reset or not, a running queue and a disabled pull queue; 678 000 states |
| `queue_retries` | is an attempt ever early, do the counters agree, does the TTL always win? | 1 task, all outcomes, delays, pauses, clock to 4; 126 000 states, with fairness |
| `queue_liveness` | is every push task dispatched until it is done? Does the queue implement `TaskLife` when tasks compete for a slot? | 2 tasks, 2 drivers, 1 slot, every attempt fails; 207 000 states, with fairness |
| `retry_schedule` | do `backoff` and `shouldRetry` follow the configuration? | 384 configurations, negative `MinBackoff`, `MaxBackoff` and `MaxDoublings` among them, 8-bit durations, 12 attempts; 14 000 states |
| `limiter` | does every bucket keep to its rate and burst, and does a token come? | 3 goroutines, rates below zero, zero and fractional, 1 update, clock to 7; 314 000 states, with fairness |
| `pagination` | what may a client miss or see twice? | 5 names, page sizes from -1 to above the maximum, 5 tokens, 2 insertions and 2 removals; 77 000 states, with fairness |
| `startup` | do failures and signals at any point leave things in order? | 216 combinations of flags and environment, 2 calls, 1 signal; 4 000 states, with fairness |
| `delivery` | does a request say what was asked for? | 2 queues, both versions, gRPC and REST, 2 updates, 3 overrides, 7 task messages; 593 000 states |
| `engine` | is the engine an atomic registry, without deadlock? | 2 callers, 2 names, 2 queue objects; 218 000 states, with fairness |

Why the bounds are enough. Two tasks and two or three drivers are what the races
need: a stopped and an expired timer of one task, or a late goroutine of an old
task and a new task of its name. Three drivers let RunTask start a second chain
while a third driver waits for the slot. One update gives two semaphores. The
attempts are limited to two, and `MaxDispatches` is one above that, so the limit
and not the bound ends the retries. In the untimed instances all delays are zero
and timers expire at any moment: that covers every order in which real delays
could let them expire. The timed instances add the clock where a property
compares instants. 8-bit durations overflow after 7 doublings, as 64-bit ones do
after 63. In `engine`, two objects allow a queue to be deleted and recreated, or
two queues to be listed; a call that may create a queue is only made while an
object is left. In `limiter` a burst is one or two tokens and three goroutines
wait, so the bucket runs dry; no wait begins after `Horizon`, and `MaxTime` is late
enough for all that have begun. In `pagination` two pages at least are needed for
every size below the maximum, and two changes can fall before and between them. In
`delivery` two updates are the writer and the one that undoes it; one task is
enough, since requests of different tasks share nothing but the queue.

Fairness. In `Queue`: timers expire and goroutines that can run do (weak
fairness); an HTTP exchange ends, because `dispatch` sets a deadline; waiting
senders of a Go channel are served in order, so a driver that waits for a slot
gets one if slots keep coming back (strong fairness on `AcquireSlot`); the
limiter only delays. In `Engine`: a `sync.Mutex` in its starvation mode is handed
to every waiter in the end. In `Limiter`: the clock goes on and timers fire, late
perhaps. In `Pagination`: the client that has a token asks for its page. In
`Startup`: goroutines run and calls end; signals, and an `Accept` that fails, need
not come. Otherwise nothing is assumed of clients, and `Drained` is conditional on
the queue staying out of pause.

Deadlock is checked in all passing runs but `retry_schedule`, where a task that
has been given up has no next attempt, and `limiter` and `delivery`, whose bounds
(the clock, the updates) leave nothing to do when they are used up.

### Where the code does not do what the repository says

Two have a run that ends in a counterexample.

* `queue_forked`: `docs/testing.md:182`, "After `MaxAttempts` (or
  `MaxRetryDuration`) the task is dropped". RunTask does not look at what `Stop`
  returns; on a task whose timer has expired it starts a second chain of attempts,
  and the two exceed the limit.
* `task_ids`: `docs/testing.md:239`, "Auto-named tasks never collide". Concurrent
  calls can compute the same id.

The others can be seen in the models; each becomes a counterexample when the
formula given is checked as an invariant.

* `queue.go:350`, "stop tears down all timers (used when a queue is deleted)".
  CreateTask may add a task, and arm its timer, after the stop: in `Queue`,
  `~published` with an armed driver.
* `README.md:51`, "bounded concurrency (`RateLimits`)". Every UpdateQueue makes a
  new, empty semaphore: in `Queue`, more drivers at `dispatch` that hold a slot than
  `capacity[gen]`.
* `README.md:423`, retried "until `max_attempts` or `max_retry_duration` is
  reached", and `docs/testing.md:182`, quoted above. With both limits set the code
  stops when both have been reached, as the comment at `queue.go:230` says: in
  `RetrySchedule`, `~dropped` with both limits set and `dispatched` at `MaxAttempts`.
  This one is listed among the findings, too.
* `core_test.go:345`, "overflow -> max". On amd64 the linear part of `backoff` can
  wrap around to zero, an immediate retry: in `RetrySchedule`, a retry after an
  overflow with `delay # rc.MaxBackoff`.
* `main.go:164`, "Shutdown must not overtake startup", lest a Ctrl-C become "a
  non-zero exit". The channel `serving` is closed before `Serve` is called; if the
  shutdown runs to `GracefulStop` in between, `Serve` returns `ErrServerStopped`: in
  `Startup`, `grpc = "stopped"` with `pc = "serve"`.

Not promised anywhere, but worth knowing: a header override and a header of the task
that differ in spelling only are both set, and the order of a Go map decides which
stays (`dispatch.go:143`); any override, even one that sets no host, takes the
brackets off an IPv6 literal (`dispatch.go:171`); an update over v2 without a mask
of known fields removes the HTTP target, which v2 cannot express.

The other properties leave these cases out where they must: `SingleChain`,
`AttemptsBounded`, `HeldNotDispatched` and `NotEarly` speak of the tasks that are
not in `forked`, that is, of all tasks but those RunTask met with an expired timer.

## The proofs

`QueueProofs` proves, for any set of tasks, names and drivers, any settings and
any number of updates:

* `TypeCorrect`: `TypeOK`, in particular that every semaphore has a slot;
* `IndexCorrect`: `IndexMatches`;
* `TasksNeverStranded`: `NeverStranded`;
* `ChainsAreSingle`: `SingleChain`.

None of the last three is inductive. The invariant that is, `TypeOK /\ Structure`,
adds: `Named`, a task that is not free has a name of the queue; `DriverTarget`, a
driver at work has a task that was added, and the semaphore it will give back to
is one the queue has had; `TimerPointer`, a task's timer is an armed driver of
that task. Without `TimerPointer` one could not exclude that `Stop` takes away the
driver of another task, which would strand it. The proof has one lemma per group
of actions for `TypeOK` and one for `Structure`. The many ways a task leaves the
queue are reduced to one lemma (`StructureRemove`), and so are the steps of a
driver that stays with its task (`StructureDriver`).

`QueueSafetyProofs` goes on from there, with seven more invariants of the queue:

* `SlotsSafe`: `SlotsAccounted`, the semaphore counts its holders exactly, through
  any number of updates that replace it;
* `AttemptsSafe`: `AttemptsBounded`;
* `PauseSafe`: `HeldNotDispatched`;
* `NamesSafe`: `ReservedNamesFree`;
* `TombstonesSafe`: `TombstonesReclaimed`;
* `TimesSafe`: `NotEarly`;
* `CountersSafe`: `CountersConsistent`.

`SafeInvariance` says that `Safe` is inductive together with `TypeOK /\ Structure`.
The two properties of names are inductive as they stand (`Reservations`). The others
are strengthened by what the code relies on and does not say. A semaphore that is
still to be made has no slots and so no holders (`FreshSemaphores`); only so does a
new one start with nobody in it. A task is held by a pause only while the queue is
not running (`HeldInPause`). A timer is not set before its task's schedule time, and
what has come out of one is not before it (`Punctual`, one line per place of the
driver): that is why `NotEarly` survives `fire`'s polling and the wait for a slot.
The start of an attempt is not in the future (`AttemptClock`), which `firstAttempt`
inherits. A task that is still in the queue or in flight has an attempt left
(`AttemptsLeft`); `SingleChain` is what makes the attempt in flight the only one, so
that counting it cannot pass the limit. The lemmas `FireMoves`, and those after it,
say of each step of a driver where it moves to and what it carries along; the proofs
of the parts use these and not the actions.

The last theorem of the module is `ContractKept` (`KeepsContract`): every behaviour of
`Queue` is one of `TaskLife`. `Init` maps to `Init`, and every step to a step or to
nothing (`StepKept`, with one lemma for each action of `TaskLife`: `CreateKept`,
`SendKept`, `ResultKept`, `DropKept`, `RunKept` and so on, and `HiddenStep` for what
does not show). The proof uses `Structure` and `Safe`, which give most of the guards:
`SlotsAccounted` that a lane has a slot free when a driver begins its exchange
(`SlotFree` counts the requests of a lane by the drivers that hold its semaphore),
`Punctual` and `SingleChain` that a request is due and alone, `HeldNotDispatched` that
no pause holds it, `ReservedNamesFree` that a name without a tombstone is one that is
not promised any more. Three more facts were needed. `OnlyPush`: a driver works for a
push task, so that requests are sent for no other. `Unstarted`: what CreateTask is
about to add has nothing counted yet. And `Pointed`: the timer that waits for a task is
the one that `ts.timer` points to, unless RunTask was once too late for the task; so a
RunTask that finds no timer to stop finds a task that is due (`TooLateWhenDue`), and
the exception for such tasks cannot be had otherwise.

`RetryScheduleProofs` proves `DelaysInRange` (`BackoffInRange`) for every set of
configurations, with negative settings too, every width of the integers and both
conversions. It is inductive together with `TypeOK`; the lemma it rests on,
`BackoffRange`, says that the clamp of `backoff` works on whatever the arithmetic
yields: with a negative `MaxBackoff` it leaves `MaxBackoff` and nothing else. `DelaysAsConfigured` (`BackoffMatchesGrowth`) is about what it yields while
nothing overflows, for every `MinBackoff` and `MaxBackoff`, negative ones too, but
only for `MaxDoublings >= 0`: what a negative number of doublings should mean is said
nowhere. `Growth` is recursive, so
the proof goes through a closed form: `ClosedStep` says how it continues,
`GrowthEquation` that it solves the equation which defines `Growth` (a solution must be
shown to exist before the equation may be used), and `GrowthKnown`, that the two agree
at the attempt counted last, is an invariant of the schedule, which takes the place of
an induction over the attempts. `BackoffExact` says that the two conversions and the
products of `backoff` are exact when the delay fits, because the smaller ones fit too.
The provers know nothing of powers with a variable exponent; `PowerStep` takes the
next power of two from the number of subsets of a finite set.

`EngineProofs` proves, for any callers, names and queues, `TypeCorrect`
(`TypeOK`), `NoQueueLost` (`LostQueuesStopped`), `NoStoppedQueueFound`
(`StoppedQueuesHidden`) and `NoPolicyLeft` (`PoliciesOfQueues`). The inductive
invariant, `Inv`, adds who holds which lock (`Locks`: exactly the calls that keep
`Engine.mu` and are past taking it hold it; a mutex is held by a call that still
has that queue to do), what a DeleteQueue has done when it is where it is
(`Deleting`: its queue cannot have been replaced, since it holds `Engine.mu`), that
two names never share a queue (`Injective`), and that a stopped queue in the map is
being deleted by somebody (`BeingDeleted`). `StoppedQueuesHidden` says nothing of
the time in which the lock is held, so it could not be inductive by itself.

It also proves `Refinement`: every behaviour of `Engine` is one of
`Registry`. Each action is shown to be a start, an effect or a return of one call,
or to show nothing (`Simulated`). It needs, besides `Inv`, that a call has no
answer before it ends and that the queue of a call that keeps `Engine.mu` stays in
the map (`AllAnswering`): so what GetQueue or UpdateQueue report when they end is
true at that instant.

`LimiterProofs` proves `RateBoundedCorrect` (`RateBounded`) and
`BurstBoundedCorrect` (`BurstBounded`) for any rates, bursts, units and number of
goroutines and updates. What is inductive is a statement about the books of each
bucket (`Covered`): what it holds and what it has promised is at most its burst and
what has come in, since it was made and since each reservation was due; with
`Tickets` and `PassedDue` for the goroutines. The lemma that carries the proof is
`ReserveCovered`.

`PaginationProofs` proves, for any finite list, any page sizes and any number of
changes, `DriftBoundedCorrect` (`DriftBounded`) and, as the cases in which nothing is
removed and nothing is inserted, `AllListedCorrect` (`AllListed`) and
`ListedOnceCorrect` (`ListedOnce`). The invariant counts the names the token has
passed without giving them (`Missed`), and the names that have been given twice or lie
behind the token and will be (`Again`), against the changes made so far; `Fresh` says
that a listing that has not begun has given nothing. The lemmas `BelowAdd` and `RankInList` say why one change
moves at most one name over the token.

`StartupProofs` proves `FailedStartCorrect`, `QueuesBeforeReadyCorrect` and
`CleanExitCorrect` for any names, flags and calls. The invariant adds who owns which
listener at which step (`SocketsOwned`), that the shutdown has closed what it has
passed (`ShutdownOrder`), the life of the gRPC server (`GrpcLife`), and that the
queues still to be made are the rest of the list (`QueuesPending`).

`DeliveryProofs` proves, for any strings, ports, headers, queues, messages, masks and
queries and any number of updates, `FieldsAsWrittenCorrect` (`FieldsAsWritten`),
`OverridePrecedenceCorrect` (`OverridePrecedence`), `RequestsSoundCorrect`
(`RequestsSound`) and the action properties `QueueRoundTripsCorrect`,
`TaskRoundTripsCorrect` and `UpdatesStayInScopeCorrect`. It goes in three stages.

* The conversions. `CoreToMessage` says that a configured queue comes back from its
  message in either version, in every field an update of that version can write;
  `OverrideRoundTrip` is its hard part: the schemes, ports, methods and the list of
  headers all have a second form, and the enforce mode must survive an override
  without a URI. `MaskFields` says which fields a mask names, `UpdateOf` that an update
  over gRPC or REST is one of a message by the name in it, and within one of the masks
  sent: `Decoded` follows the three writes of `decode`, and `DecodedPaths` the order of
  the query parameters.
* The requests. `HonouredRequest` and `SoundRequest` relate what BuildRequest makes of
  the neutral task and override to the messages they came from. `TargetComponents`
  says what an override asks of each component of the URL, `MergedHeaders` which of
  two headers counts, and `CanonicalValue` and `OwnUserAgent` what the emulator's own
  headers leave of it.
* The steps. `DeliveryInv` is inductive: `TypesOK`, the neutral queues are such queues
  with a rate and a number of attempts that are not zero, and a client's copy is what
  some version shows of a queue; `FieldsAsWritten`; `TasksOK`, a task in a queue was
  accepted and is the conversion of its message, and an attempt's override is the
  conversion of the target the history told of when the attempt copied its queue;
  `OverridePrecedence`; and `RequestsSound`. The last two speak of the last request
  only; what they need to know of the attempt before it is sent is in `TasksOK`, since
  the queue may have been updated in between. Without the zeroes excluded by `TypesOK` a
  queue written back could come out with the defaults.

The round trips of queues and tasks need the invariant only for the shape of what is
stored; `StepOK` gives all six at once.

Assumptions: `RetryPolicyAssumption`, `RetryScheduleAssumption`,
`QueueAssumption`, `EngineAssumption`, `NilAssumption`, `LimiterAssumption`,
`PaginationAssumption`, `MessagesAssumption` and `DeliveryAssumption`, which say what
the constants are; `BurstAssumption`, that the steps of `computeBurstSize` give a
number for every rate; and `SplitAssumption`, that the parts `SelectSeq` leaves of a list of names are such a list (what a
recursive definition computes is out of the provers' reach). TLC evaluates them in
the runs.

Only model-checked: liveness (`Drained`, `ExpiresInTime`, `EventuallyDropped`,
`CallsReturn`, `TokenComes`, `ListingEnds`, `SignalEnds`), which rests on fairness and
ENABLED, out of the provers' reach. Every other property of a passing run has a
theorem. The two properties that fail (`AttemptsAlwaysBounded`,
`AutoNamesNeverCollide`) are what TLC refutes.

## Not modelled

* The OIDC signer: signing and JSON, without state. `Dispatch` models whom a token
  is for, and the email it names.
* Names, templates and escaped paths as strings: parsing of resource names,
  `parseTemplate`, `splitRequestPath`, escaped slashes. Of the REST requests,
  UpdateQueue is modelled, the only one that has a body field, a query and a path
  variable that can disagree; subfields of the queue set by the query are not.
* The limits on the length of URLs and headers and on the schedule time in
  `validateCreateTask`, and the system headers, whose counters are in `Queue`: they
  are set under names that no canonical header has, so they replace none of the
  headers in `Delivery`.
* The mapping of HTTP to RPC codes and the texts of errors. The outcome of an
  exchange is chosen freely among a 2XX, another answer below 500, a 5XX and no
  answer.
* Attempt records, PurgeTime and the tombstone TTL of v2beta3 messages, which are
  copied like the task TTL.
* In `Queue`, the rate: its `AcquireSlot` passes the limiter at once. `Limiter` has
  it, and shows when a token does not come: with a negative rate, after the first.

## Plan

Done: `RetryPolicy`, `RetrySchedule`, `Queue` with `TaskLife`, `Limiter`, `Engine` with
`Registry`, `TaskIds`, `Pagination`, `Startup`, and `Delivery` with `Messages`,
`Dispatch` and `Gateway`; the theorems above.

Left: the other REST bindings in `Gateway`, and the rate of `Limiter` in `TaskLife`,
whose lanes have slots only.
