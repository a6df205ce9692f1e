------------------------------ MODULE TaskLife ------------------------------
(***************************************************************************)
(* What a queue promises about its tasks.  There are no timers, goroutines *)
(* or locks here, and no map that could disagree with the tasks in it: a   *)
(* task is queued under a free name, requests are sent for it, each result *)
(* is counted and ends or reschedules it, and once it is gone nothing is   *)
(* done for it any more.                                                   *)
(*                                                                         *)
(* A request is one HTTP exchange, or a RunTask call that has still to     *)
(* begin its exchange.  Requests that no client forced go through a lane,  *)
(* which has a number of slots; every update of the queue opens a new one. *)
(***************************************************************************)
EXTENDS FiniteSets, RetryPolicy

CONSTANTS TaskState, Name, Request, Lane, None

VARIABLES
    now,
    settings,   \* the retry limits, how long names are kept, pause, pull
    slots,      \* of each lane; none before it is opened
    task,       \* each task, NoTask before it was created
    queued,     \* the tasks that are in the queue
    reserved,   \* until when a name is kept
    request,    \* the requests
    held,       \* the tasks that a pause holds back
    overtaken   \* the tasks RunTask came too late to for a single request

names == <<queued, reserved>>
vars == <<now, settings, slots, task, names, request, held, overtaken>>

Exchanges == {"ok", "4xx", "5xx", "noresponse"}

Settings == [retry: RetryConfigs, keep: Int, hardReset: BOOLEAN, pull: BOOLEAN,
             running: BOOLEAN]

NoTask ==
    [Name |-> None, Pull |-> FALSE, ScheduleTime |-> 0, DispatchCount |-> 0,
     ResponseCount |-> 0, executionCount |-> 0, firstAttempt |-> None,
     last |-> "none"]

(* What a client may ask for, and nothing counted yet. *)
New(r) ==
    /\ r.Name \in Name /\ r.Pull \in BOOLEAN /\ r.ScheduleTime \in Int
    /\ r.DispatchCount = 0 /\ r.ResponseCount = 0 /\ r.executionCount = 0
    /\ r.firstAttempt = None /\ r.last = "none"

NoRequest == [stage |-> "none", task |-> None, lane |-> None, at |-> 0]

Forced(t) == [stage |-> "forced", task |-> t, lane |-> None, at |-> 0]

Sent(t, l) == [stage |-> "sent", task |-> t, lane |-> l, at |-> now]

UnderWay == {r \in Request : request[r].stage = "sent"}

Taken(n) == \/ \E t \in queued : task[t].Name = n
            \/ reserved[n] # None /\ now < reserved[n]

(* The tasks of S go, and their names are kept. *)
Leave(S) ==
    /\ queued' = queued \ S
    /\ reserved' = [n \in Name |->
                      IF settings.keep >= 0 /\ \E t \in S : task[t].Name = n
                      THEN now + settings.keep ELSE reserved[n]]

Init ==
    /\ now = 0
    /\ settings \in Settings
    /\ \E l \in Lane : \A m \in Lane : slots[m] \in Nat /\ (slots[m] > 0 <=> m = l)
    /\ task = [t \in TaskState |-> NoTask]
    /\ queued = {}
    /\ reserved = [n \in Name |-> None]
    /\ request = [r \in Request |-> NoRequest]
    /\ held = {}
    /\ overtaken = {}

Create(t) ==
    /\ task[t] = NoTask
    /\ New(task'[t])
    /\ ~Taken(task'[t].Name)
    /\ task' = [task EXCEPT ![t] = task'[t]]
    /\ queued' = queued \union {t}
    /\ held' = IF settings.running THEN held ELSE held \union {t}
    /\ UNCHANGED <<now, settings, slots, reserved, request, overtaken>>

(***************************************************************************)
(* A request goes out.  The task is due and has no other one under way; if *)
(* no client forces it, there is a slot and no pause holds the task.       *)
(***************************************************************************)
Send(r, t, l) ==
    /\ t \in queued
    /\ ~settings.pull /\ ~task[t].Pull
    /\ \/ /\ request[r] = NoRequest
          /\ l \in Lane
          /\ Cardinality({s \in UnderWay : request[s].lane = l}) < slots[l]
          /\ t \in held => t \in overtaken
       \/ /\ request[r] = Forced(t)
          /\ l = None
    /\ t \notin overtaken => /\ now >= task[t].ScheduleTime
                             /\ \A s \in UnderWay : request[s].task # t
    /\ request' = [request EXCEPT ![r] = Sent(t, l)]
    /\ UNCHANGED <<now, settings, slots, task, names, held, overtaken>>

(* The task of r after a result is counted. *)
Counted(r, outcome) ==
    [task[request[r].task] EXCEPT
        !.DispatchCount = @ + 1,
        !.ResponseCount = IF outcome = "noresponse" THEN @ ELSE @ + 1,
        !.executionCount = IF outcome \in {"ok", "4xx"} THEN @ + 1 ELSE @,
        !.firstAttempt = IF @ = None THEN request[r].at ELSE @,
        !.last = outcome]

Retryable(r, outcome) ==
    /\ outcome # "ok"
    /\ ShouldRetry(settings.retry, Counted(r, outcome).DispatchCount,
                   now - Counted(r, outcome).firstAttempt)

(* A result arrives for a task that is still queued. *)
Result(r) ==
    /\ r \in UnderWay
    /\ request[r].task \in queued
    /\ request' = [request EXCEPT ![r] = NoRequest]
    /\ UNCHANGED <<now, settings, slots, held, overtaken>>

Complete(r, outcome) ==
    /\ Result(r)
    /\ ~Retryable(r, outcome)
    /\ task' = [task EXCEPT ![request[r].task] = Counted(r, outcome)]
    /\ Leave({request[r].task})

Retry(r, outcome) ==
    /\ Result(r)
    /\ Retryable(r, outcome)
    /\ task' = [task EXCEPT ![request[r].task] =
                  [Counted(r, outcome) EXCEPT
                     !.ScheduleTime = now + Backoff(settings.retry,
                                        Counted(r, outcome).DispatchCount)]]
    /\ UNCHANGED names

(* Whatever becomes of a request whose task is gone changes nothing else. *)
Drop(r) ==
    /\ request[r] # NoRequest
    /\ request[r].task \notin queued
    /\ request' = [request EXCEPT ![r] = NoRequest]
    /\ UNCHANGED <<now, settings, slots, task, names, held, overtaken>>

(* A task is deleted, or its time is over. *)
Remove(t) ==
    /\ t \in queued
    /\ Leave({t})
    /\ UNCHANGED <<now, settings, slots, task, request, held, overtaken>>

(* A purge; a hard reset also gives every name free. *)
Purge ==
    /\ \/ ~settings.hardReset /\ Leave(queued)
       \/ /\ settings.hardReset
          /\ queued' = {}
          /\ reserved' = [n \in Name |-> None]
    /\ UNCHANGED <<now, settings, slots, task, request, held, overtaken>>

(* The queue is deleted. *)
Close ==
    /\ queued' = {}
    /\ UNCHANGED <<now, settings, slots, task, reserved, request, held, overtaken>>

(***************************************************************************)
(* A client runs a task now.  The request takes the place of the one that  *)
(* was to come, but may come too late for that if the task was due.        *)
(***************************************************************************)
Run(r, t) ==
    /\ t \in queued
    /\ ~settings.pull /\ ~task[t].Pull
    /\ request[r] = NoRequest
    /\ request' = [request EXCEPT ![r] = Forced(t)]
    /\ task' = [task EXCEPT ![t].ScheduleTime = now]
    /\ \/ overtaken' = overtaken
       \/ /\ now >= task[t].ScheduleTime
          /\ overtaken' = overtaken \union {t}
    /\ UNCHANGED <<now, settings, slots, names, held>>

(* A task that comes due in a pause. *)
Hold(t) ==
    /\ t \in queued
    /\ ~settings.running
    /\ held' = held \union {t}
    /\ UNCHANGED <<now, settings, slots, task, names, request, overtaken>>

SetRunning(running) ==
    /\ settings' = [settings EXCEPT !.running = running]
    /\ held' = IF running THEN {} ELSE held
    /\ UNCHANGED <<now, slots, task, names, request, overtaken>>

Update(l) ==
    /\ settings'.retry \in RetryConfigs
    /\ settings' = [settings EXCEPT !.retry = settings'.retry]
    /\ slots[l] = 0
    /\ slots'[l] \in Nat \ {0}
    /\ slots' = [slots EXCEPT ![l] = slots'[l]]
    /\ UNCHANGED <<now, task, names, request, held, overtaken>>

Tick ==
    /\ now' = now + 1
    /\ UNCHANGED <<settings, slots, task, names, request, held, overtaken>>

Next ==
    \/ \E t \in TaskState : Create(t) \/ Remove(t) \/ Hold(t)
    \/ \E r \in Request, t \in TaskState :
         Run(r, t) \/ \E l \in Lane \union {None} : Send(r, t, l)
    \/ \E r \in Request :
         Drop(r) \/ \E outcome \in Exchanges : Complete(r, outcome) \/ Retry(r, outcome)
    \/ Purge \/ Close
    \/ \E running \in BOOLEAN : SetRunning(running)
    \/ \E l \in Lane : Update(l)
    \/ Tick

Spec == Init /\ [][Next]_vars
=============================================================================
