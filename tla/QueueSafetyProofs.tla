------------------------- MODULE QueueSafetyProofs -------------------------
(***************************************************************************)
(* What a queue promises about names, concurrency slots, counters and the  *)
(* times of attempts, and that it keeps the contract of TaskLife, for      *)
(* every number of tasks, names, drivers and updates and every setting.    *)
(* All of it rests on the structure proved in QueueProofs.                 *)
(***************************************************************************)
EXTENDS QueueProofs

---------------------------------------------------------------------------
(* Names: what is reserved, and what ends a reservation *)

Reservations == ReservedNamesFree /\ TombstonesReclaimed

(* No step but Tick touches the clock, and no other step than those of the *)
(* two lemmas below touches names.                                         *)
LEMMA ReservationsSame ==
    ASSUME TypeOK, Reservations, UNCHANGED nameVars, now' \in Int, now' >= now
    PROVE  Reservations'
<1>1. ReservedNamesFree'
  <2> SUFFICES ASSUME NEW n \in Name, reserved[n] # None, now' < reserved[n]
               PROVE  tasks[n] = None /\ tombstones[n] = reserved[n]
    BY DEF ReservedNamesFree, nameVars
  <2>1. reserved[n] \in Int /\ now \in Int
    BY DEF TypeOK
  <2>2. now < reserved[n]
    BY <2>1
  <2> QED
    BY <2>2 DEF Reservations, ReservedNamesFree
<1>2. TombstonesReclaimed'
  BY DEF Reservations, TombstonesReclaimed, nameVars
<1> QED
  BY <1>1, <1>2 DEF Reservations

(* removeLocked and purge: the names of the tasks that go are free and, if *)
(* the TTL is not negative, reserved from now on.                          *)
LEMMA ReservationsRemove ==
    ASSUME TypeOK, Reservations, NEW S, Discard(S), Tombstone(S), now' = now
    PROVE  Reservations'
<1> DEFINE until == now + EffectiveTombstoneTTL
<1>1. until \in Int /\ until # None /\ now \in Int
  BY TTLType, QueueAssumption DEF TypeOK
<1>2. \A n \in Name : tasks'[n] = IF n \in NamesOf(S) THEN None ELSE tasks[n]
  BY DEF Discard
<1>3. CASE EffectiveTombstoneTTL < 0
  BY <1>2, <1>3
     DEF Tombstone, Reservations, ReservedNamesFree, TombstonesReclaimed
<1>4. CASE ~(EffectiveTombstoneTTL < 0)
  <2>1. \A n \in Name :
          /\ tombstones'[n] = IF n \in NamesOf(S) THEN until ELSE tombstones[n]
          /\ reserved'[n] = IF n \in NamesOf(S) THEN until ELSE reserved[n]
          /\ cleanups'[n] = IF n \in NamesOf(S) THEN cleanups[n] \union {until}
                            ELSE cleanups[n]
    BY <1>4 DEF Tombstone, Reservation, CleanupTimers
  <2> HIDE DEF until
  <2>2. ReservedNamesFree'
    BY <1>2, <2>1 DEF Reservations, ReservedNamesFree
  <2>3. TombstonesReclaimed'
    <3> SUFFICES ASSUME NEW n \in Name, tombstones'[n] # None
                 PROVE  \E due \in cleanups'[n] : due >= tombstones'[n]
      BY DEF TombstonesReclaimed
    <3>1. CASE n \in NamesOf(S)
      <4>1. cleanups'[n] = cleanups[n] \union {until} /\ tombstones'[n] = until
        BY <2>1, <3>1
      <4>2. until >= until
        BY <1>1
      <4> QED
        BY <4>1, <4>2
    <3>2. CASE n \notin NamesOf(S)
      BY <2>1, <3>2 DEF Reservations, TombstonesReclaimed
    <3> QED
      BY <3>1, <3>2
  <2> QED
    BY <2>2, <2>3 DEF Reservations
<1> QED
  BY <1>3, <1>4

(* CreateTask takes no name that is reserved. *)
LEMMA ReservationsAdd ==
    ASSUME TypeOK, Structure, Reservations, NEW t \in TaskState, CreateTaskAdd(t)
    PROVE  Reservations'
<1>1. task[t].Name \in Name /\ ~Tombstoned(task[t].Name)
  BY DEF CreateTaskAdd, NameTaken, Structure, Named
<1>2. /\ tombstones' = tombstones /\ cleanups' = cleanups
      /\ reserved' = reserved /\ now' = now
      /\ \A n \in Name \ {task[t].Name} : tasks'[n] = tasks[n]
  BY <1>1 DEF CreateTaskAdd, TypeOK
<1>3. ~(reserved[task[t].Name] # None /\ now < reserved[task[t].Name])
  BY <1>1 DEF Tombstoned, Reservations, ReservedNamesFree
<1> QED
  BY <1>2, <1>3 DEF Reservations, ReservedNamesFree, TombstonesReclaimed

(* The timer of an older tombstone leaves a newer one alone, and the timer *)
(* that finds one expired was its last one only if it deletes it.          *)
LEMMA ReservationsCleanup ==
    ASSUME TypeOK, Reservations, NEW n \in Name, CleanupTombstone(n)
    PROVE  Reservations'
<1>1. PICK due \in cleanups[n] :
        /\ now >= due
        /\ cleanups' = [cleanups EXCEPT ![n] = @ \ {due}]
        /\ tombstones' = [tombstones EXCEPT ![n] = CleanedUp(n)]
        /\ tasks' = tasks /\ reserved' = reserved /\ now' = now
  BY DEF CleanupTombstone
<1>2. /\ due \in Int /\ now \in Int /\ cleanups[n] \subseteq Int
      /\ tombstones[n] \in Int \union {None}
  BY DEF TypeOK
<1>3. /\ tombstones'[n] = IF Tombstoned(n) THEN tombstones[n] ELSE None
      /\ cleanups'[n] = cleanups[n] \ {due}
      /\ \A m \in Name \ {n} :
           tombstones'[m] = tombstones[m] /\ cleanups'[m] = cleanups[m]
  BY <1>1 DEF TypeOK, CleanedUp
<1>4. ReservedNamesFree'
  BY <1>1, <1>3 DEF Reservations, ReservedNamesFree, Tombstoned
<1>5. ASSUME Tombstoned(n)
      PROVE  \E d \in cleanups[n] \ {due} : d >= tombstones[n]
  <2>1. PICK d \in cleanups[n] : d >= tombstones[n]
    BY <1>5 DEF Reservations, TombstonesReclaimed, Tombstoned
  <2>2. d # due
    BY <1>1, <1>2, <1>5, <2>1 DEF Tombstoned
  <2> QED
    BY <2>1, <2>2
<1>6. TombstonesReclaimed'
  BY <1>3, <1>5 DEF Reservations, TombstonesReclaimed
<1> QED
  BY <1>4, <1>6 DEF Reservations

(* A hard reset withdraws every promise, a deleted queue keeps them. *)
LEMMA ReservationsReset ==
    ASSUME TypeOK, Reservations, PurgeQueue \/ DeleteQueue
    PROVE  Reservations'
<1>1. now' = now /\ Discard(Listed)
  BY DEF PurgeQueue, DeleteQueue
<1>2. CASE DeleteQueue
  <2>1. \A n \in Name : tasks'[n] = None \/ tasks'[n] = tasks[n]
    BY <1>1 DEF Discard
  <2> QED
    BY <1>1, <1>2, <2>1
       DEF DeleteQueue, Reservations, ReservedNamesFree, TombstonesReclaimed
<1>3. CASE PurgeQueue /\ eng.hardResetOnPurge
  BY <1>3 DEF PurgeQueue, Reservations, ReservedNamesFree, TombstonesReclaimed
<1>4. CASE PurgeQueue /\ ~eng.hardResetOnPurge
  BY <1>1, <1>4, ReservationsRemove DEF PurgeQueue
<1> QED
  BY <1>2, <1>3, <1>4

(* Every step keeps what is said of names. *)
LEMMA ReservationsStep ==
    ASSUME TypeOK, Structure, Reservations, [Next]_vars
    PROVE  Reservations'
<1>0. now \in Int /\ now >= now
  BY DEF TypeOK
<1>1. ASSUME UNCHANGED nameVars, now' = now PROVE Reservations'
  BY <1>0, <1>1, ReservationsSame
<1>2. CASE UNCHANGED vars
  BY <1>1, <1>2 DEF vars
<1>3. ASSUME NEW t \in TaskState, CreateTask(t) PROVE Reservations'
  BY <1>1, <1>3, ReservationsAdd
     DEF CreateTask, CreateTaskLookup, CreateTaskRejected
<1>4. ASSUME NEW t \in TaskState, TTLTimerExpires(t) \/ Expire(t)
      PROVE  Reservations'
  BY <1>1, <1>4, ReservationsRemove DEF TTLTimerExpires, Expire, RemoveLocked
<1>5. ASSUME NEW w \in Driver, Fire(w) \/ AcquireSlot(w) PROVE Reservations'
  BY <1>1, <1>5
     DEF Fire, TimerExpires, FireRemoved, FireHeld, FirePass, AcquireSlot
<1>6. ASSUME NEW w \in Driver, Attempt(w) PROVE Reservations'
  <2>1. CASE \E outcome \in Outcomes : ApplyRemove(w, outcome)
    BY <2>1, ReservationsRemove DEF ApplyRemove, RemoveLocked
  <2> QED
    BY <1>1, <1>6, <2>1
       DEF Attempt, AttemptAborted, SnapshotAttempt, ApplyStale, ApplyRetry
<1>7. ASSUME NEW n \in Name, CleanupTombstone(n) \/ DeleteTask(n) \/ RunTask(n)
      PROVE  Reservations'
  BY <1>1, <1>7, ReservationsCleanup, ReservationsRemove
     DEF DeleteTask, RemoveLocked, RunTask
<1>8. CASE \/ \E st \in {"RUNNING", "PAUSED"} : SetQueueState(st)
           \/ \E new \in NewQueues, mask \in SUBSET Fields : UpdateQueue(new, mask)
  BY <1>1, <1>8 DEF SetQueueState, UpdateQueue
<1>9. CASE Tick
  BY <1>0, <1>9, ReservationsSame DEF Tick
<1> QED
  BY <1>2, <1>3, <1>4, <1>5, <1>6, <1>7, <1>8, <1>9, ReservationsReset DEF Next

(* A new queue reserves nothing. *)
LEMMA ReservationsInit == Init => Reservations
BY DEF Init, Reservations, ReservedNamesFree, TombstonesReclaimed

---------------------------------------------------------------------------
(* What a step does to the drivers, field by field *)

OthersSame(w) == \A v \in Driver \ {w} : drv'[v] = drv[v]

(* The driver goes on with its task, at another place. *)
MovesTo(w, pc) ==
    /\ OthersSame(w)
    /\ drv'[w].pc = pc
    /\ drv'[w].ts = drv[w].ts

Ends(w) == OthersSame(w) /\ drv'[w] = Idle

(* A timer expires, and fire(). *)
LEMMA FireMoves ==
    ASSUME TypeOK, NEW w \in Driver
    PROVE  /\ TimerExpires(w) => /\ MovesTo(w, "fired")
                                 /\ drv'[w].sem = drv[w].sem
           /\ FireRemoved(w) => Ends(w)
           /\ FireHeld(w) => /\ MovesTo(w, "armed")
                             /\ drv'[w].sem = NoSlot
                             /\ drv'[w].at = now + PollInterval
           /\ FirePass(w) => /\ MovesTo(w, "throttled")
                             /\ drv'[w].sem = gen
           /\ AcquireSlot(w) => /\ MovesTo(w, "attempt")
                                /\ drv'[w].sem = drv[w].sem
<1>1. drv \in [Driver -> Drivers] /\ drv[w] \in Drivers
  BY DEF TypeOK
<1>2. ASSUME NEW d, drv' = [drv EXCEPT ![w] = d]
      PROVE  OthersSame(w) /\ drv'[w] = d
  BY <1>1, <1>2 DEF OthersSame
<1>3. ASSUME TimerExpires(w)
      PROVE  MovesTo(w, "fired") /\ drv'[w].sem = drv[w].sem
  <2>1. drv' = [drv EXCEPT ![w] = [drv[w] EXCEPT !.pc = "fired"]]
    BY <1>3 DEF TimerExpires
  <2> QED
    BY <1>1, <1>2, <2>1 DEF MovesTo, Drivers
<1>4. ASSUME FireRemoved(w) PROVE Ends(w)
  BY <1>2, <1>4 DEF FireRemoved, Ends
<1>5. ASSUME FireHeld(w)
      PROVE  /\ MovesTo(w, "armed")
             /\ drv'[w].sem = NoSlot
             /\ drv'[w].at = now + PollInterval
  BY <1>2, <1>5 DEF FireHeld, Rearm, Armed, NewDriver, MovesTo
<1>6. ASSUME FirePass(w)
      PROVE  MovesTo(w, "throttled") /\ drv'[w].sem = gen
  <2>1. drv' = [drv EXCEPT ![w] = [drv[w] EXCEPT !.pc = "throttled", !.sem = gen]]
    BY <1>6 DEF FirePass
  <2> QED
    BY <1>1, <1>2, <2>1 DEF MovesTo, Drivers
<1>7. ASSUME AcquireSlot(w)
      PROVE  MovesTo(w, "attempt") /\ drv'[w].sem = drv[w].sem
  <2>1. drv' = [drv EXCEPT ![w] = [drv[w] EXCEPT !.pc = "attempt"]]
    BY <1>7 DEF AcquireSlot
  <2> QED
    BY <1>1, <1>2, <2>1 DEF MovesTo, Drivers
<1> QED
  BY <1>3, <1>4, <1>5, <1>6, <1>7

(* attempt(). *)
LEMMA AttemptMoves ==
    ASSUME TypeOK, NEW w \in Driver
    PROVE  /\ AttemptAborted(w) \/ ApplyStale(w) => Ends(w)
           /\ SnapshotAttempt(w) => /\ MovesTo(w, "dispatch")
                                    /\ drv'[w].sem = drv[w].sem
                                    /\ drv'[w].at = now
           /\ \A outcome \in Outcomes :
                ApplyRetry(w, outcome) =>
                  /\ MovesTo(w, "armed")
                  /\ drv'[w].sem = NoSlot
                  /\ drv'[w].at = task'[drv[w].ts].ScheduleTime
<1>1. drv \in [Driver -> Drivers] /\ drv[w] \in Drivers
  BY DEF TypeOK
<1>2. ASSUME NEW d, drv' = [drv EXCEPT ![w] = d]
      PROVE  OthersSame(w) /\ drv'[w] = d
  BY <1>1, <1>2 DEF OthersSame
<1>3. ASSUME AttemptAborted(w) \/ ApplyStale(w) PROVE Ends(w)
  BY <1>2, <1>3 DEF AttemptAborted, ApplyStale, Ends
<1>4. ASSUME SnapshotAttempt(w)
      PROVE  /\ MovesTo(w, "dispatch")
             /\ drv'[w].sem = drv[w].sem
             /\ drv'[w].at = now
  <2> DEFINE k == task[drv[w].ts].DispatchCount + 1
  <2>1. drv' = [drv EXCEPT ![w] = [drv[w] EXCEPT !.pc = "dispatch", !.at = now,
                                                 !.number = k]]
    BY <1>4 DEF SnapshotAttempt
  <2> HIDE DEF k
  <2> QED
    BY <1>1, <1>2, <2>1 DEF MovesTo, Drivers
<1>5. ASSUME NEW outcome \in Outcomes, ApplyRetry(w, outcome)
      PROVE  /\ MovesTo(w, "armed")
             /\ drv'[w].sem = NoSlot
             /\ drv'[w].at = task'[drv[w].ts].ScheduleTime
  BY <1>2, <1>5 DEF ApplyRetry, Rearm, Armed, NewDriver, MovesTo
<1> QED
  BY <1>3, <1>4, <1>5

(* Stopping timers ends armed drivers of those tasks, and no others. *)
LEMMA StopsArmed ==
    ASSUME TypeOK, Structure, NEW ds, NEW S \in SUBSET TaskState, NEW v \in Driver
    PROVE  \/ StopTimers(ds, S)[v] = ds[v]
           \/ /\ StopTimers(ds, S)[v] = Idle
              /\ AtPC(v, "armed") /\ drv[v].ts \in S
BY QueueAssumption DEF StopTimers, Structure, TimerPointer

(* A task leaves the queue: its armed driver is stopped, and w, if its      *)
(* attempt was the last one, ends.                                         *)
LEMMA RemoveMoves ==
    ASSUME TypeOK, Structure
    PROVE  /\ \A w \in Driver, outcome \in Outcomes :
                ApplyRemove(w, outcome) =>
                  /\ drv'[w] = Idle
                  /\ \A v \in Driver \ {w} :
                       \/ drv'[v] = drv[v]
                       \/ drv'[v] = Idle /\ AtPC(v, "armed") /\ drv[v].ts = drv[w].ts
           /\ \/ \E t \in TaskState : Expire(t)
              \/ \E n \in Name : DeleteTask(n)
              \/ PurgeQueue
              \/ DeleteQueue
              => \A v \in Driver :
                   drv'[v] = drv[v] \/ (drv'[v] = Idle /\ AtPC(v, "armed"))
<1>1. ASSUME NEW w \in Driver, NEW outcome \in Outcomes, ApplyRemove(w, outcome)
      PROVE  /\ drv'[w] = Idle
             /\ \A v \in Driver \ {w} :
                  \/ drv'[v] = drv[v]
                  \/ drv'[v] = Idle /\ AtPC(v, "armed") /\ drv[v].ts = drv[w].ts
  <2>1. drv[w].ts \in TaskState /\ AtPC(w, "dispatch")
    BY <1>1 DEF ApplyRemove, Structure, DriverTarget, AtPC
  <2> DEFINE ds == [drv EXCEPT ![w] = Idle]
  <2>2. /\ drv' = StopTimers(ds, {drv[w].ts})
        /\ ds[w] = Idle
        /\ \A v \in Driver \ {w} : ds[v] = drv[v]
    BY <1>1 DEF ApplyRemove, RemoveLocked, TypeOK
  <2> HIDE DEF ds
  <2>3. {drv[w].ts} \in SUBSET TaskState
    BY <2>1
  <2>4. \A v \in Driver :
          \/ drv'[v] = ds[v]
          \/ drv'[v] = Idle /\ AtPC(v, "armed") /\ drv[v].ts \in {drv[w].ts}
    BY <2>2, <2>3, StopsArmed
  <2> QED
    BY <2>2, <2>4
<1>2. ASSUME NEW S \in SUBSET TaskState, drv' = StopTimers(drv, S), NEW v \in Driver
      PROVE  drv'[v] = drv[v] \/ (drv'[v] = Idle /\ AtPC(v, "armed"))
  BY <1>2, StopsArmed
<1>3. Listed \in SUBSET TaskState
  BY DEF Listed, TypeOK
<1>4. ASSUME \/ \E t \in TaskState : Expire(t)
             \/ \E n \in Name : DeleteTask(n)
             \/ PurgeQueue
             \/ DeleteQueue
      PROVE  \E S \in SUBSET TaskState : drv' = StopTimers(drv, S) \/ drv' = drv
  <2>1. ASSUME NEW t \in TaskState, Expire(t)
        PROVE  drv' = StopTimers(drv, {t}) \/ drv' = drv
    BY <2>1 DEF Expire, RemoveLocked
  <2>2. ASSUME NEW n \in Name, DeleteTask(n)
        PROVE  tasks[n] \in TaskState /\ drv' = StopTimers(drv, {tasks[n]})
    BY <2>2 DEF DeleteTask, RemoveLocked, TypeOK
  <2>3. ASSUME PurgeQueue \/ DeleteQueue PROVE drv' = StopTimers(drv, Listed)
    BY <2>3 DEF PurgeQueue, DeleteQueue
  <2> QED
    BY <1>3, <1>4, <2>1, <2>2, <2>3
<1> QED
  BY <1>1, <1>2, <1>4

(* CreateTask gives a push task an idle driver, RunTask one that was armed *)
(* for the task, or an idle one.                                           *)
LEMMA CallMoves ==
    ASSUME TypeOK, Structure
    PROVE  /\ \A t \in TaskState : CreateTaskAdd(t) =>
                \/ drv' = drv
                \/ \E w \in Driver :
                     /\ AtPC(w, "idle") /\ OthersSame(w)
                     /\ drv'[w].pc = "armed" /\ drv'[w].ts = t
                     /\ drv'[w].sem = NoSlot
                     /\ drv'[w].at = task[t].ScheduleTime
           /\ \A n \in Name : RunTask(n) =>
                /\ tasks[n] \in TaskState
                /\ \E w \in Driver :
                     /\ OthersSame(w)
                     /\ drv'[w].pc = "attempt" /\ drv'[w].ts = tasks[n]
                     /\ drv'[w].sem = NoSlot
                     /\ \/ AtPC(w, "armed") /\ drv[w].ts = tasks[n]
                           /\ forked' = forked
                        \/ AtPC(w, "idle") /\ forked' = forked \union {tasks[n]}
<1>1. drv \in [Driver -> Drivers]
  BY DEF TypeOK
<1>2. ASSUME NEW w \in Driver, NEW d, drv' = [drv EXCEPT ![w] = d]
      PROVE  OthersSame(w) /\ drv'[w] = d
  BY <1>1, <1>2 DEF OthersSame
<1>3. ASSUME NEW t \in TaskState, CreateTaskAdd(t), drv' # drv
      PROVE  \E w \in Driver :
               /\ AtPC(w, "idle") /\ OthersSame(w)
               /\ drv'[w].pc = "armed" /\ drv'[w].ts = t
               /\ drv'[w].sem = NoSlot
               /\ drv'[w].at = task[t].ScheduleTime
  <2>1. PICK w \in Driver :
          AtPC(w, "idle") /\ drv' = [drv EXCEPT ![w] = Armed(t, task[t].ScheduleTime)]
    BY <1>3 DEF CreateTaskAdd, Schedule, IdleDrivers
  <2>2. OthersSame(w) /\ drv'[w] = Armed(t, task[t].ScheduleTime)
    BY <1>2, <2>1
  <2> QED
    BY <2>1, <2>2 DEF Armed, NewDriver
<1>4. ASSUME NEW n \in Name, RunTask(n)
      PROVE  /\ tasks[n] \in TaskState
             /\ \E w \in Driver :
                  /\ OthersSame(w)
                  /\ drv'[w].pc = "attempt" /\ drv'[w].ts = tasks[n]
                  /\ drv'[w].sem = NoSlot
                  /\ \/ AtPC(w, "armed") /\ drv[w].ts = tasks[n]
                        /\ forked' = forked
                     \/ AtPC(w, "idle") /\ forked' = forked \union {tasks[n]}
  <2>1. tasks[n] \in TaskState
    BY <1>4 DEF RunTask, TypeOK
  <2>2. PICK w \in RunDrivers(tasks[n]) : drv' = [drv EXCEPT ![w] = Running(tasks[n])]
    BY <1>4 DEF RunTask
  <2>3. forked' = IF timer[tasks[n]] = None
                  THEN forked \union {tasks[n]} ELSE forked
    BY <1>4 DEF RunTask
  <2>4. /\ w \in Driver
        /\ \/ AtPC(w, "armed") /\ drv[w].ts = tasks[n] /\ timer[tasks[n]] # None
           \/ AtPC(w, "idle") /\ timer[tasks[n]] = None
    BY <2>1, <2>2 DEF RunDrivers, IdleDrivers, Structure, TimerPointer, TypeOK
  <2>5. OthersSame(w) /\ drv'[w] = Running(tasks[n])
    BY <1>2, <2>2, <2>4
  <2>6. /\ drv'[w].pc = "attempt" /\ drv'[w].ts = tasks[n]
        /\ drv'[w].sem = NoSlot
    BY <2>5 DEF Running, NewDriver
  <2> QED
    BY <2>1, <2>3, <2>4, <2>5, <2>6
<1> QED
  BY <1>3, <1>4

---------------------------------------------------------------------------
(* Concurrency slots *)

(***************************************************************************)
(* A semaphore that was not made yet has no slot.  It is made with none    *)
(* taken: that is what SlotsAccounted needs when UpdateQueue replaces one. *)
(***************************************************************************)
FreshSemaphores == \A g \in Generation : g > gen => capacity[g] = 0

Slotted == SlotsAccounted /\ FreshSemaphores

HasSlot(w, g) == drv[w].sem = g /\ drv[w].pc \in {"attempt", "dispatch"}

(* The drivers that hold a slot can be counted. *)
LEMMA HoldersCount ==
    ASSUME NEW g
    PROVE  /\ IsFiniteSet(Holders(g))
           /\ Cardinality(Holders(g)) \in Nat
BY FS_Subset, FS_CardinalityType, QueueAssumption DEF Holders

(* A step in which nobody takes or returns a slot. *)
LEMMA SlotsSame ==
    ASSUME TypeOK, Slotted, inUse' = inUse,
           \A v \in Driver, g \in Generation : HasSlot(v, g)' <=> HasSlot(v, g),
           \/ gen' = gen /\ capacity' = capacity
           \/ /\ gen < MaxUpdates /\ gen' = gen + 1
              /\ \E k \in Nat : capacity' = [capacity EXCEPT ![gen + 1] = k]
    PROVE  Slotted'
<1>1. ASSUME NEW g \in Generation PROVE Holders(g)' = Holders(g)
  BY DEF Holders, HasSlot
<1>2. CASE gen' = gen /\ capacity' = capacity
  BY <1>1, <1>2 DEF Slotted, SlotsAccounted, FreshSemaphores
<1>3. ASSUME gen < MaxUpdates, gen' = gen + 1,
             NEW k \in Nat, capacity' = [capacity EXCEPT ![gen + 1] = k]
      PROVE  Slotted'
  <2>1. /\ gen \in Nat /\ gen + 1 \in Generation /\ gen + 1 > gen
        /\ \A g \in Generation : g \in Int
    BY <1>3, QueueAssumption DEF TypeOK, Generation
  <2>2. /\ capacity'[gen + 1] = k
        /\ \A g \in Generation \ {gen + 1} : capacity'[g] = capacity[g]
    BY <1>3, <2>1 DEF TypeOK
  <2>3. inUse[gen + 1] <= 0 /\ inUse[gen + 1] \in Int
    BY <2>1 DEF Slotted, SlotsAccounted, FreshSemaphores, TypeOK
  <2>4. SlotsAccounted'
    <3> SUFFICES ASSUME NEW g \in Generation
                 PROVE  /\ inUse'[g] = Cardinality(Holders(g)')
                        /\ inUse'[g] <= capacity'[g]
      BY DEF SlotsAccounted
    <3>1. inUse'[g] = Cardinality(Holders(g)')
      BY <1>1 DEF Slotted, SlotsAccounted
    <3>2. inUse'[g] <= capacity'[g]
      BY <2>1, <2>2, <2>3 DEF Slotted, SlotsAccounted
    <3> QED
      BY <3>1, <3>2
  <2>5. FreshSemaphores'
    <3> SUFFICES ASSUME NEW g \in Generation, g > gen + 1
                 PROVE  capacity'[g] = 0
      BY <1>3 DEF FreshSemaphores
    <3>1. g > gen /\ g # gen + 1
      BY <2>1
    <3> QED
      BY <2>2, <3>1 DEF Slotted, FreshSemaphores
  <2> QED
    BY <2>4, <2>5 DEF Slotted
<1> QED
  BY <1>2, <1>3

(* A driver that waited for its semaphore gets a slot. *)
LEMMA SlotTaken ==
    ASSUME TypeOK, Structure, Slotted, NEW w \in Driver, AcquireSlot(w)
    PROVE  Slotted'
<1>0. PICK h \in Generation : h = drv[w].sem
  BY QueueAssumption
     DEF AcquireSlot, Structure, DriverTarget, AtPC, TypeOK, Generation
<1>1. ~HasSlot(w, h)
  BY DEF AcquireSlot, AtPC, HasSlot
<1>2. /\ OthersSame(w) /\ drv'[w].sem = h /\ drv'[w].pc = "attempt"
      /\ drv[w].pc = "throttled"
  BY <1>0, FireMoves DEF AcquireSlot, MovesTo, AtPC
<1>3. /\ inUse' = [inUse EXCEPT ![h] = @ + 1] /\ inUse[h] < capacity[h]
      /\ gen' = gen /\ capacity' = capacity
  BY <1>0 DEF AcquireSlot, qVars
<1>4. /\ inUse'[h] = inUse[h] + 1
      /\ \A g \in Generation \ {h} : inUse'[g] = inUse[g]
      /\ inUse[h] \in Int /\ capacity[h] \in Int
  BY <1>1, <1>3 DEF TypeOK
<1>5. Holders(h)' = Holders(h) \union {w} /\ w \notin Holders(h)
  BY <1>0, <1>1, <1>2 DEF Holders, OthersSame, HasSlot
<1>6. \A g \in Generation \ {h} : Holders(g)' = Holders(g)
  BY <1>0, <1>2 DEF Holders, OthersSame
<1>7. Cardinality(Holders(h)') = Cardinality(Holders(h)) + 1
  BY <1>5, HoldersCount, FS_AddElement
<1>8. SlotsAccounted'
  <2> SUFFICES ASSUME NEW g \in Generation
               PROVE  /\ inUse'[g] = Cardinality(Holders(g)')
                      /\ inUse'[g] <= capacity'[g]
    BY DEF SlotsAccounted
  <2>1. CASE g = h
    BY <1>3, <1>4, <1>7, <2>1 DEF Slotted, SlotsAccounted
  <2>2. CASE g # h
    BY <1>3, <1>4, <1>6, <2>2 DEF Slotted, SlotsAccounted
  <2> QED
    BY <2>1, <2>2
<1>9. FreshSemaphores'
  BY <1>3 DEF Slotted, FreshSemaphores
<1> QED
  BY <1>8, <1>9 DEF Slotted

(* An attempt ends: its slot, if it had one, goes back where it came from. *)
LEMMA SlotReturned ==
    ASSUME TypeOK, Structure, Slotted, NEW w \in Driver,
           drv[w].pc \in {"attempt", "dispatch"}, ReleaseSlot(w),
           drv'[w].sem = NoSlot,
           \A v \in Driver \ {w} :
             drv'[v] = drv[v] \/ (drv'[v] = Idle /\ AtPC(v, "armed")),
           gen' = gen, capacity' = capacity
    PROVE  Slotted'
<1>0. NoSlot \notin Generation
  BY DEF NoSlot, Generation
<1>1. \A v \in Driver \ {w}, g \in Generation : HasSlot(v, g)' <=> HasSlot(v, g)
  BY <1>0, IdleFields DEF HasSlot, AtPC
<1>2. \A g \in Generation : ~HasSlot(w, g)'
  BY <1>0 DEF HasSlot
<1>3. CASE drv[w].sem = NoSlot
  <2>1. \A v \in Driver, g \in Generation : HasSlot(v, g)' <=> HasSlot(v, g)
    BY <1>0, <1>1, <1>2, <1>3 DEF HasSlot
  <2>2. inUse' = inUse
    BY <1>3 DEF ReleaseSlot
  <2> QED
    BY <2>1, <2>2, SlotsSame
<1>4. CASE drv[w].sem # NoSlot
  <2>0. PICK h \in Generation : h = drv[w].sem
    BY <1>4 DEF TypeOK, Drivers
  <2>1. w \in Holders(h)
    BY <2>0 DEF Holders
  <2>2. inUse' = [inUse EXCEPT ![h] = @ - 1]
    BY <1>4, <2>0 DEF ReleaseSlot
  <2>3. Holders(h)' = Holders(h) \ {w}
    BY <1>1, <1>2, <2>1 DEF Holders, HasSlot
  <2>4. \A g \in Generation \ {h} : Holders(g)' = Holders(g)
    BY <1>1, <1>2, <2>0 DEF Holders, HasSlot
  <2>5. /\ inUse'[h] = inUse[h] - 1
        /\ \A g \in Generation \ {h} : inUse'[g] = inUse[g]
        /\ inUse[h] \in Int /\ capacity[h] \in Int
    BY <2>1, <2>2 DEF TypeOK
  <2>6. Cardinality(Holders(h)') = Cardinality(Holders(h)) - 1
    BY <2>1, <2>3, HoldersCount, FS_RemoveElement
  <2>7. SlotsAccounted'
    <3> SUFFICES ASSUME NEW g \in Generation
                 PROVE  /\ inUse'[g] = Cardinality(Holders(g)')
                        /\ inUse'[g] <= capacity'[g]
      BY DEF SlotsAccounted
    <3>1. CASE g = h
      BY <2>5, <2>6, <3>1 DEF Slotted, SlotsAccounted
    <3>2. CASE g # h
      BY <2>4, <2>5, <3>2 DEF Slotted, SlotsAccounted
    <3> QED
      BY <3>1, <3>2
  <2>8. FreshSemaphores'
    BY DEF Slotted, FreshSemaphores
  <2> QED
    BY <2>7, <2>8 DEF Slotted
<1> QED
  BY <1>3, <1>4

(* Every step keeps the slots accounted for. *)
LEMMA SlottedStep ==
    ASSUME TypeOK, Structure, Slotted, [Next]_vars
    PROVE  Slotted'
<1>0. NoSlot \notin Generation
  BY DEF NoSlot, Generation
(* Steps in which every driver that changes has no slot before and after. *)
<1>1. ASSUME inUse' = inUse, gen' = gen, capacity' = capacity,
             \A v \in Driver :
               \/ drv'[v] = drv[v]
               \/ /\ drv[v].pc \in {"idle", "armed", "fired"}
                  /\ drv'[v].sem = NoSlot \/ drv'[v].pc = "throttled"
      PROVE  Slotted'
  <2>1. \A v \in Driver, g \in Generation : HasSlot(v, g)' <=> HasSlot(v, g)
    BY <1>0, <1>1 DEF HasSlot
  <2> QED
    BY <1>1, <2>1, SlotsSame
<1>2. CASE UNCHANGED vars
  BY <1>1, <1>2 DEF vars, qVars
<1>3. ASSUME NEW t \in TaskState, CreateTask(t) PROVE Slotted'
  <2>1. inUse' = inUse /\ gen' = gen /\ capacity' = capacity
    BY <1>3 DEF CreateTask, CreateTaskLookup, CreateTaskRejected, CreateTaskAdd, qVars
  <2>2. CASE CreateTaskAdd(t)
    BY <1>1, <2>1, <2>2, CallMoves DEF OthersSame, AtPC
  <2>3. CASE ~CreateTaskAdd(t)
    BY <1>1, <1>3, <2>1, <2>3 DEF CreateTask, CreateTaskLookup, CreateTaskRejected
  <2> QED
    BY <2>2, <2>3
<1>4. CASE \/ \E t \in TaskState : TTLTimerExpires(t)
           \/ \E n \in Name : CleanupTombstone(n)
           \/ \E st \in {"RUNNING", "PAUSED"} : SetQueueState(st)
           \/ Tick
  BY <1>1, <1>4 DEF TTLTimerExpires, CleanupTombstone, SetQueueState, Tick, qVars
<1>5. CASE \/ \E t \in TaskState : Expire(t)
           \/ \E n \in Name : DeleteTask(n)
           \/ PurgeQueue
           \/ DeleteQueue
  <2>1. inUse' = inUse /\ gen' = gen /\ capacity' = capacity
    BY <1>5 DEF Expire, DeleteTask, PurgeQueue, DeleteQueue, qVars
  <2>2. \A v \in Driver : drv'[v] = drv[v] \/ (drv'[v] = Idle /\ AtPC(v, "armed"))
    BY <1>5, RemoveMoves
  <2> QED
    BY <1>1, <2>1, <2>2, IdleFields DEF AtPC
<1>6. ASSUME NEW w \in Driver, Fire(w) PROVE Slotted'
  <2>1. inUse' = inUse /\ gen' = gen /\ capacity' = capacity
    BY <1>6 DEF Fire, TimerExpires, FireRemoved, FireHeld, FirePass, qVars
  <2>2. drv[w].pc \in {"armed", "fired"} /\ drv[w].sem = NoSlot
    BY <1>6 DEF Fire, TimerExpires, FireRemoved, FireHeld, FirePass, AtPC,
                Structure, DriverTarget
  <2>3. /\ OthersSame(w)
        /\ drv'[w].sem = NoSlot \/ drv'[w].pc = "throttled"
    BY <1>6, <2>2, FireMoves, IdleFields DEF Fire, MovesTo, Ends
  <2> QED
    BY <1>1, <2>1, <2>2, <2>3 DEF OthersSame
<1>7. ASSUME NEW w \in Driver, Attempt(w) PROVE Slotted'
  <2>1. gen' = gen /\ capacity' = capacity
    BY <1>7 DEF Attempt, AttemptAborted, SnapshotAttempt, ApplyStale, ApplyRemove,
                ApplyRetry, qVars
  <2>2. drv[w].pc \in {"attempt", "dispatch"}
    BY <1>7 DEF Attempt, AttemptAborted, SnapshotAttempt, ApplyStale, ApplyRemove,
                ApplyRetry, AtPC
  <2>3. CASE AttemptAborted(w) \/ ApplyStale(w)
    <3>1. ReleaseSlot(w) /\ Ends(w)
      BY <2>3, AttemptMoves DEF AttemptAborted, ApplyStale
    <3> QED
      BY <2>1, <2>2, <3>1, SlotReturned, IdleFields DEF Ends, OthersSame
  <2>4. CASE SnapshotAttempt(w)
    <3>1. /\ inUse' = inUse /\ OthersSame(w)
          /\ drv'[w].sem = drv[w].sem /\ drv'[w].pc = "dispatch"
      BY <2>4, AttemptMoves DEF SnapshotAttempt, MovesTo
    <3>2. \A v \in Driver, g \in Generation : HasSlot(v, g)' <=> HasSlot(v, g)
      BY <2>2, <3>1 DEF HasSlot, OthersSame
    <3> QED
      BY <2>1, <3>1, <3>2, SlotsSame
  <2>5. ASSUME NEW outcome \in Outcomes, ApplyRemove(w, outcome) PROVE Slotted'
    <3>1. ReleaseSlot(w)
      BY <2>5 DEF ApplyRemove
    <3>2. /\ drv'[w] = Idle
          /\ \A v \in Driver \ {w} :
               drv'[v] = drv[v] \/ (drv'[v] = Idle /\ AtPC(v, "armed"))
      BY <2>5, RemoveMoves
    <3> QED
      BY <2>1, <2>2, <3>1, <3>2, SlotReturned, IdleFields
  <2>6. ASSUME NEW outcome \in Outcomes, ApplyRetry(w, outcome) PROVE Slotted'
    <3>1. ReleaseSlot(w) /\ OthersSame(w) /\ drv'[w].sem = NoSlot
      BY <2>6, AttemptMoves DEF ApplyRetry, MovesTo
    <3> QED
      BY <2>1, <2>2, <3>1, SlotReturned DEF OthersSame
  <2> QED
    BY <1>7, <2>3, <2>4, <2>5, <2>6 DEF Attempt
<1>8. ASSUME NEW n \in Name, RunTask(n) PROVE Slotted'
  <2>1. inUse' = inUse /\ gen' = gen /\ capacity' = capacity
    BY <1>8 DEF RunTask, qVars
  <2> QED
    BY <1>1, <1>8, <2>1, CallMoves DEF OthersSame, AtPC
<1>9. ASSUME NEW new \in NewQueues, NEW mask \in SUBSET Fields,
             UpdateQueue(new, mask)
      PROVE  Slotted'
  <2>1. TypeOK'
    BY <1>9, TypeQueueCalls
  <2>2. Slots(q') \in Nat
    BY <2>1, SlotsType DEF TypeOK
  <2>3. /\ gen < MaxUpdates /\ gen' = gen + 1 /\ inUse' = inUse /\ drv' = drv
        /\ capacity' = [capacity EXCEPT ![gen + 1] = Slots(q')]
    BY <1>9 DEF UpdateQueue
  <2>4. \A v \in Driver, g \in Generation : HasSlot(v, g)' <=> HasSlot(v, g)
    BY <2>3 DEF HasSlot
  <2> QED
    BY <2>2, <2>3, <2>4, SlotsSame
<1> QED
  BY <1>2, <1>3, <1>4, <1>5, <1>6, <1>7, <1>8, <1>9, SlotTaken DEF Next

(* A new queue has its first semaphore and nobody in it. *)
LEMMA SlottedInit == Init => Slotted
<1> SUFFICES ASSUME Init PROVE Slotted
  OBVIOUS
<1>1. \A g \in Generation : Holders(g) = {}
  BY IdleFields DEF Init, Holders
<1>2. TypeOK
  BY TypeInit
<1>3. \A g \in Generation : capacity[g] \in Nat /\ inUse[g] = 0 /\ g \in Int
  BY <1>2, QueueAssumption DEF Init, TypeOK, Generation
<1>4. SlotsAccounted
  BY <1>1, <1>3, FS_EmptySet DEF SlotsAccounted
<1>5. FreshSemaphores
  BY <1>3 DEF Init, FreshSemaphores
<1> QED
  BY <1>4, <1>5 DEF Slotted

---------------------------------------------------------------------------
(* Pauses *)

(* What is held is forgotten when the queue is resumed (ResumeQueue). *)
HeldInPause == q.State = "RUNNING" => held = {}

Pausing == HeldNotDispatched /\ HeldInPause

(* A step that holds no other task and in which no driver gets a slot. *)
LEMMA PausingSame ==
    ASSUME Pausing, held' = held, forked \subseteq forked', q'.State = q.State,
           \A v \in Driver :
             \/ drv'[v].sem = NoSlot
             \/ drv'[v].ts = drv[v].ts /\ drv'[v].sem = drv[v].sem
    PROVE  Pausing'
BY DEF Pausing, HeldNotDispatched, HeldInPause

(* Every step keeps the held tasks from being dispatched by a timer. *)
LEMMA PausingStep ==
    ASSUME TypeOK, Structure, Pausing, [Next]_vars
    PROVE  Pausing'
<1>0. None \notin TaskState /\ q \in Queues /\ forked \subseteq forked
  BY QueueAssumption DEF TypeOK
<1>1. CASE UNCHANGED vars
  BY <1>1, PausingSame DEF vars, qVars
<1>2. ASSUME NEW t \in TaskState, CreateTask(t) PROVE Pausing'
  <2>1. CASE CreateTaskAdd(t)
    <3>1. /\ q' = q /\ forked' = forked
          /\ held' = IF q.State # "RUNNING" THEN held \union {t} ELSE held
      BY <2>1 DEF CreateTaskAdd, qVars
    <3>2. \A v \in Driver : drv[v].ts # t
      BY <1>0, <2>1 DEF CreateTaskAdd, Structure, DriverTarget
    <3>3. \A v \in Driver : drv'[v] = drv[v] \/ drv'[v].sem = NoSlot
      BY <2>1, CallMoves DEF OthersSame
    <3> QED
      BY <3>1, <3>2, <3>3 DEF Pausing, HeldNotDispatched, HeldInPause
  <2>2. CASE ~CreateTaskAdd(t)
    BY <1>0, <1>2, <2>2, PausingSame
       DEF CreateTask, CreateTaskLookup, CreateTaskRejected, qVars
  <2> QED
    BY <2>1, <2>2
<1>3. CASE \/ \E t \in TaskState : TTLTimerExpires(t)
           \/ \E n \in Name : CleanupTombstone(n)
           \/ Tick
  BY <1>0, <1>3, PausingSame DEF TTLTimerExpires, CleanupTombstone, Tick, qVars
<1>4. CASE \/ \E t \in TaskState : Expire(t)
           \/ \E n \in Name : DeleteTask(n)
           \/ PurgeQueue
           \/ DeleteQueue
  <2>1. held' = held /\ forked' = forked /\ q' = q
    BY <1>4 DEF Expire, DeleteTask, PurgeQueue, DeleteQueue, qVars
  <2>2. \A v \in Driver : drv'[v] = drv[v] \/ drv'[v] = Idle
    BY <1>4, RemoveMoves
  <2> QED
    BY <1>0, <2>1, <2>2, IdleFields, PausingSame
<1>5. ASSUME NEW w \in Driver, Fire(w) \/ AcquireSlot(w) PROVE Pausing'
  <2>1. q' = q /\ forked' = forked
    BY <1>5 DEF Fire, TimerExpires, FireRemoved, FireHeld, FirePass,
                AcquireSlot, qVars
  <2>2. CASE TimerExpires(w) \/ FireRemoved(w) \/ AcquireSlot(w)
    <3>1. held' = held
      BY <2>2 DEF TimerExpires, FireRemoved, AcquireSlot
    <3>2. /\ OthersSame(w)
          /\ \/ drv'[w].sem = NoSlot
             \/ drv'[w].ts = drv[w].ts /\ drv'[w].sem = drv[w].sem
      BY <2>2, FireMoves, IdleFields DEF MovesTo, Ends
    <3> QED
      BY <1>0, <2>1, <3>1, <3>2, PausingSame DEF OthersSame
  <2>3. CASE FireHeld(w)
    <3>1. /\ held' = held \union {drv[w].ts}
          /\ q.State # "RUNNING" /\ drv[w].ts \in TaskState
      BY <2>3 DEF FireHeld, Holding, Structure, DriverTarget, AtPC
    <3>2. OthersSame(w) /\ drv'[w].sem = NoSlot /\ drv'[w].ts = drv[w].ts
      BY <2>3, FireMoves DEF MovesTo
    <3>3. ASSUME NEW v \in Driver, drv'[v].ts \in held' \ forked'
          PROVE  drv'[v].sem = NoSlot
      <4>1. CASE v = w
        BY <3>2, <4>1
      <4>2. CASE v # w
        <5>1. drv'[v] = drv[v] /\ drv[v].ts \notin forked
          BY <2>1, <3>2, <3>3, <4>2 DEF OthersSame
        <5>2. drv[v].ts # drv[w].ts
          BY <3>1, <4>2, <5>1 DEF Structure, SingleChain
        <5> QED
          BY <3>1, <3>3, <5>1, <5>2 DEF Pausing, HeldNotDispatched
      <4> QED
        BY <4>1, <4>2
    <3> QED
      BY <2>1, <3>1, <3>3 DEF Pausing, HeldNotDispatched, HeldInPause
  <2>4. CASE FirePass(w)
    <3>1. q.State = "RUNNING" /\ held' = held
      BY <1>0, <2>4 DEF FirePass, Holding, Queues
    <3> QED
      BY <2>1, <3>1 DEF Pausing, HeldNotDispatched, HeldInPause
  <2> QED
    BY <1>5, <2>2, <2>3, <2>4 DEF Fire
<1>6. ASSUME NEW w \in Driver, Attempt(w) PROVE Pausing'
  <2>1. held' = held /\ q' = q /\ forked' = forked
    BY <1>6 DEF Attempt, AttemptAborted, SnapshotAttempt, ApplyStale, ApplyRemove,
                ApplyRetry, qVars
  <2>2. \A v \in Driver :
          \/ drv'[v].sem = NoSlot
          \/ drv'[v].ts = drv[v].ts /\ drv'[v].sem = drv[v].sem
    <3>1. CASE \E outcome \in Outcomes : ApplyRemove(w, outcome)
      BY <3>1, RemoveMoves, IdleFields
    <3>2. CASE ~\E outcome \in Outcomes : ApplyRemove(w, outcome)
      BY <1>6, <3>2, AttemptMoves, IdleFields DEF Attempt, MovesTo, Ends, OthersSame
    <3> QED
      BY <3>1, <3>2
  <2> QED
    BY <1>0, <2>1, <2>2, PausingSame
<1>7. ASSUME NEW n \in Name, RunTask(n) PROVE Pausing'
  <2>1. held' = held /\ q' = q /\ forked \subseteq forked'
    BY <1>7 DEF RunTask, qVars
  <2> QED
    BY <1>7, <2>1, CallMoves, PausingSame DEF OthersSame
<1>8. ASSUME NEW st \in {"RUNNING", "PAUSED"}, SetQueueState(st) PROVE Pausing'
  <2>1. /\ q'.State = st /\ drv' = drv /\ forked' = forked
        /\ held' = IF st = "RUNNING" THEN {} ELSE held
    BY <1>0, <1>8 DEF SetQueueState, Queues
  <2> QED
    BY <1>8, <2>1 DEF Pausing, HeldNotDispatched, HeldInPause
<1>9. ASSUME NEW new \in NewQueues, NEW mask \in SUBSET Fields,
             UpdateQueue(new, mask)
      PROVE  Pausing'
  <2>1. q'.State = q.State
    BY <1>0, <1>9 DEF UpdateQueue, ApplyQueueDefaults, Queues
  <2> QED
    BY <1>0, <1>9, <2>1, PausingSame DEF UpdateQueue
<1> QED
  BY <1>1, <1>2, <1>3, <1>4, <1>5, <1>6, <1>7, <1>8, <1>9 DEF Next

---------------------------------------------------------------------------
(* Schedule times *)

(***************************************************************************)
(* No driver is ahead of its task's schedule time: its timer is armed for  *)
(* that time or later, once the timer has expired the time has come, and   *)
(* an attempt was started then or later.                                   *)
(***************************************************************************)
OnTime(w) ==
    LET due == task[drv[w].ts].ScheduleTime IN
    drv[w].ts \in TaskState \ forked =>
        /\ AtPC(w, "armed") => drv[w].at >= due
        /\ drv[w].pc \in {"fired", "throttled", "attempt"} => now >= due
        /\ AtPC(w, "dispatch") => drv[w].at >= due

Punctual == \A w \in Driver : OnTime(w)

(* A step that leaves drivers and schedule times alone, or ends drivers. *)
LEMMA PunctualSame ==
    ASSUME TypeOK, Punctual, now' \in Int, now' >= now, forked' = forked,
           \A v \in Driver : drv'[v] = drv[v] \/ drv'[v] = Idle,
           \A v \in Driver :
             drv[v].ts \in TaskState =>
               task'[drv[v].ts].ScheduleTime = task[drv[v].ts].ScheduleTime
    PROVE  Punctual'
<1> SUFFICES ASSUME NEW v \in Driver, drv'[v].ts \in TaskState \ forked'
             PROVE  OnTime(v)'
  BY DEF Punctual, OnTime
<1>1. drv'[v] = drv[v]
  BY IdleFields, QueueAssumption
<1>2. /\ drv[v].ts \in TaskState \ forked
      /\ task'[drv[v].ts].ScheduleTime = task[drv[v].ts].ScheduleTime
      /\ task[drv[v].ts].ScheduleTime \in Int /\ now \in Int
  BY <1>1 DEF TypeOK, Tasks
<1>3. OnTime(v)
  BY DEF Punctual
<1> QED
  BY <1>1, <1>2, <1>3 DEF OnTime, AtPC

(* A step of the driver w, alone with its task. *)
LEMMA PunctualDriver ==
    ASSUME TypeOK, Punctual, NEW w \in Driver, OthersSame(w), now' = now,
           forked \subseteq forked', OnTime(w)',
           \A v \in Driver \ {w} :
             drv[v].ts \in TaskState \ forked' =>
               task'[drv[v].ts].ScheduleTime = task[drv[v].ts].ScheduleTime
    PROVE  Punctual'
<1> SUFFICES ASSUME NEW v \in Driver, drv'[v].ts \in TaskState \ forked', v # w
             PROVE  OnTime(v)'
  BY DEF Punctual, OnTime
<1>1. drv'[v] = drv[v]
  BY DEF OthersSame
<1>2. OnTime(v)
  BY DEF Punctual
<1> QED
  BY <1>1, <1>2 DEF OnTime, AtPC

(* A timer that expires, fire and the wait for a slot keep to the time. *)
LEMMA PunctualFire ==
    ASSUME TypeOK, Structure, Punctual, NEW w \in Driver, Fire(w) \/ AcquireSlot(w)
    PROVE  Punctual'
<1>0. /\ drv[w].ts \in TaskState /\ task[drv[w].ts].ScheduleTime \in Int
      /\ drv[w].at \in Int /\ now \in Int /\ PollInterval \in Nat
  BY QueueAssumption
     DEF Fire, TimerExpires, FireRemoved, FireHeld, FirePass, AcquireSlot, AtPC,
         Structure, DriverTarget, TypeOK, Tasks, Drivers
<1>1. task' = task /\ now' = now /\ forked' = forked
  BY DEF Fire, TimerExpires, FireRemoved, FireHeld, FirePass, AcquireSlot, taskVars
<1>2. OnTime(w)
  BY DEF Punctual
<1>3. OthersSame(w)
  BY FireMoves DEF Fire, MovesTo, Ends
<1>4. CASE TimerExpires(w)
  <2>1. AtPC(w, "armed") /\ now >= drv[w].at
    BY <1>4 DEF TimerExpires
  <2>2. drv'[w].pc = "fired" /\ drv'[w].ts = drv[w].ts
    BY <1>4, FireMoves DEF MovesTo
  <2>3. OnTime(w)'
    BY <1>0, <1>1, <1>2, <2>1, <2>2 DEF OnTime, AtPC
  <2> QED
    BY <1>1, <1>3, <2>3, PunctualDriver
<1>5. CASE FireRemoved(w)
  <2>1. OnTime(w)'
    BY <1>5, FireMoves, IdleFields, QueueAssumption DEF Ends, OnTime
  <2> QED
    BY <1>1, <1>3, <2>1, PunctualDriver
<1>6. CASE FireHeld(w)
  <2>1. AtPC(w, "fired")
    BY <1>6 DEF FireHeld
  <2>2. /\ drv'[w].pc = "armed" /\ drv'[w].ts = drv[w].ts
        /\ drv'[w].at = now + PollInterval
    BY <1>6, FireMoves DEF MovesTo
  <2>3. OnTime(w)'
    BY <1>0, <1>1, <1>2, <2>1, <2>2 DEF OnTime, AtPC
  <2> QED
    BY <1>1, <1>3, <2>3, PunctualDriver
<1>7. CASE FirePass(w) \/ AcquireSlot(w)
  <2>1. drv[w].pc \in {"fired", "throttled"}
    BY <1>7 DEF FirePass, AcquireSlot, AtPC
  <2>2. drv'[w].pc \in {"throttled", "attempt"} /\ drv'[w].ts = drv[w].ts
    BY <1>7, FireMoves DEF MovesTo
  <2>3. OnTime(w)'
    BY <1>0, <1>1, <1>2, <2>1, <2>2 DEF OnTime, AtPC
  <2> QED
    BY <1>1, <1>3, <2>3, PunctualDriver
<1> QED
  BY <1>4, <1>5, <1>6, <1>7 DEF Fire

(* attempt() always has a task. *)
LEMMA AttemptTarget ==
    ASSUME Structure, NEW w \in Driver, Attempt(w)
    PROVE  drv[w].ts \in TaskState
<1>1. AtPC(w, "attempt") \/ AtPC(w, "dispatch")
  BY DEF Attempt, AttemptAborted, SnapshotAttempt, ApplyStale, ApplyRemove, ApplyRetry
<1> QED
  BY <1>1 DEF AtPC, Structure, DriverTarget

(* An attempt starts in time, and a retry is armed for its new time. *)
LEMMA PunctualAttempt ==
    ASSUME TypeOK, Structure, Punctual, NEW w \in Driver, Attempt(w)
    PROVE  Punctual'
<1>0. /\ drv[w].ts \in TaskState /\ task[drv[w].ts] \in Tasks
      /\ task[drv[w].ts].ScheduleTime \in Int /\ now \in Int /\ now >= now
  <2>1. drv[w].ts \in TaskState
    BY AttemptTarget
  <2> QED
    BY <2>1 DEF TypeOK, Tasks
<1>1. now' = now /\ forked' = forked
  BY DEF Attempt, AttemptAborted, SnapshotAttempt, ApplyStale, ApplyRemove, ApplyRetry
<1>2. CASE AttemptAborted(w) \/ ApplyStale(w)
  <2>1. task' = task /\ \A v \in Driver : drv'[v] = drv[v] \/ drv'[v] = Idle
    BY <1>2, AttemptMoves DEF AttemptAborted, ApplyStale, taskVars, Ends, OthersSame
  <2> QED
    BY <1>0, <1>1, <2>1, PunctualSame
<1>3. CASE SnapshotAttempt(w)
  <2>1. task' = task /\ AtPC(w, "attempt")
    BY <1>3 DEF SnapshotAttempt, taskVars
  <2>2. /\ OthersSame(w) /\ drv'[w].pc = "dispatch"
        /\ drv'[w].ts = drv[w].ts /\ drv'[w].at = now
    BY <1>3, AttemptMoves DEF MovesTo
  <2>3. OnTime(w)
    BY DEF Punctual
  <2>4. OnTime(w)'
    BY <1>0, <1>1, <2>1, <2>2, <2>3 DEF OnTime, AtPC
  <2> QED
    BY <1>1, <2>1, <2>2, <2>4, PunctualDriver
<1>4. ASSUME NEW outcome \in Outcomes, ApplyRemove(w, outcome) PROVE Punctual'
  <2>1. \A v \in Driver : drv'[v] = drv[v] \/ drv'[v] = Idle
    BY <1>4, RemoveMoves
  <2>2. task' = [task EXCEPT ![drv[w].ts] = Counted(w, outcome)]
    BY <1>4 DEF ApplyRemove
  <2>3. Counted(w, outcome).ScheduleTime = task[drv[w].ts].ScheduleTime
    BY <1>0 DEF Counted, Tasks
  <2>4. \A t \in TaskState : task'[t].ScheduleTime = task[t].ScheduleTime
    BY <1>0, <2>2, <2>3 DEF TypeOK
  <2> QED
    BY <1>0, <1>1, <2>1, <2>4, PunctualSame
<1>5. ASSUME NEW outcome \in Outcomes, ApplyRetry(w, outcome) PROVE Punctual'
  <2>1. /\ OthersSame(w) /\ drv'[w].pc = "armed" /\ drv'[w].ts = drv[w].ts
        /\ drv'[w].at = task'[drv[w].ts].ScheduleTime
    BY <1>5, AttemptMoves DEF MovesTo
  <2>2. task'[drv[w].ts].ScheduleTime \in Int
    <3>1. TypeOK'
      BY TypeAttempt DEF Structure
    <3> QED
      BY <1>0, <3>1 DEF TypeOK, Tasks
  <2>3. OnTime(w)'
    BY <2>1, <2>2 DEF OnTime, AtPC
  <2>4. \A t \in TaskState \ {drv[w].ts} : task'[t] = task[t]
    BY <1>5 DEF ApplyRetry, TypeOK
  <2>5. \A v \in Driver \ {w} : drv[v].ts \in TaskState \ forked => drv[v].ts # drv[w].ts
    BY DEF Structure, SingleChain
  <2> QED
    BY <1>1, <2>1, <2>3, <2>4, <2>5, PunctualDriver
<1> QED
  BY <1>2, <1>3, <1>4, <1>5 DEF Attempt

(* CreateTask arms the timer for the schedule time, RunTask moves it to now. *)
LEMMA PunctualCalls ==
    ASSUME TypeOK, Structure, Punctual,
           \/ \E t \in TaskState : CreateTask(t)
           \/ \E n \in Name : RunTask(n)
    PROVE  Punctual'
<1>0. None \notin TaskState /\ now \in Int /\ now >= now
  BY QueueAssumption DEF TypeOK
<1>1. ASSUME NEW t \in TaskState, CreateTask(t) PROVE Punctual'
  <2>1. \A v \in Driver : drv[v].ts # t
    BY <1>0, <1>1 DEF CreateTask, CreateTaskLookup, CreateTaskRejected, CreateTaskAdd,
                      Structure, DriverTarget
  <2>2. now' = now /\ forked' = forked
    BY <1>1 DEF CreateTask, CreateTaskLookup, CreateTaskRejected, CreateTaskAdd
  <2>3. \A s \in TaskState \ {t} : task'[s] = task[s]
    BY <1>1 DEF CreateTask, CreateTaskLookup, CreateTaskRejected, CreateTaskAdd, TypeOK
  <2>4. CASE drv' = drv
    BY <1>0, <2>1, <2>2, <2>3, <2>4, PunctualSame
  <2>5. CASE drv' # drv
    <3>1. CreateTaskAdd(t) /\ task' = task
      BY <1>1, <2>5 DEF CreateTask, CreateTaskLookup, CreateTaskRejected, CreateTaskAdd
    <3>2. PICK w \in Driver :
            /\ OthersSame(w)
            /\ drv'[w].pc = "armed" /\ drv'[w].ts = t
            /\ drv'[w].at = task[t].ScheduleTime
      BY <2>5, <3>1, CallMoves
    <3>3. task[t].ScheduleTime \in Int
      BY DEF TypeOK, Tasks
    <3>4. OnTime(w)'
      BY <3>1, <3>2, <3>3 DEF OnTime, AtPC
    <3> QED
      BY <2>2, <3>1, <3>2, <3>4, PunctualDriver
  <2> QED
    BY <2>4, <2>5
<1>2. ASSUME NEW n \in Name, RunTask(n) PROVE Punctual'
  <2>1. PICK t \in TaskState : t = tasks[n]
    BY <1>2, CallMoves
  <2>2. PICK w \in Driver :
          /\ OthersSame(w)
          /\ drv'[w].pc = "attempt" /\ drv'[w].ts = t
          /\ \/ AtPC(w, "armed") /\ drv[w].ts = t /\ forked' = forked
             \/ AtPC(w, "idle") /\ forked' = forked \union {t}
    BY <1>2, <2>1, CallMoves
  <2>3. now' = now /\ task' = [task EXCEPT ![t].ScheduleTime = now]
    BY <1>2, <2>1 DEF RunTask
  <2>4. /\ task'[t].ScheduleTime = now
        /\ \A s \in TaskState \ {t} : task'[s] = task[s]
    BY <2>3 DEF TypeOK, Tasks
  <2>5. OnTime(w)'
    BY <1>0, <2>2, <2>3, <2>4 DEF OnTime, AtPC
  <2>6. \A v \in Driver \ {w} : drv[v].ts \in TaskState \ forked' => drv[v].ts # t
    BY <2>1, <2>2 DEF Structure, SingleChain
  <2> QED
    BY <2>2, <2>3, <2>4, <2>5, <2>6, PunctualDriver
<1> QED
  BY <1>1, <1>2

(* Every step keeps the drivers to their tasks' times. *)
LEMMA PunctualStep ==
    ASSUME TypeOK, Structure, Punctual, [Next]_vars
    PROVE  Punctual'
<1>0. now \in Int /\ now >= now
  BY DEF TypeOK
<1>1. CASE \/ UNCHANGED vars
           \/ \E t \in TaskState : TTLTimerExpires(t)
           \/ \E n \in Name : CleanupTombstone(n)
           \/ \E st \in {"RUNNING", "PAUSED"} : SetQueueState(st)
           \/ \E new \in NewQueues, mask \in SUBSET Fields : UpdateQueue(new, mask)
           \/ Tick
  <2>1. /\ drv' = drv /\ task' = task /\ forked' = forked
        /\ now' = now \/ now' = now + 1
    BY <1>1 DEF vars, TTLTimerExpires, CleanupTombstone, SetQueueState, UpdateQueue,
                Tick, taskVars
  <2> QED
    BY <1>0, <2>1, PunctualSame
<1>2. CASE \/ \E t \in TaskState : Expire(t)
           \/ \E n \in Name : DeleteTask(n)
           \/ PurgeQueue
           \/ DeleteQueue
  <2>1. task' = task /\ now' = now /\ forked' = forked
    BY <1>2 DEF Expire, DeleteTask, PurgeQueue, DeleteQueue
  <2>2. \A v \in Driver : drv'[v] = drv[v] \/ drv'[v] = Idle
    BY <1>2, RemoveMoves
  <2> QED
    BY <1>0, <2>1, <2>2, PunctualSame
<1> QED
  BY <1>1, <1>2, PunctualFire, PunctualAttempt, PunctualCalls DEF Next

(* No driver, nothing to be early. *)
LEMMA PunctualInit == Init => Punctual
BY IdleFields, QueueAssumption DEF Init, Punctual, OnTime

---------------------------------------------------------------------------
(* Counters *)

(* What CountersConsistent says of one task. *)
Tally(r) ==
    /\ r.executionCount <= r.ResponseCount
    /\ r.ResponseCount <= r.DispatchCount
    /\ r.DispatchCount = 0 <=> r.firstAttempt = None
    /\ r.firstAttempt # None => r.firstAttempt <= now

(* The start of an attempt, which may become the first one on record, is   *)
(* not in the future.                                                      *)
AttemptClock == \A w \in Driver : AtPC(w, "dispatch") => drv[w].at <= now

Counting == CountersConsistent /\ AttemptClock

(* applyAttempt's bookkeeping keeps the counters of the task in step. *)
LEMMA CountedTally ==
    ASSUME TypeOK, Counting, NEW w \in Driver, drv[w].ts \in TaskState,
           AtPC(w, "dispatch"), NEW outcome \in Outcomes
    PROVE  Tally(Counted(w, outcome))
<1> DEFINE old == task[drv[w].ts]
           new == Counted(w, outcome)
<1>1. /\ old \in Tasks /\ old.DispatchCount \in Nat /\ old.ResponseCount \in Nat
      /\ old.executionCount \in Nat /\ old.firstAttempt \in Int \union {None}
      /\ drv[w].at \in Int /\ drv[w].at # None /\ now \in Int
  BY QueueAssumption DEF TypeOK, Tasks, Drivers
<1>2. drv[w].at <= now /\ Tally(old)
  BY DEF Counting, AttemptClock, CountersConsistent, Tally
<1>3. /\ new.DispatchCount = old.DispatchCount + 1
      /\ new.ResponseCount = IF outcome = "noresponse" THEN old.ResponseCount
                             ELSE old.ResponseCount + 1
      /\ new.executionCount = IF outcome \in {"ok", "4xx"} THEN old.executionCount + 1
                              ELSE old.executionCount
      /\ new.firstAttempt = IF old.firstAttempt = None THEN drv[w].at
                            ELSE old.firstAttempt
  BY <1>1 DEF Counted, Tasks
<1> HIDE DEF old, new
<1>4. /\ new.executionCount <= new.ResponseCount
      /\ new.ResponseCount <= new.DispatchCount
      /\ new.DispatchCount # 0
  BY <1>1, <1>2, <1>3 DEF Tally
<1>5. new.firstAttempt # None /\ new.firstAttempt <= now
  BY <1>1, <1>2, <1>3 DEF Tally
<1> QED
  BY <1>4, <1>5 DEF Tally, new

(* A step after which no attempt has started but those that were under way, *)
(* or that start now, and after which every task still tallies.            *)
LEMMA CountingMoves ==
    ASSUME TypeOK, TypeOK', Counting, now' >= now,
           \A v \in Driver :
             drv'[v].pc = "dispatch" =>
               \/ drv[v].pc = "dispatch" /\ drv'[v].at = drv[v].at
               \/ drv'[v].at = now,
           \A t \in TaskState :
             \/ Tally(task'[t])
             \/ /\ task'[t].executionCount = task[t].executionCount
                /\ task'[t].ResponseCount = task[t].ResponseCount
                /\ task'[t].DispatchCount = task[t].DispatchCount
                /\ task'[t].firstAttempt = task[t].firstAttempt
    PROVE  Counting'
<1>1. now \in Int /\ now' \in Int
  BY DEF TypeOK
<1>2. AttemptClock'
  <2> SUFFICES ASSUME NEW v \in Driver, drv'[v].pc = "dispatch"
               PROVE  drv'[v].at <= now'
    BY DEF AttemptClock, AtPC
  <2>1. drv[v].at \in Int
    BY DEF TypeOK, Drivers
  <2> QED
    BY <1>1, <2>1 DEF Counting, AttemptClock, AtPC
<1>3. CountersConsistent'
  <2> SUFFICES ASSUME NEW t \in TaskState
               PROVE  /\ task'[t].executionCount <= task'[t].ResponseCount
                      /\ task'[t].ResponseCount <= task'[t].DispatchCount
                      /\ task'[t].DispatchCount = 0 <=> task'[t].firstAttempt = None
                      /\ task'[t].firstAttempt # None => task'[t].firstAttempt <= now'
    BY DEF CountersConsistent
  <2>1. Tally(task[t]) /\ task[t].firstAttempt \in Int \union {None}
    BY DEF Counting, CountersConsistent, Tally, TypeOK, Tasks
  <2>2. Tally(task'[t])
    BY <2>1 DEF Tally
  <2>3. task'[t].firstAttempt # None => task'[t].firstAttempt \in Int
    BY <2>1 DEF TypeOK, Tasks
  <2> QED
    BY <1>1, <2>2, <2>3 DEF Tally
<1> QED
  BY <1>2, <1>3 DEF Counting

(* Every step keeps the counters in step. *)
LEMMA CountingStep ==
    ASSUME TypeOK, TypeOK', Structure, Counting, [Next]_vars
    PROVE  Counting'
<1>0. /\ now \in Int /\ now >= now /\ now + 1 >= now
      /\ task \in [TaskState -> Tasks]
  BY DEF TypeOK
<1> DEFINE Started ==
      \A v \in Driver :
        drv'[v].pc = "dispatch" =>
          \/ drv[v].pc = "dispatch" /\ drv'[v].at = drv[v].at
          \/ drv'[v].at = now
<1>1. ASSUME task' = task, now' >= now, Started PROVE Counting'
  BY <1>1, CountingMoves
<1>2. CASE \/ UNCHANGED vars
           \/ \E t \in TaskState : TTLTimerExpires(t)
           \/ \E n \in Name : CleanupTombstone(n)
           \/ \E st \in {"RUNNING", "PAUSED"} : SetQueueState(st)
           \/ \E new \in NewQueues, mask \in SUBSET Fields : UpdateQueue(new, mask)
           \/ Tick
  <2>1. /\ drv' = drv /\ task' = task
        /\ now' = now \/ now' = now + 1
    BY <1>2 DEF vars, TTLTimerExpires, CleanupTombstone, SetQueueState, UpdateQueue,
                Tick, taskVars
  <2>2. now' >= now /\ Started
    BY <1>0, <2>1
  <2> QED
    BY <1>1, <2>1, <2>2
<1>3. CASE \/ \E t \in TaskState : Expire(t)
           \/ \E n \in Name : DeleteTask(n)
           \/ PurgeQueue
           \/ DeleteQueue
  <2>1. task' = task /\ now' = now
    BY <1>3 DEF Expire, DeleteTask, PurgeQueue, DeleteQueue
  <2>2. Started
    BY <1>3, RemoveMoves, IdleFields
  <2>3. now' >= now
    BY <1>0, <2>1
  <2> QED
    BY <1>1, <2>1, <2>2, <2>3
<1>4. ASSUME NEW w \in Driver, Fire(w) \/ AcquireSlot(w) PROVE Counting'
  <2>1. task' = task /\ now' = now
    BY <1>4 DEF Fire, TimerExpires, FireRemoved, FireHeld, FirePass, AcquireSlot,
                taskVars
  <2>2. Started
    BY <1>4, FireMoves, IdleFields DEF Fire, MovesTo, Ends, OthersSame
  <2>3. now' >= now
    BY <1>0, <2>1
  <2> QED
    BY <1>1, <2>1, <2>2, <2>3
<1>5. ASSUME NEW w \in Driver, Attempt(w) PROVE Counting'
  <2>0. drv[w].ts \in TaskState /\ task[drv[w].ts] \in Tasks
    BY <1>0, <1>5, AttemptTarget
  <2>1. now' = now /\ now' >= now
    BY <1>0, <1>5 DEF Attempt, AttemptAborted, SnapshotAttempt, ApplyStale,
                      ApplyRemove, ApplyRetry
  <2>2. CASE AttemptAborted(w) \/ ApplyStale(w) \/ SnapshotAttempt(w)
    <3>1. task' = task
      BY <2>2 DEF AttemptAborted, ApplyStale, SnapshotAttempt, taskVars
    <3>2. Started
      BY <2>2, AttemptMoves, IdleFields DEF Ends, MovesTo, OthersSame
    <3> QED
      BY <1>1, <2>1, <3>1, <3>2
  <2>3. ASSUME NEW outcome \in Outcomes, AtPC(w, "dispatch"), Started,
               task'[drv[w].ts].executionCount = Counted(w, outcome).executionCount,
               task'[drv[w].ts].ResponseCount = Counted(w, outcome).ResponseCount,
               task'[drv[w].ts].DispatchCount = Counted(w, outcome).DispatchCount,
               task'[drv[w].ts].firstAttempt = Counted(w, outcome).firstAttempt,
               \A t \in TaskState \ {drv[w].ts} : task'[t] = task[t]
        PROVE  Counting'
    <3>1. Tally(Counted(w, outcome))
      BY <2>0, <2>3, CountedTally
    <3>2. Tally(task'[drv[w].ts])
      BY <2>3, <3>1 DEF Tally
    <3> QED
      BY <2>1, <2>3, <3>2, CountingMoves
  <2>4. ASSUME NEW outcome \in Outcomes, ApplyRemove(w, outcome) PROVE Counting'
    <3>1. /\ AtPC(w, "dispatch")
          /\ task' = [task EXCEPT ![drv[w].ts] = Counted(w, outcome)]
      BY <2>4 DEF ApplyRemove
    <3>2. Started
      BY <2>4, RemoveMoves, IdleFields
    <3>3. /\ task'[drv[w].ts] = Counted(w, outcome)
          /\ \A t \in TaskState \ {drv[w].ts} : task'[t] = task[t]
      BY <1>0, <2>0, <3>1
    <3> QED
      BY <2>3, <3>1, <3>2, <3>3
  <2>5. ASSUME NEW outcome \in Outcomes, ApplyRetry(w, outcome) PROVE Counting'
    <3>1. PICK s : task' = [task EXCEPT ![drv[w].ts] =
                              [Counted(w, outcome) EXCEPT !.ScheduleTime = s]]
      BY <2>5 DEF ApplyRetry
    <3>2. Started /\ AtPC(w, "dispatch")
      BY <2>5, AttemptMoves DEF MovesTo, OthersSame, ApplyRetry
    <3>3. PICK c \in Tasks : c = Counted(w, outcome)
      BY <2>0, CountedType
    <3>4. /\ task'[drv[w].ts] = [c EXCEPT !.ScheduleTime = s]
          /\ \A t \in TaskState \ {drv[w].ts} : task'[t] = task[t]
      BY <1>0, <2>0, <3>1, <3>3
    <3>5. /\ task'[drv[w].ts].executionCount = c.executionCount
          /\ task'[drv[w].ts].ResponseCount = c.ResponseCount
          /\ task'[drv[w].ts].DispatchCount = c.DispatchCount
          /\ task'[drv[w].ts].firstAttempt = c.firstAttempt
      BY <3>4 DEF Tasks
    <3> QED
      BY <2>3, <3>2, <3>3, <3>4, <3>5
  <2> QED
    BY <1>5, <2>2, <2>4, <2>5 DEF Attempt
<1>6. ASSUME NEW t \in TaskState, CreateTask(t) PROVE Counting'
  <2>1. now' = now /\ now' >= now
    BY <1>0, <1>6 DEF CreateTask, CreateTaskLookup, CreateTaskRejected, CreateTaskAdd
  <2>2. ASSUME NEW n \in Name, NEW pull \in Targets, NEW delay \in Delays,
               CreateTaskLookup(t, n, pull, delay)
        PROVE  Counting'
    <3>1. drv' = drv
      BY <2>2 DEF CreateTaskLookup
    <3>2. /\ task'[t].executionCount = 0 /\ task'[t].ResponseCount = 0
          /\ task'[t].DispatchCount = 0 /\ task'[t].firstAttempt = None
          /\ \A s \in TaskState \ {t} : task'[s] = task[s]
      BY <1>0, <2>2 DEF CreateTaskLookup
    <3>3. Tally(task'[t])
      BY <3>2 DEF Tally
    <3> QED
      BY <2>1, <3>1, <3>2, <3>3, CountingMoves
  <2>3. CASE CreateTaskRejected(t) \/ CreateTaskAdd(t)
    <3>1. task' = task
      BY <2>3 DEF CreateTaskRejected, CreateTaskAdd
    <3>2. Started
      BY <2>3, CallMoves DEF CreateTaskRejected, OthersSame
    <3> QED
      BY <1>1, <2>1, <3>1, <3>2
  <2> QED
    BY <1>6, <2>2, <2>3 DEF CreateTask
<1>7. ASSUME NEW n \in Name, RunTask(n) PROVE Counting'
  <2>1. PICK t \in TaskState : t = tasks[n]
    BY <1>7, CallMoves
  <2>2. /\ now' = now /\ now' >= now
        /\ task' = [task EXCEPT ![t] = [task[t] EXCEPT !.ScheduleTime = now]]
    BY <1>0, <1>7, <2>1 DEF RunTask
  <2>3. Started
    BY <1>7, CallMoves DEF OthersSame
  <2>4. \A s \in TaskState :
          /\ task'[s].executionCount = task[s].executionCount
          /\ task'[s].ResponseCount = task[s].ResponseCount
          /\ task'[s].DispatchCount = task[s].DispatchCount
          /\ task'[s].firstAttempt = task[s].firstAttempt
    BY <1>0, <2>2 DEF Tasks
  <2> QED
    BY <2>2, <2>3, <2>4, CountingMoves
<1> QED
  BY <1>2, <1>3, <1>4, <1>5, <1>6, <1>7 DEF Next

(* Nothing was counted yet. *)
LEMMA CountingInit == Init => Counting
BY IdleFields
   DEF Init, NoTask, Counting, CountersConsistent, AttemptClock, AtPC

---------------------------------------------------------------------------
(* How often a task is tried *)

(* There is an attempt left for a task that is not removed, and for one    *)
(* that was removed while an attempt of it was under way.                  *)
Left(t) ==
    LET started == task[t].DispatchCount
        limit == q.RetryConfig.MaxAttempts
    IN  /\ started <= limit
        /\ status[t] # "removed" => started < limit
        /\ InFlight(t) # {} => started < limit

AttemptsLeft == OnlyAttemptsLimited => \A t \in TaskState \ forked : Left(t)

(* A step that counts nothing and starts attempts of tasks of the queue.   *)
LEMMA LeftSame ==
    ASSUME TypeOK, AttemptsLeft,
           q'.RetryConfig = q.RetryConfig, gen' = gen, forked \subseteq forked',
           SameCounts(TaskState),
           \A t \in TaskState : status'[t] = "removed" \/ status[t] # "removed",
           \A v \in Driver :
             drv'[v].pc = "dispatch" =>
               /\ drv'[v].ts = drv[v].ts
               /\ drv[v].pc = "dispatch" \/ status[drv[v].ts] # "removed"
    PROVE  AttemptsLeft'
<1> SUFFICES ASSUME OnlyAttemptsLimited', NEW t \in TaskState \ forked'
             PROVE  Left(t)'
  BY DEF AttemptsLeft
<1>1. Left(t)
  BY DEF AttemptsLeft, OnlyAttemptsLimited
<1>2. task'[t].DispatchCount = task[t].DispatchCount
  BY DEF SameCounts
<1>3. InFlight(t)' # {} => InFlight(t) # {} \/ status[t] # "removed"
  BY DEF InFlight, AtPC
<1> QED
  BY <1>1, <1>2, <1>3 DEF Left

(* applyAttempt: the attempt is counted, and unless it was the last one    *)
(* the task stays.                                                         *)
LEMMA LeftApply ==
    ASSUME TypeOK, Structure, AttemptsLeft, NEW w \in Driver, NEW outcome \in Outcomes,
           ApplyRemove(w, outcome) \/ ApplyRetry(w, outcome)
    PROVE  AttemptsLeft'
<1>0. AtPC(w, "dispatch") /\ drv[w].ts \in TaskState
  BY DEF ApplyRemove, ApplyRetry, AtPC, Structure, DriverTarget
<1>1. q' = q /\ gen' = gen /\ forked' = forked
  BY DEF ApplyRemove, ApplyRetry, qVars
<1>2. PICK c \in Tasks : c = Counted(w, outcome)
  BY <1>0, CountedType
<1>3. c.DispatchCount = task[drv[w].ts].DispatchCount + 1
  BY <1>0, <1>2 DEF Counted, TypeOK, Tasks
<1>4. /\ task'[drv[w].ts].DispatchCount = c.DispatchCount
      /\ \A t \in TaskState \ {drv[w].ts} : task'[t] = task[t]
  <2>1. CASE ApplyRemove(w, outcome)
    BY <1>0, <1>2, <2>1 DEF ApplyRemove, TypeOK
  <2>2. CASE ApplyRetry(w, outcome)
    <3>1. PICK s : task' = [task EXCEPT ![drv[w].ts] = [c EXCEPT !.ScheduleTime = s]]
      BY <1>2, <2>2 DEF ApplyRetry
    <3> QED
      BY <1>0, <1>2, <3>1 DEF TypeOK, Tasks
  <2> QED
    BY <2>1, <2>2
<1>5. /\ drv'[w].pc # "dispatch"
      /\ \A v \in Driver \ {w} : drv'[v].pc = "dispatch" => drv'[v] = drv[v]
  BY RemoveMoves, AttemptMoves, IdleFields DEF MovesTo, OthersSame
<1>6. \A t \in TaskState \ {drv[w].ts} : status'[t] = status[t]
  BY <1>0 DEF ApplyRemove, RemoveLocked, Discard, ApplyRetry
<1> SUFFICES ASSUME OnlyAttemptsLimited', NEW t \in TaskState \ forked'
             PROVE  Left(t)'
  BY DEF AttemptsLeft
<1>7. OnlyAttemptsLimited /\ Left(t) /\ t \notin forked
  BY <1>1 DEF AttemptsLeft, OnlyAttemptsLimited
<1>8. CASE t # drv[w].ts
  <2>1. InFlight(t)' # {} => InFlight(t) # {}
    BY <1>5, <1>8 DEF InFlight, AtPC
  <2> QED
    BY <1>1, <1>4, <1>6, <1>7, <1>8, <2>1 DEF Left
<1>9. CASE t = drv[w].ts
  <2>1. InFlight(t)' = {}
    <3> SUFFICES ASSUME NEW v \in Driver, drv'[v].ts = t, drv'[v].pc = "dispatch"
                 PROVE  FALSE
      BY DEF InFlight, AtPC
    <3>1. v # w /\ drv[v].ts = t
      BY <1>5
    <3> QED
      BY <1>7, <1>9, <3>1 DEF Structure, SingleChain
  <2>2. task[t].DispatchCount \in Nat /\ q.RetryConfig.MaxAttempts \in Int
    BY DEF TypeOK, Tasks, Queues, RetryConfigs
  <2>3. task[t].DispatchCount < q.RetryConfig.MaxAttempts
    <3>1. InFlight(t) # {}
      BY <1>0, <1>9 DEF InFlight
    <3> QED
      BY <1>7, <3>1 DEF Left
  <2>4. task'[t].DispatchCount = task[t].DispatchCount + 1
    BY <1>3, <1>4, <1>9
  <2>5. CASE ApplyRemove(w, outcome)
    <3>1. status'[t] = "removed"
      BY <1>9, <2>5 DEF ApplyRemove, RemoveLocked, Discard
    <3> QED
      BY <1>1, <2>1, <2>2, <2>3, <2>4, <3>1 DEF Left
  <2>6. CASE ApplyRetry(w, outcome)
    <3>1. ShouldRetry(q.RetryConfig, c.DispatchCount, now - c.firstAttempt)
      BY <1>2, <2>6 DEF ApplyRetry, Retryable
    <3>2. c.DispatchCount < q.RetryConfig.MaxAttempts
      BY <1>7, <2>2, <3>1 DEF ShouldRetry, OnlyAttemptsLimited, AttemptsLimited
    <3> QED
      BY <1>1, <1>3, <1>9, <2>1, <2>2, <2>4, <3>2 DEF Left
  <2> QED
    BY <2>5, <2>6
<1> QED
  BY <1>8, <1>9

(* Every step keeps an attempt in hand.  UpdateQueue may lower the limit   *)
(* below what was started already: from then on nothing is claimed.        *)
LEMMA LeftStep ==
    ASSUME TypeOK, Structure, AttemptsLeft, [Next]_vars
    PROVE  AttemptsLeft'
<1>0. gen \in Nat
  BY DEF TypeOK, Generation
<1>1. CASE \/ UNCHANGED vars
           \/ \E t \in TaskState : TTLTimerExpires(t)
           \/ \E n \in Name : CleanupTombstone(n)
           \/ \E st \in {"RUNNING", "PAUSED"} : SetQueueState(st)
           \/ Tick
  <2>1. /\ drv' = drv /\ task' = task /\ status' = status /\ forked' = forked
        /\ gen' = gen
    BY <1>1 DEF vars, TTLTimerExpires, CleanupTombstone, SetQueueState,
                Tick, taskVars, qVars
  <2>2. q'.RetryConfig = q.RetryConfig
    BY <1>1 DEF vars, TTLTimerExpires, CleanupTombstone, SetQueueState, Tick, qVars,
                TypeOK, Queues
  <2> QED
    BY <2>1, <2>2, LeftSame DEF SameCounts
<1>2. CASE \E new \in NewQueues, mask \in SUBSET Fields : UpdateQueue(new, mask)
  BY <1>0, <1>2 DEF UpdateQueue, AttemptsLeft, OnlyAttemptsLimited
<1>3. CASE \/ \E t \in TaskState : Expire(t)
           \/ \E n \in Name : DeleteTask(n)
           \/ PurgeQueue
           \/ DeleteQueue
  <2>1. task' = task /\ forked' = forked /\ q' = q /\ gen' = gen
    BY <1>3 DEF Expire, DeleteTask, PurgeQueue, DeleteQueue, qVars
  <2>2. \A t \in TaskState : status'[t] = "removed" \/ status'[t] = status[t]
    BY <1>3 DEF Expire, DeleteTask, PurgeQueue, DeleteQueue, RemoveLocked, Discard
  <2>3. \A v \in Driver : drv'[v].pc = "dispatch" => drv'[v] = drv[v]
    BY <1>3, RemoveMoves, IdleFields
  <2> QED
    BY <2>1, <2>2, <2>3, LeftSame DEF SameCounts
<1>4. ASSUME NEW w \in Driver, Fire(w) \/ AcquireSlot(w) PROVE AttemptsLeft'
  <2>1. /\ task' = task /\ status' = status /\ forked' = forked
        /\ q' = q /\ gen' = gen
    BY <1>4 DEF Fire, TimerExpires, FireRemoved, FireHeld, FirePass, AcquireSlot,
                taskVars, qVars
  <2>2. \A v \in Driver : drv'[v].pc = "dispatch" => drv'[v] = drv[v]
    BY <1>4, FireMoves, IdleFields DEF Fire, MovesTo, Ends, OthersSame
  <2> QED
    BY <2>1, <2>2, LeftSame DEF SameCounts
<1>5. ASSUME NEW w \in Driver, Attempt(w) PROVE AttemptsLeft'
  <2>1. CASE AttemptAborted(w) \/ ApplyStale(w) \/ SnapshotAttempt(w)
    <3>1. /\ task' = task /\ status' = status /\ forked' = forked
          /\ q' = q /\ gen' = gen
      BY <2>1 DEF AttemptAborted, ApplyStale, SnapshotAttempt, taskVars, qVars
    <3>2. \A v \in Driver :
            drv'[v].pc = "dispatch" =>
              /\ drv'[v].ts = drv[v].ts
              /\ drv[v].pc = "dispatch" \/ status[drv[v].ts] # "removed"
      <4>1. CASE AttemptAborted(w) \/ ApplyStale(w)
        BY <4>1, AttemptMoves, IdleFields DEF Ends, OthersSame
      <4>2. CASE SnapshotAttempt(w)
        <5>1. status[drv[w].ts] # "removed"
          BY <4>2 DEF SnapshotAttempt, Live
        <5> QED
          BY <4>2, <5>1, AttemptMoves DEF MovesTo, OthersSame
      <4> QED
        BY <2>1, <4>1, <4>2
    <3> QED
      BY <3>1, <3>2, LeftSame DEF SameCounts
  <2> QED
    BY <1>5, <2>1, LeftApply DEF Attempt
<1>6. ASSUME NEW t \in TaskState, CreateTask(t) PROVE AttemptsLeft'
  <2>1. forked' = forked /\ q' = q /\ gen' = gen
    BY <1>6 DEF CreateTask, CreateTaskLookup, CreateTaskRejected, CreateTaskAdd, qVars
  <2>2. ASSUME NEW n \in Name, NEW pull \in Targets, NEW delay \in Delays,
               CreateTaskLookup(t, n, pull, delay)
        PROVE  AttemptsLeft'
    <3>1. /\ task'[t].DispatchCount = 0
          /\ \A s \in TaskState \ {t} : task'[s] = task[s] /\ status'[s] = status[s]
          /\ drv' = drv
      BY <2>2 DEF CreateTaskLookup, TypeOK
    <3> SUFFICES ASSUME OnlyAttemptsLimited', NEW s \in TaskState \ forked'
                 PROVE  Left(s)'
      BY DEF AttemptsLeft
    <3>2. CASE s = t
      <4>1. q'.RetryConfig.MaxAttempts > 0 /\ q.RetryConfig.MaxAttempts \in Int
        BY DEF OnlyAttemptsLimited, TypeOK, Queues, RetryConfigs
      <4> QED
        BY <2>1, <3>1, <3>2, <4>1 DEF Left
    <3>3. CASE s # t
      <4>1. Left(s)
        BY <2>1 DEF AttemptsLeft, OnlyAttemptsLimited
      <4>2. InFlight(s)' = InFlight(s)
        BY <3>1 DEF InFlight, AtPC
      <4> QED
        BY <2>1, <3>1, <3>3, <4>1, <4>2 DEF Left
    <3> QED
      BY <3>2, <3>3
  <2>3. CASE CreateTaskRejected(t) \/ CreateTaskAdd(t)
    <3>1. task' = task /\ \A s \in TaskState : status'[s] = status[s] \/ status[s] # "removed"
      BY <2>3 DEF CreateTaskRejected, CreateTaskAdd, TypeOK
    <3>2. \A v \in Driver : drv'[v].pc = "dispatch" => drv'[v] = drv[v]
      BY <2>3, CallMoves DEF CreateTaskRejected, OthersSame
    <3> QED
      BY <2>1, <3>1, <3>2, LeftSame DEF SameCounts
  <2> QED
    BY <1>6, <2>2, <2>3 DEF CreateTask
<1>7. ASSUME NEW n \in Name, RunTask(n) PROVE AttemptsLeft'
  <2>1. /\ status' = status /\ q' = q /\ gen' = gen /\ forked \subseteq forked'
        /\ task' = [task EXCEPT ![tasks[n]].ScheduleTime = now]
    BY <1>7 DEF RunTask, qVars
  <2>2. \A v \in Driver : drv'[v].pc = "dispatch" => drv'[v] = drv[v]
    BY <1>7, CallMoves DEF OthersSame
  <2>3. SameCounts(TaskState)
    BY <2>1 DEF SameCounts, TypeOK, Tasks
  <2> QED
    BY <2>1, <2>2, <2>3, LeftSame
<1> QED
  BY <1>1, <1>2, <1>3, <1>4, <1>5, <1>6, <1>7 DEF Next

(* A limit that is set allows one attempt at least. *)
LEMMA LeftInit == ASSUME Init PROVE AttemptsLeft
<1>1. TypeOK
  BY TypeInit
<1>2. q.RetryConfig.MaxAttempts \in Int
  BY <1>1 DEF TypeOK, Queues, RetryConfigs
<1> QED
  BY <1>2 DEF Init, NoTask, AttemptsLeft, Left, OnlyAttemptsLimited

(* What is left bounds what was started: a task has one attempt under way  *)
(* at most, and only while one is left.                                    *)
LEMMA LeftBounds ==
    ASSUME TypeOK, Structure, AttemptsLeft
    PROVE  AttemptsBounded
<1> SUFFICES ASSUME OnlyAttemptsLimited, NEW t \in TaskState \ forked
             PROVE  AttemptsStarted(t) <= q.RetryConfig.MaxAttempts
  BY DEF AttemptsBounded
<1>1. /\ task[t].DispatchCount \in Nat /\ q.RetryConfig.MaxAttempts \in Int
      /\ Left(t)
  BY DEF TypeOK, Tasks, Queues, RetryConfigs, AttemptsLeft
<1>2. CASE InFlight(t) = {}
  <2>1. Cardinality(InFlight(t)) = 0
    BY <1>2, FS_EmptySet
  <2> QED
    BY <1>1, <2>1 DEF AttemptsStarted, Left
<1>3. CASE InFlight(t) # {}
  <2>1. PICK w \in Driver : w \in InFlight(t)
    BY <1>3 DEF InFlight
  <2>2. InFlight(t) = {w}
    BY <2>1 DEF InFlight, Structure, SingleChain
  <2>3. Cardinality(InFlight(t)) = 1
    BY <2>2, FS_Singleton
  <2> QED
    BY <1>1, <1>3, <2>3 DEF AttemptsStarted, Left
<1> QED
  BY <1>2, <1>3

---------------------------------------------------------------------------
(* The invariants of the specification *)

(* A new queue holds nothing back. *)
LEMMA PausingInit == Init => Pausing
BY DEF Init, Pausing, HeldNotDispatched, HeldInPause

(***************************************************************************)
(* What the safety of a queue rests on beyond TypeOK and Structure.  Each  *)
(* part strengthens an invariant that is not inductive alone: a semaphore  *)
(* is new when UpdateQueue points to it, tasks are held only in a pause,   *)
(* the timers before an attempt are on time, its start is not in the       *)
(* future, and a task that is in the queue has an attempt left.            *)
(***************************************************************************)
Safe == Reservations /\ Slotted /\ Pausing /\ Punctual /\ Counting /\ AttemptsLeft

(* Safe is inductive, together with the types and the structure. *)
THEOREM SafeInvariance == Spec => [](TypeOK /\ Structure /\ Safe)
<1>1. Init => TypeOK /\ Structure /\ Safe
  BY TypeInit, StructureInit, ReservationsInit, SlottedInit, PausingInit, PunctualInit,
     CountingInit, LeftInit DEF Safe
<1>2. TypeOK /\ Structure /\ Safe /\ [Next]_vars => (TypeOK /\ Structure /\ Safe)'
  <2> SUFFICES ASSUME TypeOK, Structure, Safe, [Next]_vars
               PROVE  (TypeOK /\ Structure /\ Safe)'
    OBVIOUS
  <2>1. TypeOK' /\ Structure'
    BY TypeStep, StructureStep DEF Structure
  <2>2. Safe'
    BY <2>1, ReservationsStep, SlottedStep, PausingStep, PunctualStep, CountingStep,
       LeftStep DEF Safe
  <2> QED
    BY <2>1, <2>2
<1> QED
  BY <1>1, <1>2, PTL DEF Spec

(***************************************************************************)
(* Every semaphore counts its holders exactly and never lets more in than  *)
(* it has slots, through any number of UpdateQueue calls that replace it   *)
(* while attempts hold it (fire, rebuildLimits).                           *)
(***************************************************************************)
THEOREM SlotsSafe == Spec => []SlotsAccounted
<1>1. Safe => SlotsAccounted
  BY DEF Safe, Slotted
<1> QED
  BY <1>1, SafeInvariance, PTL

(***************************************************************************)
(* A task whose only limit is MaxAttempts is not started more often, also  *)
(* when RunTask was called on it while it waited (shouldRetry,             *)
(* applyAttempt, RunTask).                                                 *)
(***************************************************************************)
THEOREM AttemptsSafe == Spec => []AttemptsBounded
<1>1. TypeOK /\ Structure /\ Safe => AttemptsBounded
  BY LeftBounds DEF Safe
<1> QED
  BY <1>1, SafeInvariance, PTL

(***************************************************************************)
(* No timer dispatches a task that the current pause has caught: fire      *)
(* looks at the state under the lock, and polls (fire, PauseQueue).        *)
(***************************************************************************)
THEOREM PauseSafe == Spec => []HeldNotDispatched
<1>1. Safe => HeldNotDispatched
  BY DEF Safe, Pausing
<1> QED
  BY <1>1, SafeInvariance, PTL

(***************************************************************************)
(* A reserved name is not given away before its time, whichever cleanup    *)
(* timers of older tombstones are still to come (CreateTask,               *)
(* tombstoneLocked).                                                       *)
(***************************************************************************)
THEOREM NamesSafe == Spec => []ReservedNamesFree
<1>1. Safe => ReservedNamesFree
  BY DEF Safe, Reservations
<1> QED
  BY <1>1, SafeInvariance, PTL

(***************************************************************************)
(* Every tombstone has a timer to come that will delete it, so that the    *)
(* map does not grow for ever (tombstoneLocked).                           *)
(***************************************************************************)
THEOREM TombstonesSafe == Spec => []TombstonesReclaimed
<1>1. Safe => TombstonesReclaimed
  BY DEF Safe, Reservations
<1> QED
  BY <1>1, SafeInvariance, PTL

(***************************************************************************)
(* No attempt starts before its task's schedule time, for every backoff,   *)
(* poll interval and requested delay (schedule, fire, applyAttempt).       *)
(***************************************************************************)
THEOREM TimesSafe == Spec => []NotEarly
<1>1. Structure /\ Safe => NotEarly
  <2> SUFFICES ASSUME Structure, Safe,
                      NEW w \in Driver, AtPC(w, "dispatch"), drv[w].ts \notin forked
               PROVE  drv[w].at >= task[drv[w].ts].ScheduleTime
    BY DEF NotEarly
  <2>1. drv[w].ts \in TaskState
    BY DEF AtPC, Structure, DriverTarget
  <2>2. OnTime(w)
    BY DEF Safe, Punctual
  <2> QED
    BY <2>1, <2>2 DEF OnTime
<1> QED
  BY <1>1, SafeInvariance, PTL

(***************************************************************************)
(* The counters the X-CloudTasks headers are made of agree, whatever mix   *)
(* of answers, errors, retries and forced runs a task has seen             *)
(* (applyAttempt).                                                         *)
(***************************************************************************)
THEOREM CountersSafe == Spec => []CountersConsistent
<1>1. Safe => CountersConsistent
  BY DEF Safe, Counting
<1> QED
  BY <1>1, SafeInvariance, PTL

---------------------------------------------------------------------------
(* Timers of waiting tasks *)

(***************************************************************************)
(* As long as RunTask was in time, the timer that waits for a task is the  *)
(* one that ts.timer points to, so that the next call can stop it.         *)
(***************************************************************************)
Pointed ==
    \A w \in Driver :
        AtPC(w, "armed") /\ drv[w].ts \in TaskState \ forked /\ Live(drv[w].ts) =>
            timer[drv[w].ts] = w

(* A step that arms no timer and takes none from a task that stays. *)
LEMMA PointedSame ==
    ASSUME Pointed, forked \subseteq forked',
           \A v \in Driver : drv'[v].pc = "armed" => drv'[v] = drv[v],
           \A t \in TaskState : Live(t)' => Live(t) /\ timer'[t] = timer[t]
    PROVE  Pointed'
<1> SUFFICES ASSUME NEW v \in Driver, drv'[v].pc = "armed",
                    drv'[v].ts \in TaskState \ forked', Live(drv[v].ts)'
             PROVE  timer'[drv'[v].ts] = v
  BY DEF Pointed, AtPC
<1>1. drv'[v] = drv[v]
  OBVIOUS
<1>2. Live(drv[v].ts) /\ timer'[drv[v].ts] = timer[drv[v].ts]
  BY <1>1 DEF Live
<1> QED
  BY <1>1, <1>2 DEF Pointed, AtPC

(* fire and applyAttempt arm the timer again. *)
LEMMA PointedRearm ==
    ASSUME TypeOK, Structure, Pointed, NEW w \in Driver, NEW at, Rearm(w, at),
           drv[w].ts \in TaskState, status' = status, forked' = forked
    PROVE  Pointed'
<1>1. /\ \A v \in Driver \ {w} : drv'[v] = drv[v]
      /\ drv'[w] = Armed(drv[w].ts, at)
      /\ timer'[drv[w].ts] = w
      /\ \A t \in TaskState \ {drv[w].ts} : timer'[t] = timer[t]
  BY DEF Rearm, TypeOK
<1> SUFFICES ASSUME NEW v \in Driver, drv'[v].pc = "armed",
                    drv'[v].ts \in TaskState \ forked, status[drv'[v].ts] = "live"
             PROVE  timer'[drv'[v].ts] = v
  BY DEF Pointed, AtPC, Live
<1>2. CASE v = w
  BY <1>1, <1>2, ArmedFields
<1>3. CASE v # w
  <2>1. drv'[v] = drv[v] /\ drv[v].ts # drv[w].ts
    BY <1>1, <1>3 DEF Structure, SingleChain
  <2> QED
    BY <1>1, <2>1 DEF Pointed, AtPC, Live
<1> QED
  BY <1>2, <1>3

(* Tasks go, with the timers that wait for them. *)
LEMMA PointedRemove ==
    ASSUME TypeOK, Structure, Pointed,
           \/ \E t \in TaskState : Expire(t)
           \/ \E n \in Name : DeleteTask(n)
           \/ PurgeQueue
           \/ DeleteQueue
           \/ \E w \in Driver, outcome \in Outcomes : ApplyRemove(w, outcome)
    PROVE  Pointed'
<1>1. forked' = forked
  BY DEF Expire, DeleteTask, PurgeQueue, DeleteQueue, ApplyRemove
<1>2. \A v \in Driver : drv'[v] = drv[v] \/ drv'[v] = Idle
  <2>1. ASSUME NEW w \in Driver, NEW outcome \in Outcomes, ApplyRemove(w, outcome)
        PROVE  \A v \in Driver : drv'[v] = drv[v] \/ drv'[v] = Idle
    BY <2>1, RemoveMoves
  <2>2. CASE \/ \E t \in TaskState : Expire(t)
             \/ \E n \in Name : DeleteTask(n)
             \/ PurgeQueue
             \/ DeleteQueue
    BY <2>2, RemoveMoves
  <2> QED
    BY <2>1, <2>2
<1>3. \A t \in TaskState : Live(t)' => Live(t) /\ timer'[t] = timer[t]
  <2>1. ASSUME NEW S, Discard(S)
        PROVE  \A t \in TaskState : Live(t)' => Live(t) /\ timer'[t] = timer[t]
    BY <2>1 DEF Discard, Live, TypeOK
  <2>2. \E S : Discard(S) \/ UNCHANGED <<status, timer>>
    BY DEF Expire, DeleteTask, PurgeQueue, DeleteQueue, ApplyRemove, RemoveLocked
  <2> QED
    BY <2>1, <2>2 DEF Live
<1> QED
  BY <1>1, <1>2, <1>3, PointedSame, IdleFields

(* CreateTask arms the first timer. *)
LEMMA PointedCreate ==
    ASSUME TypeOK, Structure, Pointed, NEW t \in TaskState, CreateTask(t)
    PROVE  Pointed'
<1>1. /\ forked' = forked
      /\ \A s \in TaskState \ {t} : status'[s] = status[s] /\ timer'[s] = timer[s]
  BY DEF CreateTask, CreateTaskLookup, CreateTaskRejected, CreateTaskAdd, Schedule, TypeOK
<1>2. \A v \in Driver : drv[v].ts # t
  BY QueueAssumption
     DEF CreateTask, CreateTaskLookup, CreateTaskRejected, CreateTaskAdd, Structure,
         DriverTarget
<1>3. \A v \in Driver : drv'[v] = drv[v] \/ (drv'[v].ts = t /\ timer'[t] = v)
  <2>1. CASE drv' = drv
    BY <2>1
  <2>2. CASE drv' # drv
    <3>1. PICK w \in Driver :
            /\ drv' = [drv EXCEPT ![w] = Armed(t, task[t].ScheduleTime)]
            /\ timer' = [timer EXCEPT ![t] = w]
      BY <2>2 DEF CreateTask, CreateTaskLookup, CreateTaskRejected, CreateTaskAdd,
                  Schedule, IdleDrivers
    <3> QED
      BY <3>1, ArmedFields DEF TypeOK
  <2> QED
    BY <2>1, <2>2
<1> SUFFICES ASSUME NEW v \in Driver, drv'[v].pc = "armed",
                    drv'[v].ts \in TaskState \ forked', Live(drv[v].ts)'
             PROVE  timer'[drv'[v].ts] = v
  BY DEF Pointed, AtPC
<1>4. CASE drv'[v] = drv[v]
  BY <1>1, <1>2, <1>4 DEF Pointed, AtPC, Live
<1> QED
  BY <1>3, <1>4

(* RunTask stops the timer that waits, or comes too late. *)
LEMMA PointedRun ==
    ASSUME TypeOK, Structure, Pointed, NEW n \in Name, RunTask(n)
    PROVE  Pointed'
<1>1. PICK t \in TaskState : t = tasks[n]
  BY DEF RunTask, TypeOK
<1>2. /\ timer' = [timer EXCEPT ![t] = None] /\ status' = status
      /\ forked' = IF timer[t] = None THEN forked \union {t} ELSE forked
  BY <1>1 DEF RunTask
<1>3. PICK w \in RunDrivers(t) : drv' = [drv EXCEPT ![w] = Running(t)]
  BY <1>1 DEF RunTask
<1>4. w \in Driver /\ (timer[t] # None => w = timer[t])
  BY <1>3 DEF RunDrivers, IdleDrivers, TypeOK
<1>5. /\ drv'[w] = Running(t) /\ \A v \in Driver \ {w} : drv'[v] = drv[v]
  BY <1>3, <1>4 DEF TypeOK
<1>6. drv'[w].pc # "armed"
  BY <1>5 DEF Running, NewDriver
<1> SUFFICES ASSUME NEW v \in Driver, drv'[v].pc = "armed",
                    drv'[v].ts \in TaskState \ forked', Live(drv[v].ts)'
             PROVE  timer'[drv'[v].ts] = v
  BY DEF Pointed, AtPC
<1>7. v # w /\ drv'[v] = drv[v]
  BY <1>5, <1>6
<1>8. timer[drv[v].ts] = v
  BY <1>2, <1>7 DEF Pointed, AtPC, Live
<1>9. drv[v].ts # t
  BY <1>2, <1>4, <1>7, <1>8
<1> QED
  BY <1>2, <1>7, <1>8, <1>9 DEF TypeOK

(* Every step keeps the pointers to the timers that wait. *)
LEMMA PointedStep ==
    ASSUME TypeOK, Structure, Pointed, [Next]_vars
    PROVE  Pointed'
<1>1. CASE \/ UNCHANGED vars
           \/ \E t \in TaskState : TTLTimerExpires(t)
           \/ \E n \in Name : CleanupTombstone(n)
           \/ \E st \in {"RUNNING", "PAUSED"} : SetQueueState(st)
           \/ \E new \in NewQueues, mask \in SUBSET Fields : UpdateQueue(new, mask)
           \/ Tick
  <2>1. drv' = drv /\ timer' = timer /\ status' = status /\ forked' = forked
    BY <1>1 DEF vars, TTLTimerExpires, CleanupTombstone, SetQueueState, UpdateQueue,
                Tick, taskVars
  <2> QED
    BY <2>1, PointedSame DEF Live
<1>2. ASSUME NEW w \in Driver, Fire(w) \/ AcquireSlot(w) PROVE Pointed'
  <2>1. status' = status /\ forked' = forked
    BY <1>2 DEF Fire, TimerExpires, FireRemoved, FireHeld, FirePass, AcquireSlot, taskVars
  <2>2. CASE TimerExpires(w)
    <3>1. timer' = [t \in TaskState |-> IF timer[t] = w THEN None ELSE timer[t]]
      BY <2>2 DEF TimerExpires
    <3>2. OthersSame(w) /\ drv'[w].pc = "fired"
      BY <2>2, FireMoves DEF MovesTo
    <3> QED
      BY <2>1, <3>1, <3>2 DEF OthersSame, Pointed, AtPC, Live
  <2>3. CASE FireHeld(w)
    <3>1. drv[w].ts \in TaskState
      BY <2>3 DEF FireHeld, AtPC, Structure, DriverTarget
    <3> QED
      BY <2>1, <2>3, <3>1, PointedRearm DEF FireHeld
  <2>4. CASE FireRemoved(w) \/ FirePass(w) \/ AcquireSlot(w)
    <3>1. timer' = timer
      BY <2>4 DEF FireRemoved, FirePass, AcquireSlot, taskVars
    <3>2. \A v \in Driver : drv'[v].pc = "armed" => drv'[v] = drv[v]
      BY <2>4, FireMoves, IdleFields DEF MovesTo, Ends, OthersSame
    <3> QED
      BY <2>1, <3>1, <3>2, PointedSame DEF Live
  <2> QED
    BY <1>2, <2>2, <2>3, <2>4 DEF Fire
<1>3. ASSUME NEW w \in Driver, Attempt(w) PROVE Pointed'
  <2>1. CASE AttemptAborted(w) \/ SnapshotAttempt(w) \/ ApplyStale(w)
    <3>1. timer' = timer /\ status' = status /\ forked' = forked
      BY <2>1 DEF AttemptAborted, SnapshotAttempt, ApplyStale, taskVars
    <3>2. \A v \in Driver : drv'[v].pc = "armed" => drv'[v] = drv[v]
      BY <2>1, AttemptMoves, IdleFields DEF MovesTo, Ends, OthersSame
    <3> QED
      BY <3>1, <3>2, PointedSame DEF Live
  <2>2. ASSUME NEW outcome \in Outcomes, ApplyRetry(w, outcome) PROVE Pointed'
    <3>1. /\ status' = status /\ forked' = forked
          /\ Rearm(w, task'[drv[w].ts].ScheduleTime)
      BY <2>2 DEF ApplyRetry
    <3>2. drv[w].ts \in TaskState
      BY <1>3, AttemptTarget
    <3>3. PICK at : Rearm(w, at)
      BY <3>1
    <3> QED
      BY <3>1, <3>2, <3>3, PointedRearm
  <2> QED
    BY <1>3, <2>1, <2>2, PointedRemove DEF Attempt
<1> QED
  BY <1>1, <1>2, <1>3, PointedCreate, PointedRemove, PointedRun DEF Next

(* No timer waits yet. *)
LEMMA PointedInit == Init => Pointed
BY IdleFields DEF Init, Pointed, AtPC

(* RunTask comes too late only for a task that was due. *)
LEMMA TooLateWhenDue ==
    ASSUME TypeOK, Structure, Punctual, Counting, Pointed,
           NEW t \in TaskState \ forked, Live(t), Push(t), timer[t] = None
    PROVE  now >= task[t].ScheduleTime
<1>1. PICK v \in Driver : drv[v].ts = t
  BY DEF Structure, NeverStranded
<1>2. ~AtPC(v, "idle") /\ ~AtPC(v, "armed")
  BY <1>1, QueueAssumption DEF Structure, DriverTarget, Pointed
<1>3. /\ drv[v].pc \in {"fired", "throttled", "attempt", "dispatch"}
      /\ drv[v].at \in Int /\ now \in Int /\ task[t].ScheduleTime \in Int
  BY <1>2 DEF TypeOK, Drivers, Tasks, AtPC
<1>4. OnTime(v)
  BY DEF Punctual
<1>5. CASE AtPC(v, "dispatch")
  <2>1. drv[v].at <= now /\ drv[v].at >= task[t].ScheduleTime
    BY <1>1, <1>4, <1>5 DEF Counting, AttemptClock, OnTime
  <2> QED
    BY <1>3, <2>1
<1>6. CASE ~AtPC(v, "dispatch")
  BY <1>1, <1>3, <1>4, <1>6 DEF OnTime, AtPC
<1> QED
  BY <1>5, <1>6

---------------------------------------------------------------------------
(* The contract *)

(***************************************************************************)
(* Drivers work for push tasks only, and a task that CreateTask has not    *)
(* added yet is as the client asked for it.                                *)
(***************************************************************************)
OnlyPush == \A w \in Driver : ~AtPC(w, "idle") => Push(drv[w].ts)

Unstarted == \A t \in TaskState : status[t] = "creating" => Contract!New(task[t])

Ready == OnlyPush /\ Unstarted

(* The abstract specification has the same retry policy. *)
LEMMA SamePolicy ==
    /\ Contract!RetryConfigs = RetryConfigs
    /\ \A rc, k, e : Contract!ShouldRetry(rc, k, e) <=> ShouldRetry(rc, k, e)
    /\ \A rc, k : Contract!Backoff(rc, k) = Backoff(rc, k)
<1>1. Contract!RetryConfigs = RetryConfigs
  BY DEF Contract!RetryConfigs, RetryConfigs
<1>2. ASSUME NEW rc, NEW k, NEW e
      PROVE  Contract!ShouldRetry(rc, k, e) <=> ShouldRetry(rc, k, e)
  BY DEF Contract!ShouldRetry, ShouldRetry, Contract!AttemptsLimited, AttemptsLimited,
         Contract!DurationLimited, DurationLimited
<1>3. \A x : Contract!Wrap(x) = Wrap(x)
  BY DEF Contract!Wrap, Wrap, Contract!MinDuration, MinDuration
<1>4. \A x : Contract!FloatToDuration(x) = FloatToDuration(x)
  BY DEF Contract!FloatToDuration, FloatToDuration, Contract!MinDuration, MinDuration
<1>5. \A rc, k : Contract!Doubled(rc, k) = Doubled(rc, k)
  BY <1>4 DEF Contract!Doubled, Doubled, Contract!Halved, Halved
<1>6. ASSUME NEW rc, NEW k PROVE Contract!Backoff(rc, k) = Backoff(rc, k)
  BY <1>3, <1>5 DEF Contract!Backoff, Backoff
<1> QED
  BY <1>1, <1>2, <1>6

(* What a driver shows, by the place where it is. *)
LEMMA Shows ==
    ASSUME NEW w \in Driver
    PROVE  /\ Requests[w] = RequestOf(w)
           /\ AtPC(w, "dispatch") =>
                /\ drv[w].sem = NoSlot =>
                     RequestOf(w) = [stage |-> "sent", task |-> drv[w].ts,
                                     lane |-> None, at |-> drv[w].at]
                /\ drv[w].sem # NoSlot =>
                     RequestOf(w) = [stage |-> "sent", task |-> drv[w].ts,
                                     lane |-> drv[w].sem, at |-> drv[w].at]
           /\ AtPC(w, "attempt") /\ drv[w].sem = NoSlot =>
                RequestOf(w) = Contract!Forced(drv[w].ts)
           /\ AtPC(w, "attempt") /\ drv[w].sem # NoSlot =>
                RequestOf(w) = Contract!NoRequest
           /\ drv[w].pc \notin {"attempt", "dispatch"} =>
                RequestOf(w) = Contract!NoRequest
BY DEF Requests, RequestOf, AtPC, Contract!Forced, Contract!NoRequest

(* A step changes what the drivers that move show. *)
LEMMA ShownOfOthers ==
    ASSUME NEW w \in Driver,
           \A v \in Driver \ {w} : RequestOf(v)' = RequestOf(v)
    PROVE  /\ Requests' = [Requests EXCEPT ![w] = RequestOf(w)']
           /\ RequestOf(w)' = RequestOf(w) => Requests' = Requests
<1>1. Requests = [v \in Driver |-> RequestOf(v)]
  BY DEF Requests
<1>2. Requests' = [v \in Driver |-> RequestOf(v)']
  BY DEF Requests
<1> HIDE DEF RequestOf
<1> QED
  BY <1>1, <1>2

(* A step in which no driver begins, and which makes no task a pull task. *)
LEMMA PushSame ==
    ASSUME Structure, OnlyPush, q'.Pull = q.Pull,
           \A t \in TaskState : status[t] # "free" => task'[t].Pull = task[t].Pull,
           \A v \in Driver :
             drv'[v].pc # "idle" => drv[v].pc # "idle" /\ drv'[v].ts = drv[v].ts
    PROVE  OnlyPush'
<1> SUFFICES ASSUME NEW v \in Driver, drv'[v].pc # "idle" PROVE Push(drv[v].ts)'
  BY DEF OnlyPush, AtPC
<1>1. /\ drv'[v].ts = drv[v].ts /\ drv[v].ts \in TaskState
      /\ status[drv[v].ts] # "free" /\ Push(drv[v].ts)
  BY DEF Structure, DriverTarget, OnlyPush, AtPC
<1> QED
  BY <1>1 DEF Push

(* A step that CreateTask has no part in. *)
LEMMA ReadySame ==
    ASSUME Structure, Ready, q'.Pull = q.Pull, status' = status, task' = task,
           \A v \in Driver :
             drv'[v].pc # "idle" => drv[v].pc # "idle" /\ drv'[v].ts = drv[v].ts
    PROVE  Ready'
<1>1. OnlyPush'
  BY PushSame DEF Ready
<1>2. Unstarted'
  BY DEF Ready, Unstarted, Contract!New
<1> QED
  BY <1>1, <1>2 DEF Ready

(* CreateTask: the task is as the client asked for it until it is added,   *)
(* and gets a driver only if it is a push task.                            *)
LEMMA ReadyCreate ==
    ASSUME TypeOK, Structure, Ready, NEW t \in TaskState, CreateTask(t)
    PROVE  Ready'
<1>0. q' = q /\ \A s \in TaskState \ {t} : task'[s] = task[s] /\ status'[s] = status[s]
  BY DEF CreateTask, CreateTaskLookup, CreateTaskRejected, CreateTaskAdd, qVars, TypeOK
<1>1. ASSUME NEW n \in Name, NEW pull \in Targets, NEW delay \in Delays,
             CreateTaskLookup(t, n, pull, delay)
      PROVE  Ready'
  <2> DEFINE r == [Name |-> n, Pull |-> pull, ScheduleTime |-> now + delay,
                   DispatchCount |-> 0, ResponseCount |-> 0,
                   executionCount |-> 0, firstAttempt |-> None,
                   last |-> "none"]
  <2>1. pull \in BOOLEAN /\ now + delay \in Int
    BY QueueAssumption DEF TypeOK
  <2>2. Contract!New(r)
    BY <2>1 DEF Contract!New
  <2> HIDE DEF r
  <2>3. task'[t] = r /\ status[t] = "free" /\ drv' = drv
    BY <1>1 DEF CreateTaskLookup, TypeOK, r
  <2>4. OnlyPush'
    BY <1>0, <2>3, PushSame DEF Ready
  <2>5. Unstarted'
    <3> SUFFICES ASSUME NEW s \in TaskState, status'[s] = "creating"
                 PROVE  Contract!New(task'[s])
      BY DEF Unstarted, Contract!New
    <3> QED
      BY <1>0, <2>2, <2>3 DEF Ready, Unstarted
  <2> QED
    BY <2>4, <2>5 DEF Ready
<1>2. ASSUME CreateTaskRejected(t) \/ CreateTaskAdd(t) PROVE Unstarted'
  <2>1. task' = task /\ status'[t] # "creating"
    BY <1>2 DEF CreateTaskRejected, CreateTaskAdd, TypeOK
  <2> SUFFICES ASSUME NEW s \in TaskState, status'[s] = "creating"
               PROVE  Contract!New(task'[s])
    BY DEF Unstarted, Contract!New
  <2> QED
    BY <1>0, <2>1 DEF Ready, Unstarted
<1>3. CASE CreateTaskRejected(t)
  <2>1. drv' = drv /\ task' = task
    BY <1>3 DEF CreateTaskRejected
  <2> QED
    BY <1>0, <1>2, <1>3, <2>1, PushSame DEF Ready
<1>4. CASE CreateTaskAdd(t)
  <2>1. task' = task
    BY <1>4 DEF CreateTaskAdd
  <2>2. CASE drv' = drv
    BY <1>0, <1>2, <1>4, <2>1, <2>2, PushSame DEF Ready
  <2>3. CASE drv' # drv
    <3>1. Push(t)
      BY <1>4, <2>3 DEF CreateTaskAdd, Schedule
    <3>2. PICK w \in Driver : OthersSame(w) /\ drv'[w].ts = t
      BY <1>4, <2>3, CallMoves
    <3>3. OnlyPush'
      <4> SUFFICES ASSUME NEW v \in Driver, drv'[v].pc # "idle"
                   PROVE  Push(drv'[v].ts)
        BY <1>0, <2>1 DEF OnlyPush, AtPC, Push
      <4> QED
        BY <3>1, <3>2 DEF OthersSame, Ready, OnlyPush, AtPC
    <3> QED
      BY <1>2, <1>4, <3>3 DEF Ready
  <2> QED
    BY <2>2, <2>3
<1> QED
  BY <1>1, <1>3, <1>4 DEF CreateTask

(* Tasks go: they keep what they are, and no driver begins. *)
LEMMA ReadyRemove ==
    ASSUME TypeOK, Structure, Ready,
           \/ \E t \in TaskState : Expire(t)
           \/ \E n \in Name : DeleteTask(n)
           \/ PurgeQueue
           \/ DeleteQueue
    PROVE  Ready'
<1>1. task' = task /\ q' = q
  BY DEF Expire, DeleteTask, PurgeQueue, DeleteQueue, qVars
<1>2. \A t \in TaskState : status'[t] = "removed" \/ status'[t] = status[t]
  BY DEF Expire, DeleteTask, PurgeQueue, DeleteQueue, RemoveLocked, Discard
<1>3. \A v \in Driver : drv'[v] = drv[v] \/ drv'[v] = Idle
  BY RemoveMoves
<1>4. OnlyPush'
  BY <1>1, <1>3, PushSame, IdleFields DEF Ready
<1>5. Unstarted'
  <2> SUFFICES ASSUME NEW s \in TaskState, status'[s] = "creating"
               PROVE  Contract!New(task'[s])
    BY DEF Unstarted, Contract!New
  <2> QED
    BY <1>1, <1>2 DEF Ready, Unstarted
<1> QED
  BY <1>4, <1>5 DEF Ready

(* The end of an attempt changes the counters of a task that was added. *)
LEMMA ReadyApply ==
    ASSUME TypeOK, Structure, Ready, NEW w \in Driver, NEW outcome \in Outcomes,
           ApplyRemove(w, outcome) \/ ApplyRetry(w, outcome)
    PROVE  Ready'
<1>0. /\ AtPC(w, "dispatch") /\ drv[w].ts \in TaskState
      /\ status[drv[w].ts] = "live"
  BY DEF ApplyRemove, ApplyRetry, AtPC, Structure, DriverTarget, Live
<1>1. q' = q /\ \A t \in TaskState : status'[t] = "removed" \/ status'[t] = status[t]
  BY DEF ApplyRemove, ApplyRetry, RemoveLocked, Discard, qVars
<1>2. PICK c \in Tasks : c = Counted(w, outcome)
  BY <1>0, CountedType
<1>3. c.Pull = task[drv[w].ts].Pull
  BY <1>0, <1>2 DEF Counted, TypeOK, Tasks
<1>4. /\ task'[drv[w].ts].Pull = c.Pull
      /\ \A t \in TaskState \ {drv[w].ts} : task'[t] = task[t]
  <2>1. CASE ApplyRemove(w, outcome)
    BY <1>0, <1>2, <2>1 DEF ApplyRemove, TypeOK
  <2>2. CASE ApplyRetry(w, outcome)
    <3>1. PICK s : task' = [task EXCEPT ![drv[w].ts] = [c EXCEPT !.ScheduleTime = s]]
      BY <1>2, <2>2 DEF ApplyRetry
    <3> QED
      BY <1>0, <1>2, <3>1 DEF TypeOK, Tasks
  <2> QED
    BY <2>1, <2>2
<1>5. \A v \in Driver :
        drv'[v].pc # "idle" => drv[v].pc # "idle" /\ drv'[v].ts = drv[v].ts
  <2>1. CASE ApplyRemove(w, outcome)
    BY <2>1, RemoveMoves, IdleFields
  <2>2. CASE ApplyRetry(w, outcome)
    BY <1>0, <2>2, AttemptMoves DEF MovesTo, OthersSame, AtPC
  <2> QED
    BY <2>1, <2>2
<1>6. OnlyPush'
  BY <1>1, <1>3, <1>4, <1>5, PushSame DEF Ready
<1>7. Unstarted'
  <2> SUFFICES ASSUME NEW s \in TaskState, status'[s] = "creating"
               PROVE  Contract!New(task'[s])
    BY DEF Unstarted, Contract!New
  <2> QED
    BY <1>0, <1>1, <1>4 DEF Ready, Unstarted
<1> QED
  BY <1>6, <1>7 DEF Ready

(* RunTask is refused for pull tasks. *)
LEMMA ReadyRun ==
    ASSUME TypeOK, Structure, Ready, NEW n \in Name, RunTask(n)
    PROVE  Ready'
<1>1. PICK t \in TaskState : t = tasks[n] /\ Push(t) /\ status[t] = "live"
  <2>1. tasks[n] \in TaskState /\ tasks[n] # None /\ Push(tasks[n])
    BY CallMoves DEF RunTask
  <2>2. Live(tasks[n])
    BY <2>1 DEF Structure, IndexMatches
  <2> QED
    BY <2>1, <2>2 DEF Live
<1>2. q' = q /\ status' = status /\ task' = [task EXCEPT ![t].ScheduleTime = now]
  BY <1>1 DEF RunTask, qVars
<1>3. task'[t].Pull = task[t].Pull /\ \A s \in TaskState \ {t} : task'[s] = task[s]
  BY <1>2 DEF TypeOK, Tasks
<1>4. PICK w \in Driver : OthersSame(w) /\ drv'[w].ts = t
  BY <1>1, CallMoves
<1>5. OnlyPush'
  <2> SUFFICES ASSUME NEW v \in Driver, drv'[v].pc # "idle"
               PROVE  Push(drv[v].ts)'
    BY DEF OnlyPush, AtPC
  <2>1. drv'[v].ts \in TaskState /\ Push(drv'[v].ts)
    BY <1>1, <1>4 DEF OthersSame, Ready, OnlyPush, AtPC, Structure, DriverTarget
  <2> QED
    BY <1>2, <1>3, <2>1 DEF Push
<1>6. Unstarted'
  <2> SUFFICES ASSUME NEW s \in TaskState, status'[s] = "creating"
               PROVE  Contract!New(task'[s])
    BY DEF Unstarted, Contract!New
  <2> QED
    BY <1>1, <1>2, <1>3 DEF Ready, Unstarted
<1> QED
  BY <1>5, <1>6 DEF Ready

(* Every step keeps drivers away from pull tasks. *)
LEMMA ReadyStep ==
    ASSUME TypeOK, Structure, Ready, [Next]_vars
    PROVE  Ready'
<1>1. CASE \/ UNCHANGED vars
           \/ \E t \in TaskState : TTLTimerExpires(t)
           \/ \E n \in Name : CleanupTombstone(n)
           \/ Tick
  BY <1>1, ReadySame DEF vars, TTLTimerExpires, CleanupTombstone, Tick, taskVars, qVars
<1>2. CASE \E st \in {"RUNNING", "PAUSED"} : SetQueueState(st)
  <2>1. q'.Pull = q.Pull
    BY <1>2 DEF SetQueueState, TypeOK, Queues
  <2> QED
    BY <1>2, <2>1, ReadySame DEF SetQueueState, taskVars
<1>3. CASE \E new \in NewQueues, mask \in SUBSET Fields : UpdateQueue(new, mask)
  <2>1. q'.Pull = q.Pull
    BY <1>3 DEF UpdateQueue, ApplyQueueDefaults, TypeOK, Queues
  <2> QED
    BY <1>3, <2>1, ReadySame DEF UpdateQueue, taskVars
<1>4. ASSUME NEW w \in Driver, Fire(w) \/ AcquireSlot(w) PROVE Ready'
  <2>1. q' = q /\ status' = status /\ task' = task
    BY <1>4 DEF Fire, TimerExpires, FireRemoved, FireHeld, FirePass, AcquireSlot,
                taskVars, qVars
  <2>2. AtPC(w, "idle") = FALSE
    BY <1>4 DEF Fire, TimerExpires, FireRemoved, FireHeld, FirePass, AcquireSlot, AtPC
  <2>3. \A v \in Driver :
          drv'[v].pc # "idle" => drv[v].pc # "idle" /\ drv'[v].ts = drv[v].ts
    BY <1>4, <2>2, FireMoves, IdleFields DEF Fire, MovesTo, Ends, OthersSame, AtPC
  <2> QED
    BY <2>1, <2>3, ReadySame
<1>5. ASSUME NEW w \in Driver, Attempt(w) PROVE Ready'
  <2>1. CASE AttemptAborted(w) \/ ApplyStale(w) \/ SnapshotAttempt(w)
    <3>1. q' = q /\ status' = status /\ task' = task
      BY <2>1 DEF AttemptAborted, ApplyStale, SnapshotAttempt, taskVars, qVars
    <3>2. drv[w].pc # "idle"
      BY <2>1 DEF AttemptAborted, ApplyStale, SnapshotAttempt, AtPC
    <3>3. \A v \in Driver :
            drv'[v].pc # "idle" => drv[v].pc # "idle" /\ drv'[v].ts = drv[v].ts
      BY <2>1, <3>2, AttemptMoves, IdleFields DEF MovesTo, Ends, OthersSame
    <3> QED
      BY <3>1, <3>3, ReadySame
  <2> QED
    BY <1>5, <2>1, ReadyApply DEF Attempt
<1> QED
  BY <1>1, <1>2, <1>3, <1>4, <1>5, ReadyCreate, ReadyRemove, ReadyRun DEF Next

(* A new queue has neither drivers nor tasks. *)
LEMMA ReadyInit == Init => Ready
BY IdleFields DEF Init, Ready, OnlyPush, Unstarted, AtPC

---------------------------------------------------------------------------
(* What a step has to show: a step of the contract, or nothing. *)
Kept == Contract!Next \/ UNCHANGED Contract!vars

(* What is shown of a task that is in the queue, or was. *)
LEMMA ShownTask ==
    ASSUME NEW t \in TaskState
    PROVE  /\ t \in Queued <=> Live(t)
           /\ status[t] \in {"live", "removed"} => Created[t] = task[t]
           /\ status[t] \notin {"live", "removed"} => Created[t] = NoTask
BY DEF Queued, Created

(* What is shown of the settings depends on q and eng. *)
LEMMA SettingsSame ==
    ASSUME q' = q, eng' = eng
    PROVE  Settings' = Settings
BY DEF Settings, EffectiveTombstoneTTL

(* Tasks that stay where they are, or that CreateTask has not added. *)
LEMMA TasksSame ==
    ASSUME \A t \in TaskState :
             \/ status'[t] = status[t] /\ task'[t] = task[t]
             \/ {status[t], status'[t]} \subseteq {"free", "creating"}
    PROVE  Created' = Created /\ Queued' = Queued
<1>1. Created' = Created
  BY DEF Created
<1>2. Queued' = Queued
  BY DEF Queued, Live
<1> QED
  BY <1>1, <1>2

(* A step that shows nothing. *)
LEMMA HiddenStep ==
    ASSUME now' = now, q' = q, eng' = eng, capacity' = capacity,
           \A t \in TaskState :
             \/ status'[t] = status[t] /\ task'[t] = task[t]
             \/ {status[t], status'[t]} \subseteq {"free", "creating"},
           reserved' = reserved, held' = held, forked' = forked,
           \A v \in Driver : RequestOf(v)' = RequestOf(v)
    PROVE  Kept
<1>1. Settings' = Settings
  BY SettingsSame
<1>2. Created' = Created /\ Queued' = Queued
  BY TasksSame
<1>3. Requests' = Requests
  BY DEF Requests
<1> QED
  BY <1>1, <1>2, <1>3 DEF Kept, Contract!vars, Contract!names

(* The tasks of S leave the queue, and their names are kept. *)
LEMMA Leaving ==
    ASSUME TypeOK, NEW S \in SUBSET TaskState, \A t \in S : Live(t),
           Discard(S)
    PROVE  /\ Queued' = Queued \ S
           /\ Tombstone(S) => Contract!Leave(S)
<1>1. \A t \in TaskState : Live(t)' <=> t \notin S /\ Live(t)
  BY DEF Discard, Live
<1>2. Queued' = Queued \ S
  BY <1>1 DEF Queued
<1>3. \A t \in S : Created[t] = task[t]
  BY DEF Created, Live
<1>4. \A n \in Name : n \in NamesOf(S) <=> \E t \in S : Created[t].Name = n
  BY <1>3 DEF NamesOf
<1>5. Settings.keep = EffectiveTombstoneTTL /\ EffectiveTombstoneTTL \in Int
  BY TTLType DEF Settings
<1>6. ASSUME Tombstone(S)
      PROVE  reserved' = [n \in Name |->
                            IF Settings.keep >= 0 /\ \E t \in S : Created[t].Name = n
                            THEN now + Settings.keep ELSE reserved[n]]
  <2>1. CASE EffectiveTombstoneTTL < 0
    <3>1. reserved' = reserved /\ ~(Settings.keep >= 0)
      BY <1>5, <1>6, <2>1 DEF Tombstone
    <3> QED
      BY <3>1 DEF TypeOK
  <2>2. CASE ~(EffectiveTombstoneTTL < 0)
    <3>1. reserved' = Reservation(S, reserved) /\ Settings.keep >= 0
      BY <1>5, <1>6, <2>2 DEF Tombstone
    <3> QED
      BY <1>4, <1>5, <3>1 DEF Reservation
  <2> QED
    BY <2>1, <2>2
<1> QED
  BY <1>2, <1>6 DEF Contract!Leave

(* What is listed is what is queued. *)
LEMMA ListedQueued ==
    ASSUME TypeOK, Structure
    PROVE  /\ Listed = Queued
           /\ Listed \in SUBSET TaskState
           /\ \A t \in Listed : Live(t)
<1>1. \A t \in Listed : t \in TaskState /\ Live(t)
  BY DEF Listed, TypeOK, Structure, IndexMatches
<1>2. ASSUME NEW t \in TaskState, Live(t) PROVE t \in Listed
  BY <1>2, QueueAssumption DEF Listed, Structure, IndexMatches
<1> QED
  BY <1>1, <1>2 DEF Queued

(* A task that leaves the queue is shown as it was. *)
LEMMA LeavingKept ==
    ASSUME NEW S \in SUBSET TaskState, \A t \in S : Live(t), Discard(S), task' = task
    PROVE  Created' = Created
<1>1. \A t \in TaskState :
        status'[t] \in {"live", "removed"} <=> status[t] \in {"live", "removed"}
  BY DEF Discard, Live
<1> QED
  BY <1>1 DEF Created

(* Drivers that were armed show nothing, and nothing when they are stopped. *)
LEMMA StoppedShown ==
    ASSUME NEW v \in Driver,
           drv'[v] = drv[v] \/ (drv'[v] = Idle /\ AtPC(v, "armed"))
    PROVE  RequestOf(v)' = RequestOf(v)
<1>1. CASE drv'[v] = drv[v]
  BY <1>1 DEF RequestOf, AtPC
<1>2. CASE drv'[v] = Idle /\ AtPC(v, "armed")
  BY <1>2, IdleFields DEF RequestOf, AtPC
<1> QED
  BY <1>1, <1>2

(* Tasks leave the queue by a call, or by their TTL. *)
LEMMA RemoveKept ==
    ASSUME TypeOK, Structure,
           \/ \E t \in TaskState : Expire(t)
           \/ \E n \in Name : DeleteTask(n)
           \/ PurgeQueue
           \/ DeleteQueue
    PROVE  Kept
<1>1. /\ now' = now /\ q' = q /\ eng' = eng /\ capacity' = capacity /\ task' = task
      /\ forked' = forked /\ held' = held
  BY DEF Expire, DeleteTask, PurgeQueue, DeleteQueue, qVars
<1>2. \A v \in Driver : RequestOf(v)' = RequestOf(v)
  BY RemoveMoves, StoppedShown
<1>3. Settings' = Settings /\ Requests' = Requests
  BY <1>1, <1>2, SettingsSame DEF Requests
<1>4. ASSUME NEW t \in TaskState, Live(t), Discard({t}), Tombstone({t})
      PROVE  Kept
  <2>1. {t} \in SUBSET TaskState /\ \A s \in {t} : Live(s)
    BY <1>4
  <2>2. Contract!Leave({t}) /\ Created' = Created /\ t \in Queued
    BY <1>1, <1>4, <2>1, Leaving, LeavingKept, ShownTask
  <2>3. Contract!Remove(t)
    BY <1>1, <1>3, <2>2 DEF Contract!Remove
  <2> QED
    BY <2>3 DEF Kept, Contract!Next
<1>5. ASSUME NEW t \in TaskState, Expire(t) PROVE Kept
  <2>1. CASE Live(t)
    BY <1>4, <1>5, <2>1 DEF Expire, RemoveLocked
  <2>2. CASE ~Live(t)
    <3>1. status' = status /\ reserved' = reserved
      BY <1>5, <2>2 DEF Expire, nameVars
    <3> QED
      BY <1>1, <1>2, <3>1, HiddenStep
  <2> QED
    BY <2>1, <2>2
<1>6. ASSUME NEW n \in Name, DeleteTask(n) PROVE Kept
  <2>1. tasks[n] \in TaskState /\ Live(tasks[n])
    BY <1>6 DEF DeleteTask, TypeOK, Structure, IndexMatches
  <2> QED
    BY <1>4, <1>6, <2>1 DEF DeleteTask, RemoveLocked
<1>7. ASSUME PurgeQueue \/ DeleteQueue
      PROVE  Discard(Listed) /\ Queued' = {} /\ Created' = Created
  <2>1. Discard(Listed)
    BY <1>7 DEF PurgeQueue, DeleteQueue
  <2>2. Queued' = Queued \ Listed /\ Created' = Created
    BY <1>1, <2>1, ListedQueued, Leaving, LeavingKept
  <2> QED
    BY <2>1, <2>2, ListedQueued
<1>8. CASE PurgeQueue
  <2>1. CASE eng.hardResetOnPurge
    <3>1. reserved' = [n \in Name |-> None] /\ Settings.hardReset
      BY <1>8, <2>1 DEF PurgeQueue, Settings
    <3>2. Contract!Purge
      BY <1>1, <1>3, <1>7, <1>8, <3>1 DEF Contract!Purge
    <3> QED
      BY <3>2 DEF Kept, Contract!Next
  <2>2. CASE ~eng.hardResetOnPurge
    <3>1. Tombstone(Listed) /\ ~Settings.hardReset
      BY <1>8, <2>2 DEF PurgeQueue, Settings
    <3>2. Contract!Leave(Queued)
      BY <1>7, <1>8, <3>1, ListedQueued, Leaving
    <3>3. Contract!Purge
      BY <1>1, <1>3, <1>7, <1>8, <3>1, <3>2 DEF Contract!Purge
    <3> QED
      BY <3>3 DEF Kept, Contract!Next
  <2> QED
    BY <2>1, <2>2
<1>9. CASE DeleteQueue
  <2>1. Contract!Close
    BY <1>1, <1>3, <1>7, <1>9 DEF Contract!Close, DeleteQueue
  <2> QED
    BY <2>1 DEF Kept, Contract!Next
<1> QED
  BY <1>5, <1>6, <1>8, <1>9

(* CreateTask takes effect when it adds the task: the name is free. *)
LEMMA CreateKept ==
    ASSUME TypeOK, Structure, Reservations, Ready, NEW t \in TaskState, CreateTask(t)
    PROVE  Kept
<1>1. /\ now' = now /\ q' = q /\ eng' = eng /\ capacity' = capacity
      /\ forked' = forked /\ reserved' = reserved
      /\ \A s \in TaskState \ {t} : task'[s] = task[s] /\ status'[s] = status[s]
  BY DEF CreateTask, CreateTaskLookup, CreateTaskRejected, CreateTaskAdd, qVars,
         nameVars, TypeOK
<1>2. CASE ~CreateTaskAdd(t)
  <2>1. /\ held' = held /\ drv' = drv
        /\ {status[t], status'[t]} \subseteq {"free", "creating"}
    BY <1>2 DEF CreateTask, CreateTaskLookup, CreateTaskRejected, TypeOK
  <2>2. \A v \in Driver : RequestOf(v)' = RequestOf(v)
    BY <2>1 DEF RequestOf, AtPC
  <2> QED
    BY <1>1, <2>1, <2>2, HiddenStep
<1>3. CASE CreateTaskAdd(t)
  <2>1. /\ status[t] = "creating" /\ status'[t] = "live" /\ task' = task
        /\ ~NameTaken(t)
        /\ held' = IF q.State # "RUNNING" THEN held \union {t} ELSE held
    BY <1>3 DEF CreateTaskAdd, TypeOK
  <2>2. /\ Created' = [Created EXCEPT ![t] = task[t]]
        /\ Created'[t] = task[t]
        /\ Queued' = Queued \union {t}
    BY <1>1, <2>1 DEF Created, Queued, Live
  <2>3. \A v \in Driver : RequestOf(v)' = RequestOf(v)
    <3>1. CASE drv' = drv
      BY <3>1 DEF RequestOf, AtPC
    <3>2. CASE drv' # drv
      BY <1>3, <3>2, CallMoves DEF OthersSame, RequestOf, AtPC
    <3> QED
      BY <3>1, <3>2
  <2>4. Requests' = Requests /\ Settings' = Settings
    BY <1>1, <2>3, SettingsSame DEF Requests
  <2>5. Contract!New(Created'[t])
    BY <2>1, <2>2 DEF Ready, Unstarted
  <2>6. ~Contract!Taken(task[t].Name)
    <3>1. task[t].Name \in Name
      BY <2>1 DEF Structure, Named
    <3>2. ASSUME NEW s \in Queued PROVE Created[s].Name # task[t].Name
      <4>1. s \in TaskState /\ Live(s) /\ Created[s] = task[s]
        BY ShownTask DEF Queued, Live
      <4>2. tasks[task[s].Name] = s /\ s # None
        BY <4>1, QueueAssumption DEF Structure, IndexMatches
      <4> QED
        BY <2>1, <4>1, <4>2 DEF NameTaken
    <3>3. ~(reserved[task[t].Name] # None /\ now < reserved[task[t].Name])
      BY <2>1, <3>1 DEF NameTaken, Tombstoned, Reservations, ReservedNamesFree
    <3> QED
      BY <3>2, <3>3 DEF Contract!Taken
  <2>7. Created[t] = Contract!NoTask
    BY <2>1 DEF Created, NoTask, Contract!NoTask
  <2>8. held' = IF Settings.running THEN held ELSE held \union {t}
    BY <2>1 DEF Settings
  <2>9. Contract!Create(t)
    BY <1>1, <2>2, <2>4, <2>5, <2>6, <2>7, <2>8 DEF Contract!Create
  <2> QED
    BY <2>9 DEF Kept, Contract!Next
<1> QED
  BY <1>2, <1>3

(* PauseQueue and ResumeQueue. *)
LEMMA StateKept ==
    ASSUME TypeOK, NEW st \in {"RUNNING", "PAUSED"}, SetQueueState(st)
    PROVE  Kept
<1>1. /\ now' = now /\ eng' = eng /\ capacity' = capacity /\ status' = status
      /\ task' = task /\ reserved' = reserved /\ drv' = drv /\ forked' = forked
      /\ q' = [q EXCEPT !.State = st]
      /\ held' = IF st = "RUNNING" THEN {} ELSE held
  BY DEF SetQueueState, nameVars, taskVars
<1>2. Created' = Created /\ Queued' = Queued
  BY <1>1, TasksSame
<1>3. Requests' = Requests
  BY <1>1 DEF Requests, RequestOf, AtPC
<1>4. /\ q'.State = st /\ q'.RetryConfig = q.RetryConfig /\ q'.Pull = q.Pull
      /\ q'.TombstoneTTL = q.TombstoneTTL
  BY <1>1 DEF TypeOK, Queues
<1>5. Settings' = [Settings EXCEPT !.running = (st = "RUNNING")]
  BY <1>1, <1>4 DEF Settings, EffectiveTombstoneTTL
<1>6. Contract!SetRunning(st = "RUNNING")
  BY <1>1, <1>2, <1>3, <1>5 DEF Contract!SetRunning, Contract!names
<1>7. (st = "RUNNING") \in BOOLEAN
  OBVIOUS
<1> QED
  BY <1>6, <1>7 DEF Kept, Contract!Next

(* UpdateQueue opens the lane of the semaphore it makes. *)
LEMMA UpdateKept ==
    ASSUME TypeOK, Slotted, NEW new \in NewQueues, NEW mask \in SUBSET Fields,
           UpdateQueue(new, mask)
    PROVE  Kept
<1>1. /\ now' = now /\ eng' = eng /\ status' = status
      /\ task' = task /\ reserved' = reserved /\ drv' = drv /\ forked' = forked
      /\ held' = held /\ gen < MaxUpdates
      /\ capacity' = [capacity EXCEPT ![gen + 1] = Slots(q')]
  BY DEF UpdateQueue, nameVars, taskVars
<1>2. Created' = Created /\ Queued' = Queued
  BY <1>1, TasksSame
<1>3. Requests' = Requests
  BY <1>1 DEF Requests, RequestOf, AtPC
<1>4. q'.State = q.State /\ q'.Pull = q.Pull /\ q'.TombstoneTTL = q.TombstoneTTL
  BY DEF UpdateQueue, ApplyQueueDefaults, TypeOK, Queues
<1>5. /\ Settings' = [Settings EXCEPT !.retry = q'.RetryConfig]
      /\ Settings'.retry = q'.RetryConfig
  BY <1>1, <1>4 DEF Settings, EffectiveTombstoneTTL
<1>6. q' \in Queues
  BY TypeQueueCalls DEF TypeOK
<1>7. q'.RetryConfig \in Contract!RetryConfigs
  BY <1>6, SamePolicy DEF Queues
<1>8. gen + 1 \in Generation /\ gen + 1 > gen
  BY <1>1, QueueAssumption DEF TypeOK, Generation
<1>9. capacity[gen + 1] = 0
  BY <1>8 DEF Slotted, FreshSemaphores
<1>10. capacity'[gen + 1] = Slots(q') /\ Slots(q') \in Nat \ {0}
  BY <1>1, <1>6, <1>8, SlotsType DEF TypeOK
<1>11. Contract!Update(gen + 1)
  BY <1>1, <1>2, <1>3, <1>5, <1>7, <1>9, <1>10 DEF Contract!Update, Contract!names
<1> QED
  BY <1>8, <1>11 DEF Kept, Contract!Next

(* RunTask is a request of its own. *)
LEMMA RunKept ==
    ASSUME TypeOK, Structure, Punctual, Counting, Pointed, NEW n \in Name, RunTask(n)
    PROVE  Kept
<1>1. PICK t \in TaskState : t = tasks[n] /\ Push(t) /\ Live(t)
  <2>1. tasks[n] \in TaskState /\ tasks[n] # None /\ Push(tasks[n])
    BY CallMoves DEF RunTask
  <2> QED
    BY <2>1 DEF Structure, IndexMatches
<1>2. PICK w \in Driver :
        /\ OthersSame(w)
        /\ drv'[w].pc = "attempt" /\ drv'[w].ts = t /\ drv'[w].sem = NoSlot
        /\ AtPC(w, "armed") \/ AtPC(w, "idle")
        /\ forked' = forked \/ forked' = forked \union {t}
  BY <1>1, CallMoves
<1>3. /\ now' = now /\ q' = q /\ eng' = eng /\ capacity' = capacity
      /\ status' = status /\ reserved' = reserved /\ held' = held
      /\ task' = [task EXCEPT ![t].ScheduleTime = now]
  BY <1>1 DEF RunTask, qVars, nameVars
<1>4. RequestOf(w) = Contract!NoRequest /\ RequestOf(w)' = Contract!Forced(t)
  BY <1>2 DEF RequestOf, AtPC, Contract!NoRequest, Contract!Forced
<1>5. \A v \in Driver \ {w} : RequestOf(v)' = RequestOf(v)
  BY <1>2 DEF OthersSame, RequestOf, AtPC
<1>6. /\ Requests[w] = Contract!NoRequest
      /\ Requests' = [Requests EXCEPT ![w] = Contract!Forced(t)]
  BY <1>4, <1>5, Shows, ShownOfOthers
<1>7. Settings' = Settings
  BY <1>3, SettingsSame
<1>8. t \in Queued /\ Created[t] = task[t] /\ Queued' = Queued
  BY <1>1, <1>3, ShownTask DEF Live, Queued
<1>9. Created' = [Created EXCEPT ![t].ScheduleTime = now]
  BY <1>1, <1>3 DEF Created, Live, TypeOK
<1>10. ~Settings.pull /\ ~Created[t].Pull
  BY <1>1, <1>8 DEF Push, Settings
<1>11. \/ forked' = forked
       \/ now >= Created[t].ScheduleTime /\ forked' = forked \union {t}
  <2>1. CASE timer[t] # None \/ t \in forked
    BY <1>1, <2>1 DEF RunTask
  <2>2. CASE timer[t] = None /\ t \notin forked
    BY <1>1, <1>2, <1>8, <2>2, TooLateWhenDue
  <2> QED
    BY <2>1, <2>2
<1>12. Contract!Run(w, t)
  BY <1>2, <1>3, <1>6, <1>7, <1>8, <1>9, <1>10, <1>11 DEF Contract!Run, Contract!names
<1> QED
  BY <1>12 DEF Kept, Contract!Next

(* A timer, fire and the wait for a slot show nothing, but for a task that *)
(* is held.                                                                *)
LEMMA FireKept ==
    ASSUME TypeOK, Structure, NEW w \in Driver, Fire(w) \/ AcquireSlot(w)
    PROVE  Kept
<1>1. /\ now' = now /\ q' = q /\ eng' = eng /\ capacity' = capacity
      /\ status' = status /\ task' = task /\ reserved' = reserved /\ forked' = forked
  BY DEF Fire, TimerExpires, FireRemoved, FireHeld, FirePass, AcquireSlot, qVars,
         nameVars, taskVars
<1>2. /\ drv[w].pc \in {"armed", "fired", "throttled"}
      /\ drv[w].ts \in TaskState
      /\ OthersSame(w)
  BY FireMoves DEF Fire, TimerExpires, FireRemoved, FireHeld, FirePass, AcquireSlot,
                   MovesTo, Ends, AtPC, Structure, DriverTarget
<1>3. /\ drv'[w].pc \in {"idle", "armed", "fired", "throttled", "attempt"}
      /\ drv'[w].pc = "attempt" => drv'[w].sem # NoSlot
  <2>1. CASE AcquireSlot(w)
    <3>1. drv[w].sem \in 0 .. gen /\ gen \in Nat
      BY <2>1 DEF AcquireSlot, Structure, DriverTarget, TypeOK, Generation
    <3>2. drv[w].sem # NoSlot
      BY <3>1 DEF NoSlot
    <3> QED
      BY <2>1, <3>2, FireMoves DEF MovesTo
  <2>2. CASE Fire(w)
    BY <2>2, FireMoves, IdleFields DEF Fire, MovesTo, Ends
  <2> QED
    BY <2>1, <2>2
<1>4. \A v \in Driver : RequestOf(v)' = RequestOf(v)
  BY <1>2, <1>3 DEF OthersSame, RequestOf, AtPC
<1>5. CASE ~FireHeld(w)
  <2>1. held' = held
    BY <1>5 DEF Fire, TimerExpires, FireRemoved, FirePass, AcquireSlot
  <2> QED
    BY <1>1, <1>4, <2>1, HiddenStep
<1>6. CASE FireHeld(w)
  <2>1. Live(drv[w].ts) /\ ~Settings.running /\ held' = held \union {drv[w].ts}
    BY <1>6 DEF FireHeld, Holding, Settings
  <2>2. drv[w].ts \in Queued
    BY <1>2, <2>1, ShownTask
  <2>3. Created' = Created /\ Queued' = Queued
    BY <1>1, TasksSame
  <2>4. Settings' = Settings /\ Requests' = Requests
    BY <1>1, <1>4, SettingsSame DEF Requests
  <2>5. Contract!Hold(drv[w].ts)
    BY <1>1, <2>1, <2>2, <2>3, <2>4 DEF Contract!Hold, Contract!names
  <2> QED
    BY <1>2, <2>5 DEF Kept, Contract!Next
<1> QED
  BY <1>5, <1>6

(* An attempt of a task that is gone ends. *)
LEMMA DropKept ==
    ASSUME TypeOK, Structure, NEW w \in Driver, AttemptAborted(w) \/ ApplyStale(w)
    PROVE  Kept
<1>1. /\ now' = now /\ q' = q /\ eng' = eng /\ capacity' = capacity
      /\ status' = status /\ task' = task /\ reserved' = reserved /\ forked' = forked
      /\ held' = held
  BY DEF AttemptAborted, ApplyStale, qVars, nameVars, taskVars
<1>2. /\ AtPC(w, "attempt") \/ AtPC(w, "dispatch")
      /\ drv[w].ts \in TaskState /\ ~Live(drv[w].ts)
  BY DEF AttemptAborted, ApplyStale, AtPC, Structure, DriverTarget
<1>3. OthersSame(w) /\ drv'[w] = Idle
  BY AttemptMoves DEF Ends
<1>4. /\ RequestOf(w)' = Contract!NoRequest
      /\ \A v \in Driver \ {w} : RequestOf(v)' = RequestOf(v)
  BY <1>3, IdleFields DEF OthersSame, RequestOf, AtPC, Contract!NoRequest
<1>5. CASE RequestOf(w) = Contract!NoRequest
  <2>1. \A v \in Driver : RequestOf(v)' = RequestOf(v)
    BY <1>4, <1>5
  <2> QED
    BY <1>1, <2>1, HiddenStep
<1>6. CASE RequestOf(w) # Contract!NoRequest
  <2>1. RequestOf(w).task = drv[w].ts
    BY <1>2, <1>6 DEF RequestOf, AtPC, Contract!NoRequest
  <2>2. /\ Requests' = [Requests EXCEPT ![w] = Contract!NoRequest]
        /\ Requests[w] = RequestOf(w)
    BY <1>4, ShownOfOthers, Shows
  <2>3. drv[w].ts \notin Queued
    BY <1>2, ShownTask
  <2>4. Created' = Created /\ Queued' = Queued /\ Settings' = Settings
    BY <1>1, TasksSame, SettingsSame
  <2>5. Contract!Drop(w)
    BY <1>1, <1>6, <2>1, <2>2, <2>3, <2>4 DEF Contract!Drop, Contract!names
  <2> QED
    BY <2>5 DEF Kept, Contract!Next
<1> QED
  BY <1>5, <1>6

(* The requests under way are those of the drivers in an exchange. *)
LEMMA UnderWayDrivers ==
    /\ Contract!UnderWay = {v \in Driver : AtPC(v, "dispatch")}
    /\ \A v \in Contract!UnderWay :
         /\ Requests[v].task = drv[v].ts
         /\ Requests[v].lane = IF drv[v].sem = NoSlot THEN None ELSE drv[v].sem
         /\ Requests[v].at = drv[v].at
<1>1. \A v \in Driver : RequestOf(v).stage = "sent" <=> AtPC(v, "dispatch")
  BY DEF RequestOf
<1>2. \A v \in Driver : Requests[v] = RequestOf(v)
  BY Shows
<1>3. Contract!UnderWay = {v \in Driver : AtPC(v, "dispatch")}
  BY <1>1, <1>2 DEF Contract!UnderWay
<1>4. \A v \in Driver : AtPC(v, "dispatch") =>
        /\ RequestOf(v).task = drv[v].ts
        /\ RequestOf(v).lane = IF drv[v].sem = NoSlot THEN None ELSE drv[v].sem
        /\ RequestOf(v).at = drv[v].at
  BY DEF RequestOf
<1> QED
  BY <1>2, <1>3, <1>4

(* The abstract specification counts in the same way. *)
LEMMA SameCardinality == \A S : Contract!Cardinality(S) = Cardinality(S)
BY DEF Contract!Cardinality, Cardinality

(* A driver that is about to send has a slot that no request under way has. *)
LEMMA SlotFree ==
    ASSUME TypeOK, Slotted, NEW w \in Driver, AtPC(w, "attempt"),
           NEW g \in Generation, drv[w].sem = g
    PROVE  Cardinality({s \in Contract!UnderWay : Requests[s].lane = g}) < capacity[g]
<1> DEFINE L == {s \in Contract!UnderWay : Requests[s].lane = g}
<1>1. NoSlot # g /\ None # g
  BY QueueAssumption DEF NoSlot, Generation
<1>2. L \subseteq Holders(g) \ {w}
  BY <1>1, UnderWayDrivers DEF Holders, AtPC
<1>3. /\ IsFiniteSet(Holders(g) \ {w})
      /\ Cardinality(Holders(g) \ {w}) = Cardinality(Holders(g)) - 1
  <2>1. w \in Holders(g)
    BY DEF Holders, AtPC
  <2> QED
    BY <2>1, HoldersCount, FS_RemoveElement
<1>4. Cardinality(L) <= Cardinality(Holders(g) \ {w}) /\ Cardinality(L) \in Nat
  BY <1>2, <1>3, FS_Subset, FS_CardinalityType
<1>5. /\ Cardinality(Holders(g)) <= capacity[g] /\ capacity[g] \in Nat
      /\ Cardinality(Holders(g)) \in Nat
  BY HoldersCount DEF Slotted, SlotsAccounted, TypeOK
<1> HIDE DEF L
<1>6. Cardinality(L) < capacity[g]
  BY <1>3, <1>4, <1>5
<1> QED
  BY <1>6 DEF L

(* snapshotAttempt sends what the contract allows to be sent. *)
LEMMA SendKept ==
    ASSUME TypeOK, Structure, Slotted, Pausing, Punctual, Ready,
           NEW w \in Driver, SnapshotAttempt(w)
    PROVE  Kept
<1>1. /\ now' = now /\ q' = q /\ eng' = eng /\ capacity' = capacity
      /\ status' = status /\ task' = task /\ reserved' = reserved /\ forked' = forked
      /\ held' = held /\ AtPC(w, "attempt")
  BY DEF SnapshotAttempt, qVars, nameVars, taskVars
<1>2. PICK t \in TaskState : t = drv[w].ts /\ Live(t) /\ Push(t)
  BY <1>1 DEF SnapshotAttempt, AtPC, Structure, DriverTarget, Ready, OnlyPush
<1>3. PICK l : l = IF drv[w].sem = NoSlot THEN None ELSE drv[w].sem
  OBVIOUS
<1>4. /\ OthersSame(w) /\ drv'[w].pc = "dispatch" /\ drv'[w].ts = t
      /\ drv'[w].sem = drv[w].sem /\ drv'[w].at = now
  BY <1>2, AttemptMoves DEF MovesTo
<1>5. RequestOf(w)' = Contract!Sent(t, l)
  BY <1>3, <1>4 DEF RequestOf, AtPC, Contract!Sent
<1>6. \A v \in Driver \ {w} : RequestOf(v)' = RequestOf(v)
  BY <1>4 DEF OthersSame, RequestOf, AtPC
<1>7. Requests' = [Requests EXCEPT ![w] = Contract!Sent(t, l)]
  BY <1>5, <1>6, ShownOfOthers
<1>8. Created' = Created /\ Queued' = Queued /\ Settings' = Settings
  BY <1>1, TasksSame, SettingsSame
<1>9. t \in Queued /\ Created[t] = task[t] /\ ~Settings.pull /\ ~task[t].Pull
  BY <1>2, ShownTask DEF Live, Push, Settings
<1>10. \/ /\ Requests[w] = Contract!NoRequest
          /\ l \in Generation
          /\ Cardinality({s \in Contract!UnderWay : Requests[s].lane = l}) < capacity[l]
          /\ t \in held => t \in forked
       \/ /\ Requests[w] = Contract!Forced(t)
          /\ l = None
  <2>1. CASE drv[w].sem = NoSlot
    BY <1>1, <1>2, <1>3, <2>1, Shows
  <2>2. CASE drv[w].sem # NoSlot
    <3>1. l \in Generation /\ l = drv[w].sem
      BY <1>3, <2>2 DEF TypeOK, Drivers
    <3>2. t \in held => t \in forked
      BY <1>2, <2>2 DEF Pausing, HeldNotDispatched
    <3>3. Requests[w] = Contract!NoRequest
      BY <1>1, <2>2, Shows
    <3> QED
      BY <1>1, <3>1, <3>2, <3>3, SlotFree
  <2> QED
    BY <2>1, <2>2
<1>11. ASSUME t \notin forked
       PROVE  /\ now >= Created[t].ScheduleTime
              /\ \A s \in Contract!UnderWay : Requests[s].task # t
  <2>1. now >= task[t].ScheduleTime
    BY <1>1, <1>2, <1>11 DEF Punctual, OnTime, AtPC
  <2>2. ASSUME NEW s \in Contract!UnderWay PROVE Requests[s].task # t
    <3>1. s \in Driver /\ AtPC(s, "dispatch") /\ Requests[s].task = drv[s].ts
      BY UnderWayDrivers
    <3>2. s # w
      BY <1>1, <3>1 DEF AtPC
    <3> QED
      BY <1>2, <1>11, <3>1, <3>2 DEF Structure, SingleChain
  <2> QED
    BY <1>9, <2>1, <2>2
<1>12. l \in Generation \union {None}
  BY <1>3 DEF TypeOK, Drivers
<1>13. Contract!Send(w, t, l)
  BY <1>1, <1>7, <1>8, <1>9, <1>10, <1>11, SameCardinality
     DEF Contract!Send, Contract!names
<1> QED
  BY <1>12, <1>13 DEF Kept, Contract!Next

(* The end of an exchange: the result of w, for a task of the queue. *)
LEMMA ResultShown ==
    ASSUME TypeOK, Structure, NEW w \in Driver, NEW outcome \in Outcomes,
           ApplyRemove(w, outcome) \/ ApplyRetry(w, outcome)
    PROVE  /\ drv[w].ts \in TaskState /\ Live(drv[w].ts)
           /\ Requests[w].task = drv[w].ts
           /\ Contract!Result(w)
           /\ Contract!Counted(w, outcome) = Counted(w, outcome)
           /\ Contract!Retryable(w, outcome) <=> outcome # "ok" /\ Retryable(w, outcome)
<1>1. /\ now' = now /\ q' = q /\ eng' = eng /\ capacity' = capacity
      /\ forked' = forked /\ held' = held
      /\ AtPC(w, "dispatch") /\ Live(drv[w].ts)
  BY DEF ApplyRemove, ApplyRetry, qVars
<1>2. drv[w].ts \in TaskState
  BY <1>1 DEF AtPC, Structure, DriverTarget
<1>3. /\ w \in Contract!UnderWay /\ Requests[w].task = drv[w].ts
      /\ Requests[w].at = drv[w].at
  BY <1>1, UnderWayDrivers
<1>4. RequestOf(w)' = Contract!NoRequest
  <2>1. drv'[w].pc \in {"idle", "armed"}
    BY RemoveMoves, AttemptMoves, IdleFields DEF MovesTo
  <2> QED
    BY <2>1 DEF RequestOf, AtPC, Contract!NoRequest
<1>5. ASSUME NEW v \in Driver \ {w} PROVE RequestOf(v)' = RequestOf(v)
  <2>1. drv'[v] = drv[v] \/ (drv'[v] = Idle /\ AtPC(v, "armed"))
    BY RemoveMoves, AttemptMoves DEF MovesTo, OthersSame
  <2> QED
    BY <2>1, StoppedShown
<1>6. Requests' = [Requests EXCEPT ![w] = Contract!NoRequest]
  BY <1>4, <1>5, ShownOfOthers
<1>7. drv[w].ts \in Queued /\ Created[drv[w].ts] = task[drv[w].ts]
  BY <1>1, <1>2, ShownTask DEF Live
<1>8. Settings' = Settings /\ Settings.retry = q.RetryConfig
  BY <1>1, SettingsSame DEF Settings
<1>9. Contract!Result(w)
  BY <1>1, <1>3, <1>6, <1>7, <1>8 DEF Contract!Result
<1>10. Contract!Counted(w, outcome) = Counted(w, outcome)
  BY <1>3, <1>7 DEF Contract!Counted, Counted
<1>11. Contract!Retryable(w, outcome) <=> outcome # "ok" /\ Retryable(w, outcome)
  BY <1>8, <1>10, SamePolicy DEF Contract!Retryable, Retryable
<1> QED
  BY <1>1, <1>2, <1>3, <1>9, <1>10, <1>11

(* The task of the result is shown with what was counted. *)
LEMMA ResultTask ==
    ASSUME TypeOK, NEW t \in TaskState, Live(t), NEW c, task' = [task EXCEPT ![t] = c],
           status'[t] \in {"live", "removed"},
           \A s \in TaskState \ {t} : status'[s] = status[s]
    PROVE  Created' = [Created EXCEPT ![t] = c]
<1>1. task'[t] = c /\ \A s \in TaskState \ {t} : task'[s] = task[s]
  BY DEF TypeOK
<1>2. Created' = [s \in TaskState |-> IF s = t THEN c ELSE Created[s]]
  BY <1>1 DEF Created
<1> QED
  BY <1>2 DEF Created

(* applyAttempt is the arrival of a result. *)
LEMMA ResultKept ==
    ASSUME TypeOK, Structure, NEW w \in Driver, NEW outcome \in Outcomes,
           ApplyRemove(w, outcome) \/ ApplyRetry(w, outcome)
    PROVE  Kept
<1>1. /\ drv[w].ts \in TaskState /\ Live(drv[w].ts)
      /\ Requests[w].task = drv[w].ts
      /\ Contract!Result(w)
      /\ Contract!Counted(w, outcome) = Counted(w, outcome)
      /\ Contract!Retryable(w, outcome) <=> outcome # "ok" /\ Retryable(w, outcome)
  BY ResultShown
<1>2. outcome \in Contract!Exchanges
  BY QueueAssumption DEF Exchanges, Contract!Exchanges
<1>3. CASE ApplyRemove(w, outcome)
  <2>1. /\ Discard({drv[w].ts}) /\ Tombstone({drv[w].ts})
        /\ task' = [task EXCEPT ![drv[w].ts] = Counted(w, outcome)]
        /\ ~(outcome # "ok" /\ Retryable(w, outcome))
    BY <1>3 DEF ApplyRemove, RemoveLocked
  <2>2. /\ status'[drv[w].ts] = "removed"
        /\ \A s \in TaskState \ {drv[w].ts} : status'[s] = status[s]
    BY <1>1, <2>1 DEF Discard
  <2>3. Created' = [Created EXCEPT ![drv[w].ts] = Counted(w, outcome)]
    BY <1>1, <2>1, <2>2, ResultTask
  <2>4. Contract!Leave({drv[w].ts})
    <3>1. {drv[w].ts} \in SUBSET TaskState /\ \A s \in {drv[w].ts} : Live(s)
      BY <1>1
    <3> QED
      BY <2>1, <3>1, Leaving
  <2>5. Contract!Complete(w, outcome)
    BY <1>1, <2>1, <2>3, <2>4 DEF Contract!Complete
  <2> QED
    BY <1>2, <2>5 DEF Kept, Contract!Next
<1>4. CASE ApplyRetry(w, outcome)
  <2>1. PICK c : c = [Counted(w, outcome) EXCEPT
                        !.ScheduleTime = now + Backoff(q.RetryConfig,
                                           Counted(w, outcome).DispatchCount)]
    OBVIOUS
  <2>2. /\ task' = [task EXCEPT ![drv[w].ts] = c]
        /\ status' = status /\ reserved' = reserved
        /\ outcome # "ok" /\ Retryable(w, outcome)
    BY <1>4, <2>1 DEF ApplyRetry, nameVars
  <2>3. Created' = [Created EXCEPT ![drv[w].ts] = c] /\ Queued' = Queued
    <3>1. status'[drv[w].ts] \in {"live", "removed"}
      BY <1>1, <2>2 DEF Live
    <3> QED
      BY <1>1, <2>2, <3>1, ResultTask DEF Queued, Live
  <2>4. c = [Contract!Counted(w, outcome) EXCEPT
               !.ScheduleTime = now + Contract!Backoff(Settings.retry,
                                  Contract!Counted(w, outcome).DispatchCount)]
    BY <1>1, <2>1, SamePolicy DEF Settings
  <2>5. Contract!Retry(w, outcome)
    BY <1>1, <2>2, <2>3, <2>4 DEF Contract!Retry, Contract!names
  <2> QED
    BY <1>2, <2>5 DEF Kept, Contract!Next
<1> QED
  BY <1>3, <1>4

(* The clock, and timers that touch neither tasks nor promises. *)
LEMMA ClockKept ==
    ASSUME \/ UNCHANGED vars
           \/ \E t \in TaskState : TTLTimerExpires(t)
           \/ \E n \in Name : CleanupTombstone(n)
           \/ Tick
    PROVE  Kept
<1>1. /\ q' = q /\ eng' = eng /\ capacity' = capacity
      /\ status' = status /\ task' = task /\ reserved' = reserved /\ forked' = forked
      /\ held' = held /\ drv' = drv
  BY DEF vars, TTLTimerExpires, CleanupTombstone, Tick, qVars, nameVars, taskVars
<1>2. \A v \in Driver : RequestOf(v)' = RequestOf(v)
  BY <1>1 DEF RequestOf, AtPC
<1>3. CASE Tick
  <2>1. Created' = Created /\ Queued' = Queued /\ Settings' = Settings
    BY <1>1, TasksSame, SettingsSame
  <2>2. Requests' = Requests
    BY <1>2 DEF Requests
  <2>3. Contract!Tick
    BY <1>1, <1>3, <2>1, <2>2 DEF Tick, Contract!Tick, Contract!names
  <2> QED
    BY <2>3 DEF Kept, Contract!Next
<1>4. CASE ~Tick
  <2>1. now' = now
    BY <1>4 DEF vars, TTLTimerExpires, CleanupTombstone
  <2> QED
    BY <1>1, <1>2, <2>1, HiddenStep
<1> QED
  BY <1>3, <1>4

(* Every step is a step of the contract, or shows nothing. *)
LEMMA StepKept ==
    ASSUME TypeOK, Structure, Safe, Pointed, Ready, [Next]_vars
    PROVE  Kept
<1>1. Reservations /\ Slotted /\ Pausing /\ Punctual /\ Counting
  BY DEF Safe
<1>2. ASSUME NEW w \in Driver, Attempt(w) PROVE Kept
  BY <1>1, <1>2, DropKept, SendKept, ResultKept DEF Attempt
<1> QED
  BY <1>1, <1>2, ClockKept, CreateKept, RemoveKept, FireKept, RunKept, StateKept,
     UpdateKept DEF Next

(* A new queue is one of the contract. *)
LEMMA InitKept == ASSUME Init PROVE Contract!Init
<1>1. TypeOK
  BY TypeInit
<1>2. Settings \in Contract!Settings
  <2>1. /\ q.RetryConfig \in Contract!RetryConfigs /\ q.Pull \in BOOLEAN
        /\ eng.hardResetOnPurge \in BOOLEAN
    BY <1>1, SamePolicy DEF TypeOK, Queues, Engines
  <2>2. EffectiveTombstoneTTL \in Int
    BY <1>1, TTLType
  <2> QED
    BY <2>1, <2>2 DEF Settings, Contract!Settings
<1>3. /\ 0 \in Generation
      /\ \A g \in Generation : capacity[g] \in Nat /\ (capacity[g] > 0 <=> g = 0)
  <2>1. Slots(q) \in Nat /\ Slots(q) > 0
    BY <1>1, SlotsType DEF TypeOK
  <2> QED
    BY <2>1, QueueAssumption DEF Init, Generation
<1>4. \A t \in TaskState : status[t] = "free"
  BY DEF Init
<1>5. Created = [t \in TaskState |-> Contract!NoTask] /\ Queued = {}
  BY <1>4 DEF Created, Queued, Live, NoTask, Contract!NoTask
<1>6. Requests = [w \in Driver |-> Contract!NoRequest]
  BY IdleFields DEF Init, Requests, RequestOf, AtPC, Contract!NoRequest
<1> QED
  BY <1>2, <1>3, <1>5, <1>6 DEF Init, Contract!Init

(***************************************************************************)
(* Every behaviour of a queue is one that its contract allows, whatever    *)
(* the timers, goroutines, calls and settings: the refinement TaskLife is  *)
(* stated for (queue.go; CreateTask, DeleteTask, RunTask, PurgeQueue,      *)
(* PauseQueue, UpdateQueue and DeleteQueue of engine.go).                  *)
(***************************************************************************)
THEOREM ContractKept == Spec => KeepsContract
<1>1. Init => Pointed /\ Ready
  BY PointedInit, ReadyInit
<1>2. (TypeOK /\ Structure /\ Safe) /\ (Pointed /\ Ready) /\ [Next]_vars
        => (Pointed /\ Ready)'
  BY PointedStep, ReadyStep
<1>3. Spec => [](Pointed /\ Ready)
  BY <1>1, <1>2, SafeInvariance, PTL DEF Spec
<1>4. Init => Contract!Init
  BY InitKept
<1>5. (TypeOK /\ Structure /\ Safe) /\ (Pointed /\ Ready) /\ [Next]_vars
        => [Contract!Next]_(Contract!vars)
  BY StepKept DEF Kept
<1> QED
  BY <1>3, <1>4, <1>5, SafeInvariance, PTL DEF Spec, KeepsContract, Contract!Spec
=============================================================================
