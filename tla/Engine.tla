------------------------------- MODULE Engine -------------------------------
(***************************************************************************)
(* The engine's registry of queues and its locks: Engine.mu over the maps  *)
(* of queues and policies, and one mutex per queueState.  Some calls hold  *)
(* the engine's lock while they wait for a queue's, the others release it  *)
(* first and go on with a pointer to a queue that may be deleted meanwhile.*)
(*                                                                         *)
(* A section under Engine.mu that waits for nothing is one step.  A        *)
(* section under a queue's mutex is two: it is entered, and it is left.    *)
(* What it does to the queue's own state is the subject of module Queue.   *)
(***************************************************************************)
EXTENDS FiniteSets, Naturals

CONSTANTS
    Caller,       \* goroutines: one per RPC, one per timer that expired
    QueueName,
    QueueState,   \* bound: the queueState objects there may be
    Policy,
    None          \* Go's nil

ASSUME EngineAssumption ==
    /\ None \notin Caller /\ None \notin QueueState /\ None \notin Policy

VARIABLES
    mu,         \* Engine.mu: who holds it
    queues,     \* Engine.queues
    policies,   \* Engine.policies
    allocated,  \* the queueState objects made so far
    stopped,    \* those whose stop() has run
    qmu,        \* queueState.mu, for each of them
    call        \* the calls in progress

maps == <<queues, policies>>
objects == <<allocated, stopped>>
vars == <<mu, maps, objects, qmu, call>>

(* The calls that look a queue up, release Engine.mu and go on with it:    *)
(* QueueCall is SetQueueState, CreateTask, GetTask, ListTasks, DeleteTask. *)
Releasing == {"PurgeQueue", "QueueCall", "RunTask"}

(* The calls that keep Engine.mu while they work on a queue. *)
Keeping == {"GetQueue", "UpdateQueue", "DeleteQueue"}

Creating == {"CreateQueue", "EnsureQueue", "UpdateQueue"}

Operations ==
    Releasing \union Keeping \union Creating
        \union {"ListQueues", "GetIamPolicy", "SetIamPolicy"}

Answers == {"OK", "NotFound", "AlreadyExists"}

(* nil is neither a request nor an answer. *)
ASSUME NilAssumption ==
    /\ None \notin Operations /\ None \notin Answers
    /\ None \notin [op: Operations, name: QueueName]

(***************************************************************************)
(* How many sections of the queue's mutex a call has: PurgeQueue purges    *)
(* and takes a snapshot; RunTask checks the task, takes a snapshot, applies*)
(* the result and copies the task; fire looks at the queue and then makes  *)
(* an attempt.                                                             *)
(***************************************************************************)
Sections(op) == CASE op = "PurgeQueue" -> 2
                  [] op = "RunTask"    -> 4
                  [] op = "fire"       -> 3
                  [] OTHER             -> 1

(* `todo' are the queues whose mutex the call is still to take. *)
NewCall(op, n, pc, todo) ==
    [op |-> op, name |-> n, pc |-> pc, todo |-> todo, left |-> Sections(op),
     answer |-> None]

Idle == [op |-> None, name |-> None, pc |-> "idle", todo |-> {}, left |-> 0,
         answer |-> None]

Init ==
    /\ mu = None
    /\ queues = [n \in QueueName |-> None]
    /\ policies = [n \in QueueName |-> None]
    /\ allocated = {} /\ stopped = {}
    /\ qmu = [s \in QueueState |-> None]
    /\ call = [c \in Caller |-> Idle]

At(c, op, pc) == call[c].op \in op /\ call[c].pc = pc

Found(c) == queues[call[c].name] # None

(* A call ends and its answer is on its way. *)
Answered(c, a) ==
    call' = [call EXCEPT ![c].pc = "return", ![c].answer = a, ![c].todo = {},
                         ![c].left = 0]

(* A call goes on to wait for the mutexes of the queues in S. *)
GoesOn(c, S) == call' = [call EXCEPT ![c].pc = "queue", ![c].todo = S]

---------------------------------------------------------------------------
(* Calls and returns *)

Creators == {c \in Caller : call[c].op \in Creating}

(* Bound: a call that may create a queue starts if there is an object left. *)
Call(c, op, n) ==
    /\ call[c] = Idle
    /\ op \in Creating =>
         Cardinality(allocated) + Cardinality(Creators) < Cardinality(QueueState)
    /\ call' = [call EXCEPT ![c] = NewCall(op, n, "engine", {})]
    /\ UNCHANGED <<mu, maps, objects, qmu>>

(* A timer of queue s expires; its goroutine never takes Engine.mu. *)
Fire(c, s) ==
    /\ call[c] = Idle
    /\ s \in allocated
    /\ call' = [call EXCEPT ![c] = NewCall("fire", None, "queue", {s})]
    /\ UNCHANGED <<mu, maps, objects, qmu>>

Return(c) ==
    /\ call[c].pc = "return"
    /\ call' = [call EXCEPT ![c] = Idle]
    /\ UNCHANGED <<mu, maps, objects, qmu>>

---------------------------------------------------------------------------
(* Sections under Engine.mu that wait for nothing *)

(* EnsureQueue, its first section: is there such a queue? *)
EnsureQueue(c) ==
    /\ At(c, {"EnsureQueue"}, "engine")
    /\ mu = None
    /\ \/ /\ Found(c)
          /\ Answered(c, "OK")
       \/ /\ ~Found(c)
          /\ call' = [call EXCEPT ![c].pc = "create"]
    /\ UNCHANGED <<mu, maps, objects, qmu>>

(* The object a new queue gets: which one it is makes no difference. *)
Fresh == CHOOSE s \in QueueState : s \notin allocated

(* newQueueState; the snapshot of a new queue waits for nobody.  The bound  *)
(* on Call leaves an object for each call that may come here.               *)
NewQueueState(c) ==
    /\ allocated # QueueState
    /\ allocated' = allocated \union {Fresh}
    /\ queues' = [queues EXCEPT ![call[c].name] = Fresh]
    /\ Answered(c, "OK")

(* At the section of CreateQueue, also when EnsureQueue makes the call. *)
AtCreate(c) ==
    \/ At(c, {"CreateQueue"}, "engine")
    \/ At(c, {"EnsureQueue"}, "create")

(* Bug: EnsureQueue relies on the check it made before. *)
CreateQueueUnchecked(c) ==
    /\ AtCreate(c)
    /\ mu = None
    /\ \/ /\ Found(c) /\ call[c].op = "CreateQueue"
          /\ Answered(c, "AlreadyExists")
          /\ UNCHANGED <<allocated, queues>>
       \/ /\ ~Found(c) \/ call[c].op = "EnsureQueue"
          /\ NewQueueState(c)
    /\ UNCHANGED <<mu, policies, stopped, qmu>>

CreateQueue(c) ==
    /\ AtCreate(c)
    /\ mu = None
    /\ \/ /\ Found(c)
          /\ Answered(c, "AlreadyExists")
          /\ UNCHANGED <<allocated, queues>>
       \/ /\ ~Found(c)
          /\ NewQueueState(c)
    /\ UNCHANGED <<mu, policies, stopped, qmu>>

(* Bug: the error is returned before the lock is released. *)
LookupQueueLocked(c) ==
    /\ At(c, Releasing, "engine")
    /\ mu = None
    /\ \/ /\ Found(c)
          /\ GoesOn(c, {queues[call[c].name]})
          /\ UNCHANGED mu
       \/ /\ ~Found(c)
          /\ Answered(c, "NotFound")
          /\ mu' = c
    /\ UNCHANGED <<maps, objects, qmu>>

(* queueLocked and taskQueue: the queue is looked up and the lock released. *)
LookupQueue(c) ==
    /\ At(c, Releasing, "engine")
    /\ mu = None
    /\ \/ /\ Found(c)
          /\ GoesOn(c, {queues[call[c].name]})
       \/ /\ ~Found(c)
          /\ Answered(c, "NotFound")
    /\ UNCHANGED <<mu, maps, objects, qmu>>

(* GetIamPolicy and TestIamPermissions, which only read. *)
GetIamPolicy(c) ==
    /\ At(c, {"GetIamPolicy"}, "engine")
    /\ mu = None
    /\ Answered(c, IF Found(c) THEN "OK" ELSE "NotFound")
    /\ UNCHANGED <<mu, maps, objects, qmu>>

SetIamPolicy(c) ==
    /\ At(c, {"SetIamPolicy"}, "engine")
    /\ mu = None
    /\ \/ /\ Found(c)
          /\ \E p \in Policy : policies' = [policies EXCEPT ![call[c].name] = p]
          /\ Answered(c, "OK")
       \/ /\ ~Found(c)
          /\ Answered(c, "NotFound")
          /\ UNCHANGED policies
    /\ UNCHANGED <<mu, queues, objects, qmu>>

---------------------------------------------------------------------------
(* Calls that hold Engine.mu while they wait for a queue *)

(* GetQueue, UpdateQueue and DeleteQueue find their queue. *)
HoldEngine(c) ==
    /\ At(c, Keeping, "engine")
    /\ mu = None
    /\ Found(c)
    /\ mu' = c
    /\ GoesOn(c, {queues[call[c].name]})
    /\ UNCHANGED <<maps, objects, qmu>>

(* They do not find it: UpdateQueue makes one. *)
MissQueue(c) ==
    /\ At(c, Keeping, "engine")
    /\ mu = None
    /\ ~Found(c)
    /\ \/ /\ call[c].op = "UpdateQueue"
          /\ NewQueueState(c)
       \/ /\ call[c].op # "UpdateQueue"
          /\ Answered(c, "NotFound")
          /\ UNCHANGED <<allocated, queues>>
    /\ UNCHANGED <<mu, policies, stopped, qmu>>

(* ListQueues takes a snapshot of each queue there is, or of one page. *)
ListQueues(c) ==
    /\ At(c, {"ListQueues"}, "engine")
    /\ mu = None
    /\ \E page \in SUBSET {n \in QueueName : queues[n] # None} :
         \/ /\ page # {}
            /\ mu' = c
            /\ GoesOn(c, {queues[n] : n \in page})
         \/ /\ page = {}
            /\ Answered(c, "OK")
            /\ UNCHANGED mu
    /\ UNCHANGED <<maps, objects, qmu>>

(* queueState.mu.Lock() *)
LockQueue(c, s) ==
    /\ call[c].pc = "queue"
    /\ s \in call[c].todo
    /\ qmu[s] = None
    /\ qmu' = [qmu EXCEPT ![s] = c]
    /\ call' = [call EXCEPT ![c].pc = "locked"]
    /\ UNCHANGED <<mu, maps, objects>>

Unlock(s) == qmu' = [qmu EXCEPT ![s] = None]

(* The snapshots of GetQueue and ListQueues, and all of UpdateQueue. *)
LeaveKept(c, s) ==
    /\ At(c, {"GetQueue", "ListQueues", "UpdateQueue"}, "locked")
    /\ qmu[s] = c
    /\ Unlock(s)
    /\ \/ /\ call[c].todo = {s}
          /\ mu' = None
          /\ Answered(c, "OK")
       \/ /\ call[c].todo # {s}
          /\ GoesOn(c, call[c].todo \ {s})
          /\ UNCHANGED mu
    /\ UNCHANGED <<maps, objects>>

(* Bug: Engine.mu is released before the queue has left the map. *)
StopQueueUnlocked(c, s) ==
    /\ At(c, {"DeleteQueue"}, "locked")
    /\ qmu[s] = c
    /\ stopped' = stopped \union {s}
    /\ Unlock(s)
    /\ call' = [call EXCEPT ![c].pc = "delete", ![c].todo = {}]
    /\ mu' = None
    /\ UNCHANGED <<maps, allocated>>

(* DeleteQueue: stop(), which locks and unlocks the queue. *)
StopQueue(c, s) ==
    /\ At(c, {"DeleteQueue"}, "locked")
    /\ qmu[s] = c
    /\ stopped' = stopped \union {s}
    /\ Unlock(s)
    /\ call' = [call EXCEPT ![c].pc = "delete", ![c].todo = {}]
    /\ UNCHANGED <<mu, maps, allocated>>

(* Bug: the policy outlives the queue. *)
DeleteQueueKeepsPolicy(c) ==
    /\ At(c, {"DeleteQueue"}, "delete")
    /\ queues' = [queues EXCEPT ![call[c].name] = None]
    /\ mu' = None
    /\ Answered(c, "OK")
    /\ UNCHANGED <<policies, objects, qmu>>

(* DeleteQueue: the queue and its policy leave the maps. *)
DeleteQueue(c) ==
    /\ At(c, {"DeleteQueue"}, "delete")
    /\ queues' = [queues EXCEPT ![call[c].name] = None]
    /\ policies' = [policies EXCEPT ![call[c].name] = None]
    /\ mu' = None
    /\ Answered(c, "OK")
    /\ UNCHANGED <<objects, qmu>>

---------------------------------------------------------------------------
(* Sections under a queue's mutex alone *)

(***************************************************************************)
(* PurgeQueue, RunTask, the QueueCalls, and goroutines of timers: a        *)
(* section ends and another follows or not.  RunTask and fire may return   *)
(* early, because of what they find.  A call that found its queue never    *)
(* reports that the queue is missing.                                      *)
(***************************************************************************)
(* Bug: an early return of RunTask forgets to unlock. *)
LeaveReleasedLocked(c, s) ==
    /\ At(c, Releasing \union {"fire"}, "locked")
    /\ qmu[s] = c
    /\ \/ /\ call[c].left > 1
          /\ Unlock(s)
          /\ call' = [call EXCEPT ![c].pc = "queue", ![c].left = @ - 1]
       \/ /\ call[c].left = 1 \/ call[c].op \in {"RunTask", "fire"}
          /\ IF call[c].left = 4 THEN UNCHANGED qmu ELSE Unlock(s)
          /\ Answered(c, "OK")
    /\ UNCHANGED <<mu, maps, objects>>

LeaveReleased(c, s) ==
    /\ At(c, Releasing \union {"fire"}, "locked")
    /\ qmu[s] = c
    /\ Unlock(s)
    /\ \/ /\ call[c].left > 1
          /\ call' = [call EXCEPT ![c].pc = "queue", ![c].left = @ - 1]
       \/ /\ call[c].left = 1 \/ call[c].op \in {"RunTask", "fire"}
          /\ Answered(c, "OK")
    /\ UNCHANGED <<mu, maps, objects>>

---------------------------------------------------------------------------
(* Taking a lock, or a section under Engine.mu that needs no other one. *)
TakeEngine(c) ==
    \/ EnsureQueue(c) \/ CreateQueue(c) \/ LookupQueue(c)
    \/ GetIamPolicy(c) \/ SetIamPolicy(c)
    \/ HoldEngine(c) \/ MissQueue(c) \/ ListQueues(c)

TakeQueue(c) == \E s \in QueueState : LockQueue(c, s)

Leave(c) ==
    \/ \E s \in QueueState :
         LeaveKept(c, s) \/ StopQueue(c, s) \/ LeaveReleased(c, s)
    \/ DeleteQueue(c)
    \/ Return(c)

Next ==
    \E c \in Caller :
        \/ \E op \in Operations, n \in QueueName : Call(c, op, n)
        \/ \E s \in QueueState : Fire(c, s)
        \/ TakeEngine(c)
        \/ TakeQueue(c)
        \/ Leave(c)

Spec == Init /\ [][Next]_vars

(***************************************************************************)
(* A goroutine that can run does; a sync.Mutex that is released again and  *)
(* again is at last handed to each goroutine that waits for it (its        *)
(* starvation mode).  No call needs to be made.                            *)
(***************************************************************************)
Fairness ==
    \A c \in Caller : SF_vars(TakeEngine(c) \/ TakeQueue(c) \/ Leave(c))

FairSpec == Spec /\ Fairness

---------------------------------------------------------------------------
(* Properties *)

Calls ==
    [op: Operations \union {"fire", None}, name: QueueName \union {None},
     pc: {"idle", "engine", "create", "queue", "locked", "delete", "return"},
     todo: SUBSET QueueState, left: 0 .. 4,
     answer: Answers \union {None}]

(***************************************************************************)
(* The type invariant.  The maps point to objects that have been made, and *)
(* a lock is held by a call that has not returned (no path of engine.go    *)
(* ends without its Unlock).                                               *)
(***************************************************************************)
TypeOK ==
    /\ mu \in Caller \union {None}
    /\ queues \in [QueueName -> allocated \union {None}]
    /\ policies \in [QueueName -> Policy \union {None}]
    /\ allocated \subseteq QueueState
    /\ stopped \subseteq allocated
    /\ qmu \in [QueueState -> Caller \union {None}]
    /\ call \in [Caller -> Calls]
    /\ mu # None => call[mu].pc \in {"queue", "locked", "delete"}
    /\ \A s \in QueueState : qmu[s] # None => call[qmu[s]].pc = "locked"

(***************************************************************************)
(* A queue that cannot be found any more has been stopped: no interleaving *)
(* of EnsureQueue, CreateQueue, UpdateQueue and DeleteQueue (engine.go:92, *)
(* 132, 191, 227) replaces a queue whose timers still run.                 *)
(***************************************************************************)
LostQueuesStopped ==
    \A s \in allocated : s \in stopped \/ \E n \in QueueName : queues[n] = s

(***************************************************************************)
(* No call can look up a queue that has been stopped: between stop() and   *)
(* the removal from the map (engine.go:227-228) Engine.mu is held.         *)
(***************************************************************************)
StoppedQueuesHidden ==
    mu = None => \A n \in QueueName : queues[n] \notin stopped

(***************************************************************************)
(* Only queues that exist have a policy, so a queue that is deleted and    *)
(* created again does not inherit one (engine.go:229).                     *)
(***************************************************************************)
PoliciesOfQueues ==
    \A n \in QueueName : policies[n] # None => queues[n] # None

(***************************************************************************)
(* Every call returns: the order in which Engine.mu and the queues' locks  *)
(* are taken cannot deadlock, and no early return keeps a lock             *)
(* (engine.go:366-379).                                                    *)
(***************************************************************************)
CallsReturn == \A c \in Caller : call[c].pc # "idle" ~> call[c].pc = "idle"

(***************************************************************************)
(* The refinement: seen from outside, each call takes effect at one        *)
(* instant.  A call that released Engine.mu has had its effect on the      *)
(* registry when it found its queue; the one that keeps it has it when it  *)
(* ends.  Goroutines of timers are not calls.                              *)
(***************************************************************************)
Waiting(c) == call[c].pc \in {"engine", "create"} \/ mu = c

Present == {n \in QueueName : queues[n] # None}

Request ==
    [c \in Caller |->
        IF call[c].op \in Operations
        THEN [op |-> call[c].op, name |-> call[c].name]
        ELSE None]

Answer ==
    [c \in Caller |->
        IF call[c].op \notin Operations \/ Waiting(c) THEN None
        ELSE IF call[c].answer = None THEN "OK"
        ELSE call[c].answer]

Abstract ==
    INSTANCE Registry
        WITH present <- Present, request <- Request, answer <- Answer

(***************************************************************************)
(* The engine implements the registry its callers see.                     *)
(***************************************************************************)
ImplementsRegistry == Abstract!Spec
=============================================================================
