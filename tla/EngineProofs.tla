---------------------------- MODULE EngineProofs ----------------------------
(***************************************************************************)
(* Theorems about Engine, for every number of callers, names and queues.   *)
(***************************************************************************)
EXTENDS Engine, TLAPS

(* The calls that hold Engine.mu when they wait for a queue or work on it. *)
Holds(c) ==
    /\ call[c].op \in Keeping \union {"ListQueues"}
    /\ call[c].pc \in {"queue", "locked", "delete"}

(* Who holds which lock can be told from where the calls are. *)
Locks ==
    /\ \A c \in Caller : mu = c <=> Holds(c)
    /\ \A c \in Caller, s \in QueueState :
         qmu[s] = c => call[c].pc = "locked" /\ s \in call[c].todo
    /\ \A c \in Caller, s, r \in QueueState : qmu[s] = c /\ qmu[r] = c => s = r
    /\ \A c \in Caller : call[c].todo \subseteq allocated
    /\ \A c \in Caller : call[c].pc \in {"engine", "create"} =>
                           call[c].op \in Operations /\ call[c].name \in QueueName

(* Where a DeleteQueue is, and what it has done so far. *)
Deleting ==
    \A c \in Caller :
        /\ call[c].op = "DeleteQueue" /\ call[c].pc # "idle" =>
             call[c].name \in QueueName
        /\ call[c].op = "DeleteQueue" /\ call[c].pc \in {"queue", "locked"} =>
             call[c].todo = {queues[call[c].name]}
        /\ call[c].pc = "delete" =>
             /\ call[c].op = "DeleteQueue"
             /\ queues[call[c].name] \in stopped

(* Two names never share a queue. *)
Injective ==
    \A n, m \in QueueName : queues[n] # None /\ queues[n] = queues[m] => n = m

(* A stopped queue is still in the map only for the call that deletes it. *)
BeingDeleted ==
    \A n \in QueueName :
        queues[n] \in stopped =>
            \E c \in Caller : call[c].pc = "delete" /\ call[c].name = n

Registered ==
    Injective /\ BeingDeleted /\ LostQueuesStopped /\ PoliciesOfQueues

Inv == TypeOK /\ Locks /\ Deleting /\ Registered

---------------------------------------------------------------------------
(* What the helpers do to a call *)

(* A call that is answered has let go of everything it was to lock. *)
LEMMA AnsweredFields ==
    ASSUME TypeOK, NEW c \in Caller,
           NEW a \in Answers, Answered(c, a)
    PROVE  /\ call' \in [Caller -> Calls]
           /\ \A d \in Caller \ {c} : call'[d] = call[d]
           /\ call'[c].op = call[c].op /\ call'[c].name = call[c].name
           /\ call'[c].pc = "return" /\ call'[c].todo = {}
           /\ call'[c].answer = a
<1>1. call[c] \in Calls
  BY DEF TypeOK
<1> DEFINE r == [call[c] EXCEPT !.pc = "return", !.answer = a, !.todo = {},
                                !.left = 0]
<1>a. a \in Answers \union {None} /\ 0 \in 0 .. 4
  OBVIOUS
<1>2. /\ r \in Calls /\ r.op = call[c].op /\ r.name = call[c].name
      /\ r.pc = "return" /\ r.todo = {} /\ r.answer = a
  BY <1>1, <1>a DEF Calls
<1>3. call' = [call EXCEPT ![c] = r]
  BY DEF Answered
<1> QED
  BY <1>2, <1>3 DEF TypeOK

(* A call that goes on waits for queues. *)
LEMMA GoesOnFields ==
    ASSUME TypeOK, NEW c \in Caller, NEW S \in SUBSET QueueState, GoesOn(c, S)
    PROVE  /\ call' \in [Caller -> Calls]
           /\ \A d \in Caller \ {c} : call'[d] = call[d]
           /\ call'[c].op = call[c].op /\ call'[c].name = call[c].name
           /\ call'[c].pc = "queue" /\ call'[c].todo = S
           /\ call'[c].answer = call[c].answer
<1>1. call[c] \in Calls
  BY DEF TypeOK
<1> DEFINE r == [call[c] EXCEPT !.pc = "queue", !.todo = S]
<1>2. /\ r \in Calls /\ r.op = call[c].op /\ r.name = call[c].name
      /\ r.pc = "queue" /\ r.todo = S /\ r.answer = call[c].answer
  BY <1>1 DEF Calls
<1>3. call' = [call EXCEPT ![c] = r]
  BY DEF GoesOn
<1> QED
  BY <1>2, <1>3 DEF TypeOK

(* The sets of operations are told apart by their names. *)
LEMMA OperationSets ==
    /\ Releasing \subseteq Operations
    /\ Keeping \subseteq Operations
    /\ "ListQueues" \in Operations /\ "fire" \notin Operations
    /\ Releasing \intersect (Keeping \union {"ListQueues"}) = {}
    /\ "fire" \notin Keeping /\ "EnsureQueue" \notin Keeping
    /\ "CreateQueue" \notin Keeping
    /\ "GetIamPolicy" \notin Keeping /\ "SetIamPolicy" \notin Keeping
BY DEF Operations, Releasing, Keeping, Creating

(* A call moves to another place and keeps what it knows. *)
LEMMA PlaceFields ==
    ASSUME TypeOK, NEW c \in Caller,
           NEW p \in {"create", "locked"},
           call' = [call EXCEPT ![c].pc = p]
    PROVE  /\ call' \in [Caller -> Calls]
           /\ \A d \in Caller \ {c} : call'[d] = call[d]
           /\ call'[c].op = call[c].op /\ call'[c].name = call[c].name
           /\ call'[c].pc = p /\ call'[c].todo = call[c].todo
           /\ call'[c].answer = call[c].answer
<1>1. call[c] \in Calls
  BY DEF TypeOK
<1> DEFINE r == [call[c] EXCEPT !.pc = p]
<1>2. /\ r \in Calls /\ r.op = call[c].op /\ r.name = call[c].name
      /\ r.pc = p /\ r.todo = call[c].todo /\ r.answer = call[c].answer
  BY <1>1 DEF Calls
<1>3. call' = [call EXCEPT ![c] = r]
  OBVIOUS
<1> QED
  BY <1>2, <1>3 DEF TypeOK

(* A call that takes a mutex. *)
LEMMA LockFields ==
    ASSUME TypeOK, NEW c \in Caller, NEW s \in QueueState, LockQueue(c, s)
    PROVE  /\ call' \in [Caller -> Calls]
           /\ \A d \in Caller \ {c} : call'[d] = call[d]
           /\ call'[c].op = call[c].op /\ call'[c].name = call[c].name
           /\ call'[c].pc = "locked" /\ call'[c].todo = call[c].todo
           /\ call'[c].answer = call[c].answer
<1>1. "locked" \in {"create", "locked"}
  OBVIOUS
<1>2. call' = [call EXCEPT ![c].pc = "locked"]
  BY DEF LockQueue
<1> QED
  BY <1>1, <1>2, PlaceFields

(* A DeleteQueue that has stopped its queue. *)
LEMMA StopFields ==
    ASSUME TypeOK, NEW c \in Caller, NEW s \in QueueState, StopQueue(c, s)
    PROVE  /\ call' \in [Caller -> Calls]
           /\ \A d \in Caller \ {c} : call'[d] = call[d]
           /\ call'[c].op = call[c].op /\ call'[c].name = call[c].name
           /\ call'[c].pc = "delete" /\ call'[c].todo = {}
           /\ call'[c].answer = call[c].answer
<1>1. call[c] \in Calls
  BY DEF TypeOK
<1> DEFINE r == [call[c] EXCEPT !.pc = "delete", !.todo = {}]
<1>2. /\ r \in Calls /\ r.op = call[c].op /\ r.name = call[c].name
      /\ r.pc = "delete" /\ r.todo = {} /\ r.answer = call[c].answer
  BY <1>1 DEF Calls
<1>3. call' = [call EXCEPT ![c] = r]
  BY DEF StopQueue
<1> QED
  BY <1>2, <1>3 DEF TypeOK

(* A call with another section of the same mutex to come. *)
LEMMA SectionFields ==
    ASSUME TypeOK, NEW c \in Caller,
           call[c].left > 1,
           call' = [call EXCEPT ![c].pc = "queue", ![c].left = @ - 1]
    PROVE  /\ call' \in [Caller -> Calls]
           /\ \A d \in Caller \ {c} : call'[d] = call[d]
           /\ call'[c].op = call[c].op /\ call'[c].name = call[c].name
           /\ call'[c].pc = "queue" /\ call'[c].todo = call[c].todo
           /\ call'[c].answer = call[c].answer
<1>1. call[c] \in Calls
  BY DEF TypeOK
<1> DEFINE k == call[c].left - 1
<1>k. k \in 0 .. 4
  BY <1>1 DEF Calls
<1> HIDE DEF k
<1> DEFINE r == [call[c] EXCEPT !.pc = "queue", !.left = k]
<1>2. /\ r \in Calls /\ r.op = call[c].op /\ r.name = call[c].name
      /\ r.pc = "queue" /\ r.todo = call[c].todo /\ r.answer = call[c].answer
  BY <1>1, <1>k DEF Calls
<1>3. call' = [call EXCEPT ![c] = r]
  BY DEF k
<1> QED
  BY <1>2, <1>3 DEF TypeOK

---------------------------------------------------------------------------
(* What a step of one call does to the invariant *)

(* Only call c moves. *)
Moves(c) ==
    call' \in [Caller -> Calls] /\ \A d \in Caller \ {c} : call'[d] = call[d]

(* A call that holds no lock moves to a place where it holds none. *)
LEMMA QuietStep ==
    ASSUME Inv, NEW c \in Caller, Moves(c),
           UNCHANGED <<mu, maps, objects, qmu>>,
           call[c].pc \notin {"locked", "delete"}, ~Holds(c),
           call'[c].pc \notin {"locked", "delete"}, ~Holds(c)',
           call'[c].todo \subseteq allocated,
           call'[c].pc \in {"engine", "create"} =>
               call'[c].op \in Operations /\ call'[c].name \in QueueName,
           call'[c].op = "DeleteQueue" /\ call'[c].pc # "idle" =>
               call'[c].name \in QueueName
    PROVE  Inv'
<1> USE EngineAssumption
<1>1. \A d \in Caller \ {c} : Holds(d)' = Holds(d)
  BY DEF Moves, Holds
<1>2. mu # c /\ \A s \in QueueState : qmu[s] # c
  BY DEF Inv, Locks
<1>3. TypeOK'
  BY <1>2 DEF Inv, TypeOK, Moves, maps, objects
<1>4. Locks'
  <2>1. \A d \in Caller : mu' = d <=> Holds(d)'
    BY <1>1, <1>2 DEF Inv, Locks
  <2>2. \A d \in Caller, s \in QueueState :
          qmu'[s] = d => call'[d].pc = "locked" /\ s \in call'[d].todo
    BY <1>2 DEF Inv, Locks, Moves
  <2> QED
    BY <2>1, <2>2 DEF Inv, Locks, Moves, objects
<1>5. Deleting'
  <2>1. call'[c].op = "DeleteQueue" => call'[c].pc \notin {"queue", "locked"}
    BY DEF Holds, Keeping
  <2> QED
    BY <2>1 DEF Inv, Deleting, Moves, maps, objects
<1>6. Registered'
  BY DEF Inv, Registered, Injective, BeingDeleted, LostQueuesStopped,
         PoliciesOfQueues, Moves, maps, objects
<1> QED
  BY <1>3, <1>4, <1>5, <1>6 DEF Inv

(* A queue is made for a call that found none. *)
LEMMA NewQueueStep ==
    ASSUME Inv, NEW c \in Caller, mu = None,
           call[c].pc \in {"engine", "create"}, ~Found(c), NewQueueState(c),
           UNCHANGED <<mu, policies, stopped, qmu>>
    PROVE  Inv'
<1> USE EngineAssumption
<1>1. Fresh \in QueueState /\ Fresh \notin allocated
  BY DEF NewQueueState, Fresh, Inv, TypeOK
<1>2. "OK" \in Answers
  BY DEF Answers
<1>3. /\ Moves(c) /\ call'[c].pc = "return" /\ call'[c].todo = {}
      /\ call'[c].op = call[c].op /\ call'[c].name = call[c].name
  BY <1>2, AnsweredFields DEF NewQueueState, Inv, Moves
<1>4. call[c].name \in QueueName
  BY DEF Inv, Locks
<1> DEFINE n == call[c].name
<1>5. /\ n \in QueueName /\ queues[n] = None
      /\ queues' = [queues EXCEPT ![n] = Fresh]
      /\ allocated' = allocated \union {Fresh}
  BY <1>4 DEF Found, NewQueueState
<1> HIDE DEF n
<1>6. \A d \in Caller : ~Holds(d) /\ ~Holds(d)'
  BY <1>3 DEF Inv, Locks, Holds, Moves
<1>7. \A s \in QueueState : qmu[s] # c
  BY DEF Inv, Locks
<1>8. TypeOK'
  BY <1>1, <1>3, <1>5, <1>7 DEF Inv, TypeOK, Moves
<1>9. Locks'
  <2>1. \A d \in Caller : mu' = d <=> Holds(d)'
    BY <1>6
  <2>2. \A d \in Caller, s \in QueueState :
          qmu'[s] = d => call'[d].pc = "locked" /\ s \in call'[d].todo
    BY <1>3, <1>7 DEF Inv, Locks, Moves
  <2> QED
    BY <1>3, <1>5, <2>1, <2>2 DEF Inv, Locks, Moves
<1>10. Deleting'
  <2>1. \A d \in Caller : ~(/\ call'[d].op = "DeleteQueue"
                            /\ call'[d].pc \in {"queue", "locked"})
    BY <1>6 DEF Holds, Keeping
  <2>2. \A d \in Caller : call'[d].pc # "delete"
    BY <1>3, <1>6 DEF Inv, Deleting, Holds, Keeping, Moves
  <2> QED
    BY <1>3, <1>4, <2>1, <2>2 DEF Inv, Deleting, Moves
<1>11. Registered'
  <2>1. Injective'
    BY <1>1, <1>5 DEF Inv, TypeOK, Registered, Injective
  <2>2. BeingDeleted'
    <3> SUFFICES ASSUME NEW m \in QueueName, queues'[m] \in stopped
                 PROVE  FALSE
      BY DEF BeingDeleted
    <3>1. m # n
      BY <1>1, <1>5 DEF Inv, TypeOK
    <3>2. queues[m] \in stopped
      BY <3>1, <1>5 DEF Inv, TypeOK
    <3> QED
      BY <3>2, <1>6 DEF Inv, Registered, BeingDeleted, Deleting, Holds, Keeping
  <2>3. LostQueuesStopped'
    BY <1>1, <1>5 DEF Inv, TypeOK, Registered, LostQueuesStopped
  <2>4. PoliciesOfQueues'
    BY <1>1, <1>5 DEF Inv, TypeOK, Registered, PoliciesOfQueues
  <2> QED
    BY <2>1, <2>2, <2>3, <2>4 DEF Registered
<1> QED
  BY <1>8, <1>9, <1>10, <1>11 DEF Inv

(* A call takes Engine.mu and keeps it to wait for queues of the map. *)
LEMMA HoldStep ==
    ASSUME Inv, NEW c \in Caller, mu = None, mu' = c,
           call[c].pc = "engine", call[c].op \in Keeping \union {"ListQueues"},
           NEW S \in SUBSET allocated, GoesOn(c, S),
           call[c].op = "DeleteQueue" => S = {queues[call[c].name]},
           UNCHANGED <<maps, objects, qmu>>
    PROVE  Inv'
<1> USE EngineAssumption
<1>1. S \in SUBSET QueueState
  BY DEF Inv, TypeOK
<1>2. /\ Moves(c) /\ call'[c].pc = "queue" /\ call'[c].todo = S
      /\ call'[c].op = call[c].op /\ call'[c].name = call[c].name
  BY <1>1, GoesOnFields DEF Inv, Moves
<1>3. Holds(c)'
  BY <1>2 DEF Holds
<1>4. \A d \in Caller \ {c} : ~Holds(d) /\ ~Holds(d)'
  BY <1>2 DEF Inv, Locks, Holds, Moves
<1>5. \A s \in QueueState : qmu[s] # c
  BY DEF Inv, Locks
<1>6. call[c].name \in QueueName
  BY DEF Inv, Locks
<1>7. TypeOK'
  BY <1>2, <1>5 DEF Inv, TypeOK, Moves, maps, objects
<1>8. Locks'
  <2>1. \A d \in Caller : mu' = d <=> Holds(d)'
    BY <1>3, <1>4
  <2>2. \A d \in Caller, s \in QueueState :
          qmu'[s] = d => call'[d].pc = "locked" /\ s \in call'[d].todo
    BY <1>2, <1>5 DEF Inv, Locks, Moves
  <2> QED
    BY <1>2, <2>1, <2>2 DEF Inv, Locks, Moves, objects
<1>9. Deleting'
  BY <1>2, <1>6 DEF Inv, Deleting, Moves, maps, objects
<1>10. Registered'
  BY <1>2 DEF Inv, Registered, Injective, BeingDeleted, LostQueuesStopped,
              PoliciesOfQueues, Moves, maps, objects
<1> QED
  BY <1>7, <1>8, <1>9, <1>10 DEF Inv

(* A policy is set for a queue that there is. *)
LEMMA PolicyStep ==
    ASSUME Inv, NEW c \in Caller, SetIamPolicy(c)
    PROVE  Inv'
<1> USE EngineAssumption
<1>1. call[c].pc = "engine" /\ call[c].op = "SetIamPolicy" /\ mu = None
  BY DEF SetIamPolicy, At
<1>2. PICK a \in Answers : Answered(c, a)
  BY DEF SetIamPolicy, Answers
<1>3. /\ Moves(c) /\ call'[c].pc = "return" /\ call'[c].todo = {}
      /\ call'[c].op = call[c].op /\ call'[c].name = call[c].name
  BY <1>2, AnsweredFields DEF Inv, Moves
<1>4. call[c].name \in QueueName /\ \A s \in QueueState : qmu[s] # c
  BY <1>1 DEF Inv, Locks
<1>5. \A d \in Caller : ~Holds(d) /\ ~Holds(d)'
  BY <1>1, <1>3 DEF Inv, Locks, Holds, Moves
<1>6. /\ policies' \in [QueueName -> Policy \union {None}]
      /\ \A n \in QueueName : policies'[n] # None => queues[n] # None
  <2>1. CASE Found(c)
    <3>1. PICK p \in Policy : policies' = [policies EXCEPT ![call[c].name] = p]
      BY <2>1 DEF SetIamPolicy
    <3> QED
      BY <2>1, <3>1, <1>4 DEF Found, Inv, TypeOK, Registered, PoliciesOfQueues
  <2>2. CASE ~Found(c)
    BY <2>2 DEF SetIamPolicy, Inv, TypeOK, Registered, PoliciesOfQueues
  <2> QED
    BY <2>1, <2>2
<1>7. UNCHANGED <<mu, queues, allocated, stopped, qmu>>
  BY DEF SetIamPolicy, objects
<1>8. TypeOK'
  BY <1>1, <1>3, <1>4, <1>6, <1>7 DEF Inv, TypeOK, Moves
<1>9. Locks'
  <2>1. \A d \in Caller : mu' = d <=> Holds(d)'
    BY <1>1, <1>5, <1>7
  <2>2. \A d \in Caller, s \in QueueState :
          qmu'[s] = d => call'[d].pc = "locked" /\ s \in call'[d].todo
    BY <1>3, <1>4, <1>7 DEF Inv, Locks, Moves
  <2> QED
    BY <1>3, <1>7, <2>1, <2>2 DEF Inv, Locks, Moves
<1>10. Deleting'
  BY <1>1, <1>3, <1>7 DEF Inv, Deleting, Moves
<1>11. Registered'
  BY <1>1, <1>3, <1>6, <1>7 DEF Inv, Registered, Injective, BeingDeleted,
       LostQueuesStopped, PoliciesOfQueues, Moves
<1> QED
  BY <1>8, <1>9, <1>10, <1>11 DEF Inv

(* A call takes the mutex of a queue. *)
LEMMA LockStep ==
    ASSUME Inv, NEW c \in Caller, NEW s \in QueueState, LockQueue(c, s)
    PROVE  Inv'
<1> USE EngineAssumption
<1>1. call[c].pc = "queue" /\ s \in call[c].todo /\ qmu[s] = None
  BY DEF LockQueue
<1>3. /\ Moves(c) /\ call'[c].pc = "locked" /\ call'[c].todo = call[c].todo
      /\ call'[c].op = call[c].op /\ call'[c].name = call[c].name
  BY LockFields DEF Inv, Moves
<1>4. \A d \in Caller : Holds(d)' = Holds(d)
  BY <1>1, <1>3 DEF Holds, Moves
<1>5. \A r \in QueueState : qmu[r] # c
  BY <1>1 DEF Inv, Locks
<1>6. qmu' = [qmu EXCEPT ![s] = c] /\ UNCHANGED <<mu, maps, objects>>
  BY DEF LockQueue
<1>7. TypeOK'
  BY <1>1, <1>3, <1>5, <1>6 DEF Inv, TypeOK, Moves, maps, objects
<1>8. Locks'
  <2>1. \A d \in Caller : mu' = d <=> Holds(d)'
    BY <1>4, <1>6 DEF Inv, Locks
  <2>2. \A d \in Caller, r \in QueueState :
          qmu'[r] = d => call'[d].pc = "locked" /\ r \in call'[d].todo
    BY <1>1, <1>3, <1>5, <1>6 DEF Inv, TypeOK, Locks, Moves
  <2>3. \A d \in Caller, r, t \in QueueState :
          qmu'[r] = d /\ qmu'[t] = d => r = t
    BY <1>5, <1>6 DEF Inv, TypeOK, Locks
  <2> QED
    BY <1>1, <1>3, <1>6, <2>1, <2>2, <2>3 DEF Inv, Locks, Moves, objects
<1>9. Deleting'
  BY <1>1, <1>3, <1>6 DEF Inv, Deleting, Moves, maps, objects
<1>10. Registered'
  BY <1>1, <1>3, <1>6 DEF Inv, Registered, Injective, BeingDeleted,
       LostQueuesStopped, PoliciesOfQueues, Moves, maps, objects
<1> QED
  BY <1>7, <1>8, <1>9, <1>10 DEF Inv

(* A call lets go of the mutex it holds, and of Engine.mu if it ends. *)
LEMMA UnlockStep ==
    ASSUME Inv, NEW c \in Caller, NEW s \in QueueState,
           qmu[s] = c, Unlock(s), UNCHANGED <<maps, objects>>,
           call[c].pc = "locked", Moves(c),
           call'[c].op = call[c].op, call'[c].name = call[c].name,
           call'[c].pc \in {"queue", "return"},
           call'[c].todo \subseteq call[c].todo,
           call[c].op # "DeleteQueue",
           Holds(c)' => Holds(c) /\ mu' = mu,
           ~Holds(c)' => mu' = IF Holds(c) THEN None ELSE mu
    PROVE  Inv'
<1> USE EngineAssumption
<1>1. \A d \in Caller \ {c} : Holds(d)' = Holds(d)
  BY DEF Holds, Moves
<1>2. \A d \in Caller : mu = d <=> Holds(d)
  BY DEF Inv, Locks
<1>3. \A d \in Caller : mu' = d <=> Holds(d)'
  BY <1>1, <1>2
<1>4. qmu' = [qmu EXCEPT ![s] = None]
  BY DEF Unlock
<1>5. \A r \in QueueState : qmu'[r] # c
  BY <1>4 DEF Inv, TypeOK, Locks
<1>6. \A r \in QueueState : qmu'[r] # None => qmu'[r] = qmu[r]
  BY <1>4 DEF Inv, TypeOK
<1>7. TypeOK'
  <2>1. mu' \in Caller \union {None}
    BY DEF Inv, TypeOK
  <2>2. mu' # None => call'[mu'].pc \in {"queue", "locked", "delete"}
    BY <2>1, <1>3 DEF Holds
  <2>3. qmu' \in [QueueState -> Caller \union {None}]
    BY <1>4 DEF Inv, TypeOK
  <2>4. \A r \in QueueState : qmu'[r] # None => call'[qmu'[r]].pc = "locked"
    BY <1>5, <1>6, <2>3 DEF Inv, TypeOK, Moves
  <2> QED
    BY <2>1, <2>2, <2>3, <2>4 DEF Inv, TypeOK, Moves, maps, objects
<1>8. Locks'
  <2>1. \A d \in Caller, r \in QueueState :
          qmu'[r] = d => call'[d].pc = "locked" /\ r \in call'[d].todo
    BY <1>5, <1>6 DEF Inv, Locks, Moves
  <2>2. \A d \in Caller, r, t \in QueueState :
          qmu'[r] = d /\ qmu'[t] = d => r = t
    BY <1>6 DEF Inv, Locks
  <2> QED
    BY <1>3, <2>1, <2>2 DEF Inv, Locks, Moves, objects
<1>9. Deleting'
  BY DEF Inv, Deleting, Moves, maps, objects
<1>10. Registered'
  BY DEF Inv, Registered, Injective, BeingDeleted, LostQueuesStopped,
         PoliciesOfQueues, Moves, maps, objects
<1> QED
  BY <1>7, <1>8, <1>9, <1>10 DEF Inv

(* A DeleteQueue stops the queue it was to delete. *)
LEMMA StopStep ==
    ASSUME Inv, NEW c \in Caller, NEW s \in QueueState, StopQueue(c, s)
    PROVE  Inv'
<1> USE EngineAssumption
<1>1. call[c].op = "DeleteQueue" /\ call[c].pc = "locked" /\ qmu[s] = c
  BY DEF StopQueue, At
<1>2. call[c].name \in QueueName /\ s = queues[call[c].name] /\ s \in allocated
  BY <1>1 DEF Inv, Locks, Deleting
<1>4. /\ Moves(c) /\ call'[c].pc = "delete" /\ call'[c].todo = {}
      /\ call'[c].op = call[c].op /\ call'[c].name = call[c].name
  BY StopFields DEF Inv, Moves
<1>5. /\ qmu' = [qmu EXCEPT ![s] = None] /\ stopped' = stopped \union {s}
      /\ UNCHANGED <<mu, queues, policies, allocated>>
  BY DEF StopQueue, Unlock, maps
<1>6. \A d \in Caller : Holds(d)' = Holds(d)
  BY <1>1, <1>4 DEF Holds, Moves
<1>7. \A r \in QueueState :
        qmu'[r] # c /\ (qmu'[r] # None => qmu'[r] = qmu[r])
  BY <1>1, <1>5 DEF Inv, TypeOK, Locks
<1>8. TypeOK'
  <2>1. qmu' \in [QueueState -> Caller \union {None}]
    BY <1>5 DEF Inv, TypeOK
  <2>2. \A r \in QueueState : qmu'[r] # None => call'[qmu'[r]].pc = "locked"
    BY <1>4, <1>7, <2>1 DEF Inv, TypeOK, Moves
  <2> QED
    BY <1>2, <1>4, <1>5, <2>1, <2>2 DEF Inv, TypeOK, Moves
<1>9. Locks'
  <2>1. \A d \in Caller : mu' = d <=> Holds(d)'
    BY <1>5, <1>6 DEF Inv, Locks
  <2>2. \A d \in Caller, r \in QueueState :
          qmu'[r] = d => call'[d].pc = "locked" /\ r \in call'[d].todo
    BY <1>4, <1>7 DEF Inv, Locks, Moves
  <2>3. \A d \in Caller, r, t \in QueueState :
          qmu'[r] = d /\ qmu'[t] = d => r = t
    BY <1>7 DEF Inv, Locks
  <2> QED
    BY <1>4, <1>5, <2>1, <2>2, <2>3 DEF Inv, Locks, Moves
<1>10. Deleting'
  BY <1>1, <1>2, <1>4, <1>5 DEF Inv, Deleting, Moves
<1>11. Registered'
  <2>1. BeingDeleted'
    <3> SUFFICES ASSUME NEW n \in QueueName, queues[n] \in stopped \union {s}
                 PROVE  \E d \in Caller :
                          call'[d].pc = "delete" /\ call'[d].name = n
      BY <1>5 DEF BeingDeleted
    <3>1. CASE queues[n] = s
      <4>1. n = call[c].name
        BY <3>1, <1>2 DEF Inv, TypeOK, Registered, Injective
      <4> QED
        BY <4>1, <1>4
    <3>2. CASE queues[n] \in stopped
      <4>1. PICK d \in Caller : call[d].pc = "delete" /\ call[d].name = n
        BY <3>2 DEF Inv, Registered, BeingDeleted
      <4>2. d # c
        BY <4>1, <1>1
      <4> QED
        BY <4>1, <4>2, <1>4 DEF Moves
    <3> QED
      BY <3>1, <3>2
  <2>2. LostQueuesStopped'
    BY <1>5 DEF Inv, Registered, LostQueuesStopped
  <2> QED
    BY <1>5, <2>1, <2>2 DEF Inv, Registered, Injective, PoliciesOfQueues
<1> QED
  BY <1>8, <1>9, <1>10, <1>11 DEF Inv

(* The stopped queue and its policy leave the maps. *)
LEMMA DeleteStep ==
    ASSUME Inv, NEW c \in Caller, DeleteQueue(c)
    PROVE  Inv'
<1> USE EngineAssumption
<1>1. call[c].op = "DeleteQueue" /\ call[c].pc = "delete"
  BY DEF DeleteQueue, At
<1> DEFINE n == call[c].name
<1>2. n \in QueueName /\ queues[n] \in stopped
  BY <1>1 DEF Inv, Deleting
<1>3. "OK" \in Answers
  BY DEF Answers
<1>4. /\ Moves(c) /\ call'[c].pc = "return" /\ call'[c].todo = {}
      /\ call'[c].op = call[c].op /\ call'[c].name = n
  BY <1>3, AnsweredFields DEF DeleteQueue, Inv, Moves
<1>5. /\ queues' = [queues EXCEPT ![n] = None]
      /\ policies' = [policies EXCEPT ![n] = None]
      /\ mu' = None /\ UNCHANGED <<allocated, stopped, qmu>>
  BY DEF DeleteQueue, objects
<1> HIDE DEF n
<1>6. Holds(c)
  BY <1>1 DEF Holds, Keeping
<1>7. \A d \in Caller \ {c} : ~Holds(d)
  BY <1>6 DEF Inv, Locks
<1>8. \A d \in Caller : ~Holds(d)'
  BY <1>4, <1>7 DEF Holds, Moves
<1>9. \A s \in QueueState : qmu[s] # c
  BY <1>1 DEF Inv, Locks
<1>10. TypeOK'
  BY <1>2, <1>4, <1>5, <1>9 DEF Inv, TypeOK, Moves
<1>11. Locks'
  <2>1. \A d \in Caller : mu' = d <=> Holds(d)'
    BY <1>5, <1>8
  <2>2. \A d \in Caller, s \in QueueState :
          qmu'[s] = d => call'[d].pc = "locked" /\ s \in call'[d].todo
    BY <1>4, <1>5, <1>9 DEF Inv, Locks, Moves
  <2> QED
    BY <1>4, <1>5, <2>1, <2>2 DEF Inv, Locks, Moves
<1>12. \A d \in Caller : call'[d].pc # "delete"
  BY <1>4, <1>7 DEF Inv, Deleting, Holds, Keeping, Moves
<1>13. Deleting'
  <2>1. \A d \in Caller : ~(/\ call'[d].op = "DeleteQueue"
                            /\ call'[d].pc \in {"queue", "locked"})
    BY <1>8 DEF Holds, Keeping
  <2> QED
    BY <1>2, <1>4, <1>12, <2>1 DEF Inv, Deleting, Moves
<1>14. Registered'
  <2>1. Injective'
    BY <1>2, <1>5 DEF Inv, TypeOK, Registered, Injective
  <2>2. BeingDeleted'
    <3> SUFFICES ASSUME NEW m \in QueueName, queues'[m] \in stopped
                 PROVE  FALSE
      BY <1>5 DEF BeingDeleted
    <3>1. None \notin stopped
      BY DEF Inv, TypeOK
    <3>2. m # n /\ queues[m] \in stopped
      BY <3>1, <1>2, <1>5 DEF Inv, TypeOK
    <3>3. PICK d \in Caller : call[d].pc = "delete" /\ call[d].name = m
      BY <3>2 DEF Inv, Registered, BeingDeleted
    <3>4. d # c
      BY <3>2, <3>3 DEF n
    <3> QED
      BY <3>3, <3>4, <1>7 DEF Inv, Deleting, Holds, Keeping
  <2>3. LostQueuesStopped'
    BY <1>2, <1>5 DEF Inv, TypeOK, Registered, LostQueuesStopped
  <2>4. PoliciesOfQueues'
    BY <1>2, <1>5 DEF Inv, TypeOK, Registered, PoliciesOfQueues
  <2> QED
    BY <2>1, <2>2, <2>3, <2>4 DEF Registered
<1> QED
  BY <1>10, <1>11, <1>13, <1>14 DEF Inv

---------------------------------------------------------------------------
(* The actions *)

(* A call starts, by a caller or by a timer. *)
LEMMA StartStep ==
    ASSUME Inv, NEW c \in Caller,
           \/ \E op \in Operations, n \in QueueName : Call(c, op, n)
           \/ \E s \in QueueState : Fire(c, s)
    PROVE  Inv'
<1> DEFINE Started(op, n, pc, S) ==
             /\ call' = [call EXCEPT ![c] = NewCall(op, n, pc, S)]
             /\ pc = "engine" => op \in Operations /\ n \in QueueName
             /\ pc = "queue" => op = "fire"
           Starts ==
             \E op \in Operations \union {"fire"}, n \in QueueName \union {None},
                pc \in {"engine", "queue"}, S \in SUBSET allocated :
                  Started(op, n, pc, S)
<1>a. ASSUME NEW op \in Operations, NEW n \in QueueName, Call(c, op, n)
      PROVE  Starts /\ call[c] = Idle /\ UNCHANGED <<mu, maps, objects, qmu>>
  <2>1. Started(op, n, "engine", {})
    BY <1>a DEF Call
  <2>2. {} \in SUBSET allocated /\ "engine" \in {"engine", "queue"}
    OBVIOUS
  <2>3. Starts
    BY <2>1, <2>2
  <2> QED
    BY <1>a, <2>3 DEF Call
<1>b. ASSUME NEW s \in QueueState, Fire(c, s)
      PROVE  Starts /\ call[c] = Idle /\ UNCHANGED <<mu, maps, objects, qmu>>
  <2>1. Started("fire", None, "queue", {s})
    BY <1>b DEF Fire
  <2>2. {s} \in SUBSET allocated /\ "queue" \in {"engine", "queue"}
    BY <1>b DEF Fire
  <2>3. Starts
    BY <2>1, <2>2
  <2> QED
    BY <1>b, <2>3 DEF Fire
<1>c. Starts /\ call[c] = Idle /\ UNCHANGED <<mu, maps, objects, qmu>>
  BY <1>a, <1>b
<1>1. PICK op \in Operations \union {"fire"}, n \in QueueName \union {None},
           pc \in {"engine", "queue"}, S \in SUBSET allocated :
        Started(op, n, pc, S)
  BY <1>c
<1>2. call[c].pc = "idle" /\ UNCHANGED <<mu, maps, objects, qmu>>
  BY <1>c DEF Idle
<1> DEFINE r == NewCall(op, n, pc, S)
<1>3. r \in Calls /\ r.op = op /\ r.name = n /\ r.pc = pc /\ r.todo = S
  <2>1. Sections(op) \in 0 .. 4
    BY DEF Sections
  <2>2. S \in SUBSET QueueState
    BY DEF Inv, TypeOK
  <2> QED
    BY <2>1, <2>2 DEF NewCall, Calls
<1> HIDE DEF r
<1>4. Moves(c) /\ call'[c] = r
  BY <1>1, <1>3 DEF Inv, TypeOK, Moves, r
<1>5. ~Holds(c) /\ ~Holds(c)'
  BY <1>1, <1>2, <1>3, <1>4, OperationSets DEF Holds
<1>6. /\ call'[c].pc \in {"engine", "create"} =>
           call'[c].op \in Operations /\ call'[c].name \in QueueName
      /\ call'[c].op = "DeleteQueue" => call'[c].name \in QueueName
  BY <1>1, <1>3, <1>4
<1> QED
  BY <1>1, <1>2, <1>3, <1>4, <1>5, <1>6, QuietStep

(* A call returns. *)
LEMMA ReturnStep ==
    ASSUME Inv, NEW c \in Caller, Return(c)
    PROVE  Inv'
<1>1. Idle \in Calls /\ Idle.pc = "idle" /\ Idle.todo = {}
  <2>1. 0 \in 0 .. 4 /\ None \in Answers \union {None}
    OBVIOUS
  <2> QED
    BY <2>1 DEF Idle, Calls
<1>2. Moves(c) /\ call'[c] = Idle
  BY <1>1 DEF Return, Inv, TypeOK, Moves
<1>3. call[c].pc = "return" /\ UNCHANGED <<mu, maps, objects, qmu>>
  BY DEF Return
<1>4. ~Holds(c) /\ ~Holds(c)'
  BY <1>1, <1>2, <1>3 DEF Holds
<1> QED
  BY <1>1, <1>2, <1>3, <1>4, QuietStep

(* A section under Engine.mu ends the call and changes nothing. *)
LEMMA AnswerStep ==
    ASSUME Inv, NEW c \in Caller, call[c].pc \in {"engine", "create"},
           NEW a \in Answers, Answered(c, a),
           UNCHANGED <<mu, maps, objects, qmu>>
    PROVE  Inv'
<1>1. /\ Moves(c) /\ call'[c].pc = "return" /\ call'[c].todo = {}
      /\ call'[c].op = call[c].op /\ call'[c].name = call[c].name
  BY AnsweredFields DEF Inv, Moves
<1>2. call[c].name \in QueueName
  BY DEF Inv, Locks
<1>3. ~Holds(c) /\ ~Holds(c)'
  BY <1>1 DEF Holds
<1> QED
  BY <1>1, <1>2, <1>3, QuietStep

(* A call releases Engine.mu and goes on with the queue it found. *)
LEMMA ReleaseStep ==
    ASSUME Inv, NEW c \in Caller, LookupQueue(c)
    PROVE  Inv'
<1>1. /\ call[c].op \in Releasing /\ call[c].pc = "engine"
      /\ UNCHANGED <<mu, maps, objects, qmu>>
  BY DEF LookupQueue, At
<1>2. CASE ~Found(c)
  BY <1>1, <1>2, AnswerStep DEF LookupQueue, Answers
<1>3. CASE Found(c)
  <2> DEFINE S == {queues[call[c].name]}
  <2>1. call[c].name \in QueueName
    BY <1>1 DEF Inv, Locks
  <2>2. S \subseteq allocated /\ S \in SUBSET QueueState
    BY <1>3, <2>1 DEF Found, Inv, TypeOK
  <2>3. GoesOn(c, S)
    BY <1>3 DEF LookupQueue
  <2> HIDE DEF S
  <2>4. /\ Moves(c) /\ call'[c].pc = "queue" /\ call'[c].todo = S
        /\ call'[c].op = call[c].op /\ call'[c].name = call[c].name
    BY <2>2, <2>3, GoesOnFields DEF Inv, Moves
  <2>5. ~Holds(c) /\ ~Holds(c)'
    BY <1>1, <2>4, OperationSets DEF Holds
  <2> QED
    BY <1>1, <2>1, <2>2, <2>4, <2>5, QuietStep
<1> QED
  BY <1>2, <1>3

(* Every step that takes Engine.mu keeps the invariant. *)
LEMMA TakeEngineStep ==
    ASSUME Inv, NEW c \in Caller, TakeEngine(c)
    PROVE  Inv'
<1> USE DEF At
<1>1. CASE EnsureQueue(c)
  <2>1. /\ call[c].pc = "engine" /\ call[c].op = "EnsureQueue"
        /\ UNCHANGED <<mu, maps, objects, qmu>>
    BY <1>1 DEF EnsureQueue
  <2>2. CASE Found(c)
    BY <1>1, <2>1, <2>2, AnswerStep DEF EnsureQueue, Answers
  <2>3. CASE ~Found(c)
    <3>1. call' = [call EXCEPT ![c].pc = "create"]
      BY <1>1, <2>3 DEF EnsureQueue
    <3>2. /\ Moves(c) /\ call'[c].pc = "create" /\ call'[c].todo = call[c].todo
          /\ call'[c].op = call[c].op /\ call'[c].name = call[c].name
      BY <3>1, PlaceFields DEF Inv, Moves
    <3>3. ~Holds(c) /\ ~Holds(c)'
      BY <2>1, <3>2 DEF Holds
    <3>4. /\ call[c].op \in Operations /\ call[c].name \in QueueName
          /\ call[c].todo \subseteq allocated
      BY <2>1 DEF Inv, Locks
    <3> QED
      BY <2>1, <3>2, <3>3, <3>4, QuietStep
  <2> QED
    BY <2>2, <2>3
<1>2. CASE CreateQueue(c)
  <2>1. call[c].pc \in {"engine", "create"}
    BY <1>2 DEF CreateQueue, AtCreate
  <2>2. CASE Found(c)
    BY <1>2, <2>1, <2>2, AnswerStep DEF CreateQueue, maps, objects, Answers
  <2>3. CASE ~Found(c)
    BY <1>2, <2>1, <2>3, NewQueueStep DEF CreateQueue
  <2> QED
    BY <2>2, <2>3
<1>3. CASE LookupQueue(c)
  BY <1>3, ReleaseStep
<1>4. CASE GetIamPolicy(c)
  <2>1. PICK a \in Answers : Answered(c, a)
    BY <1>4 DEF GetIamPolicy, Answers
  <2> QED
    BY <1>4, <2>1, AnswerStep DEF GetIamPolicy
<1>5. CASE SetIamPolicy(c)
  BY <1>5, PolicyStep
<1>6. CASE HoldEngine(c)
  <2> DEFINE S == {queues[call[c].name]}
  <2>1. S \in SUBSET allocated
    BY <1>6 DEF HoldEngine, Found, Inv, Locks, TypeOK
  <2>2. GoesOn(c, S)
    BY <1>6 DEF HoldEngine
  <2> QED
    BY <1>6, <2>1, <2>2, HoldStep DEF HoldEngine
<1>7. CASE MissQueue(c)
  <2>1. CASE call[c].op = "UpdateQueue"
    BY <1>7, <2>1, NewQueueStep DEF MissQueue
  <2>2. CASE call[c].op # "UpdateQueue"
    BY <1>7, <2>2, AnswerStep DEF MissQueue, maps, objects, Answers
  <2> QED
    BY <2>1, <2>2
<1>8. CASE ListQueues(c)
  <2>1. PICK page \in SUBSET {n \in QueueName : queues[n] # None} :
          \/ mu' = c /\ GoesOn(c, {queues[n] : n \in page})
          \/ Answered(c, "OK") /\ UNCHANGED mu
    BY <1>8 DEF ListQueues
  <2>2. /\ call[c].pc = "engine" /\ call[c].op = "ListQueues" /\ mu = None
        /\ UNCHANGED <<maps, objects, qmu>>
    BY <1>8 DEF ListQueues
  <2>3. CASE mu' = c /\ GoesOn(c, {queues[n] : n \in page})
    <3>1. {queues[n] : n \in page} \in SUBSET allocated
      BY DEF Inv, TypeOK
    <3> QED
      BY <2>2, <2>3, <3>1, HoldStep
  <2>4. CASE Answered(c, "OK") /\ UNCHANGED mu
    BY <2>2, <2>4, AnswerStep DEF Answers
  <2> QED
    BY <2>1, <2>3, <2>4
<1> QED
  BY <1>1, <1>2, <1>3, <1>4, <1>5, <1>6, <1>7, <1>8 DEF TakeEngine

(* Every step that leaves a section keeps the invariant. *)
LEMMA LeaveStep ==
    ASSUME Inv, NEW c \in Caller, Leave(c)
    PROVE  Inv'
<1>o. "OK" \in Answers
  BY DEF Answers
<1>1. ASSUME NEW s \in QueueState, LeaveKept(c, s)
      PROVE  Inv'
  <2>1. /\ call[c].op \in {"GetQueue", "ListQueues", "UpdateQueue"}
        /\ call[c].pc = "locked" /\ qmu[s] = c /\ Unlock(s)
        /\ UNCHANGED <<maps, objects>>
    BY <1>1 DEF LeaveKept, At
  <2>2. Holds(c) /\ call[c].op # "DeleteQueue"
    BY <2>1 DEF Holds, Keeping
  <2>3. CASE call[c].todo = {s}
    <3>1. mu' = None /\ Answered(c, "OK")
      BY <1>1, <2>3 DEF LeaveKept
    <3>2. /\ Moves(c) /\ call'[c].pc = "return" /\ call'[c].todo = {}
          /\ call'[c].op = call[c].op /\ call'[c].name = call[c].name
      BY <1>o, <3>1, AnsweredFields DEF Inv, Moves
    <3>3. ~Holds(c)'
      BY <3>2 DEF Holds
    <3> QED
      BY <2>1, <2>2, <3>1, <3>2, <3>3, UnlockStep
  <2>4. CASE call[c].todo # {s}
    <3> DEFINE S == call[c].todo \ {s}
    <3>1. UNCHANGED mu /\ GoesOn(c, S)
      BY <1>1, <2>4 DEF LeaveKept
    <3>2. S \in SUBSET QueueState /\ S \subseteq call[c].todo
      BY DEF Inv, Locks, TypeOK
    <3> HIDE DEF S
    <3>3. /\ Moves(c) /\ call'[c].pc = "queue" /\ call'[c].todo = S
          /\ call'[c].op = call[c].op /\ call'[c].name = call[c].name
      BY <3>1, <3>2, GoesOnFields DEF Inv, Moves
    <3>4. Holds(c)'
      BY <2>1, <3>3 DEF Holds, Keeping
    <3> QED
      BY <2>1, <2>2, <3>1, <3>2, <3>3, <3>4, UnlockStep
  <2> QED
    BY <2>3, <2>4
<1>2. ASSUME NEW s \in QueueState, LeaveReleased(c, s)
      PROVE  Inv'
  <2>1. /\ call[c].op \in Releasing \union {"fire"}
        /\ call[c].pc = "locked" /\ qmu[s] = c /\ Unlock(s)
        /\ UNCHANGED <<mu, maps, objects>>
    BY <1>2 DEF LeaveReleased, At
  <2>2. ~Holds(c) /\ call[c].op # "DeleteQueue"
    BY <2>1, OperationSets DEF Holds, Keeping
  <2>3. /\ Moves(c) /\ call'[c].pc \in {"queue", "return"}
        /\ call'[c].todo \subseteq call[c].todo
        /\ call'[c].op = call[c].op /\ call'[c].name = call[c].name
    <3>1. CASE Answered(c, "OK")
      BY <1>o, <3>1, AnsweredFields DEF Inv, Moves
    <3>2. CASE /\ call[c].left > 1
               /\ call' = [call EXCEPT ![c].pc = "queue", ![c].left = @ - 1]
      BY <3>2, SectionFields DEF Inv, Moves
    <3> QED
      BY <1>2, <3>1, <3>2 DEF LeaveReleased
  <2>4. ~Holds(c)'
    BY <2>1, <2>3, OperationSets DEF Holds
  <2> QED
    BY <2>1, <2>2, <2>3, <2>4, UnlockStep
<1> QED
  BY <1>1, <1>2, StopStep, DeleteStep, ReturnStep DEF Leave

---------------------------------------------------------------------------
(* The invariant, and what follows from it *)

(* Inv holds at the start. *)
LEMMA InvInit == Init => Inv
<1> SUFFICES ASSUME Init PROVE Inv
  OBVIOUS
<1> USE EngineAssumption
<1>1. Idle \in Calls /\ Idle.pc = "idle" /\ Idle.todo = {}
  <2>1. 0 \in 0 .. 4 /\ None \in Answers \union {None}
    OBVIOUS
  <2> QED
    BY <2>1 DEF Idle, Calls
<1>2. \A c \in Caller : call[c] = Idle
  BY DEF Init
<1>3. TypeOK
  BY <1>1 DEF Init, TypeOK
<1>4. Locks
  BY <1>1, <1>2 DEF Init, Locks, Holds
<1>5. Deleting
  BY <1>1, <1>2 DEF Deleting
<1>6. Registered
  BY DEF Init, Registered, Injective, BeingDeleted, LostQueuesStopped,
         PoliciesOfQueues
<1> QED
  BY <1>3, <1>4, <1>5, <1>6 DEF Inv

(* Inv is kept by every step. *)
LEMMA InvNext == Inv /\ [Next]_vars => Inv'
<1> SUFFICES ASSUME Inv, [Next]_vars PROVE Inv'
  OBVIOUS
<1>1. CASE Next
  BY <1>1, StartStep, TakeEngineStep, LockStep, LeaveStep DEF Next, TakeQueue
<1>2. CASE UNCHANGED vars
  BY <1>2 DEF vars, maps, objects, Inv, TypeOK, Locks, Holds, Deleting,
              Registered, Injective, BeingDeleted, LostQueuesStopped,
              PoliciesOfQueues
<1> QED
  BY <1>1, <1>2

(* The invariant holds throughout: engine.go keeps to one order of locks. *)
THEOREM Invariant == Spec => []Inv
BY InvInit, InvNext, PTL DEF Spec

(* The type invariant: every lock is held by a call that has yet to release *)
(* it, whatever the number of callers, names and queues.                    *)
THEOREM TypeCorrect == Spec => []TypeOK
<1>1. Inv => TypeOK
  BY DEF Inv
<1> QED
  BY <1>1, Invariant, PTL

(* No interleaving of the calls that create queues (engine.go:92, 132, 191) *)
(* replaces one that still runs.                                            *)
THEOREM NoQueueLost == Spec => []LostQueuesStopped
<1>1. Inv => LostQueuesStopped
  BY DEF Inv, Registered
<1> QED
  BY <1>1, Invariant, PTL

(* A call that looks a queue up never finds one that has been stopped:      *)
(* DeleteQueue holds Engine.mu from stop() to the removal.                  *)
THEOREM NoStoppedQueueFound == Spec => []StoppedQueuesHidden
<1>1. Inv => StoppedQueuesHidden
  <2> SUFFICES ASSUME Inv, mu = None, NEW n \in QueueName, queues[n] \in stopped
               PROVE  FALSE
    BY DEF StoppedQueuesHidden
  <2>1. PICK c \in Caller : call[c].pc = "delete"
    BY DEF Inv, Registered, BeingDeleted
  <2>2. Holds(c)
    BY <2>1 DEF Inv, Deleting, Holds, Keeping
  <2> QED
    BY <2>2, EngineAssumption DEF Inv, Locks
<1> QED
  BY <1>1, Invariant, PTL

(* A policy never outlives its queue, so that a queue created again under   *)
(* the same name starts without one.                                        *)
THEOREM NoPolicyLeft == Spec => []PoliciesOfQueues
<1>1. Inv => PoliciesOfQueues
  BY DEF Inv, Registered
<1> QED
  BY <1>1, Invariant, PTL

-----------------------------------------------------------------------------
(***************************************************************************)
(* The engine implements the registry its callers see (module Registry),   *)
(* for every number of callers, names and queues.  The argument is the one *)
(* about linearization points: each step of Engine either shows nothing to *)
(* the callers, or is the start, the effect or the return of one call.     *)
(***************************************************************************)


(* What a caller is waiting for and what it is going to be told. *)
RequestOf(c) ==
    IF call[c].op \in Operations
    THEN [op |-> call[c].op, name |-> call[c].name]
    ELSE None

AnswerOf(c) ==
    IF call[c].op \notin Operations \/ Waiting(c) THEN None
    ELSE IF call[c].answer = None THEN "OK"
    ELSE call[c].answer

(* A call has no answer until it ends, and the queue of one that holds      *)
(* Engine.mu stays in the map.                                              *)
Answering(c) ==
    /\ call[c].pc # "return" => call[c].answer = None
    /\ call[c].op \in Operations => call[c].name \in QueueName
    /\ call[c].op \in Keeping /\ Holds(c) => queues[call[c].name] # None

AllAnswering == \A c \in Caller : Answering(c)

Shown == <<Present, policies, Request, Answer>>

(* What every step has to show: the second half is a step of Registry. *)
Simulated == AllAnswering' /\ (Abstract!Next \/ UNCHANGED Shown)

(* The call of c takes effect with answer a, whatever else it does. *)
Effective(c, a) ==
    /\ \A ops : call[c].op \in ops => Abstract!Effect(c, ops, a)
    /\ Abstract!Name(c) = call[c].name
    /\ Abstract!Exists(c) <=> Found(c)

(* Other calls keep their locks: nobody else takes or releases Engine.mu. *)
OthersKeep(c) == \A d \in Caller \ {c} : mu' = d <=> mu = d

---------------------------------------------------------------------------
(* A step of call c changes what is shown of c at most. *)
LEMMA ShownOfOthers ==
    ASSUME Inv, NEW c \in Caller, Moves(c), OthersKeep(c)
    PROVE  /\ Request' = [Request EXCEPT ![c] = RequestOf(c)']
           /\ Answer' = [Answer EXCEPT ![c] = AnswerOf(c)']
           /\ Request[c] = RequestOf(c) /\ Answer[c] = AnswerOf(c)
           /\ Request = [Request EXCEPT ![c] = Request[c]]
           /\ Answer = [Answer EXCEPT ![c] = Answer[c]]
<1>1. Request = [d \in Caller |-> RequestOf(d)]
  BY DEF Request, RequestOf
<1>2. Answer = [d \in Caller |-> AnswerOf(d)]
  BY DEF Answer, AnswerOf
<1>3. Request' = [d \in Caller |-> RequestOf(d)']
  BY DEF Request, RequestOf
<1>4. Answer' = [d \in Caller |-> AnswerOf(d)']
  BY DEF Answer, AnswerOf
<1>5. \A d \in Caller \ {c} :
        RequestOf(d)' = RequestOf(d) /\ AnswerOf(d)' = AnswerOf(d)
  BY DEF RequestOf, AnswerOf, Waiting, Moves, OthersKeep
<1> HIDE DEF RequestOf, AnswerOf
<1> QED
  BY <1>1, <1>2, <1>3, <1>4, <1>5

(* The calls that do not move are answered as before. *)
LEMMA AnsweringOfOthers ==
    ASSUME Inv, AllAnswering, NEW c \in Caller, Moves(c), Answering(c)',
           queues' = queues \/ mu \in {None, c}
    PROVE  AllAnswering'
<1> SUFFICES ASSUME NEW d \in Caller \ {c} PROVE Answering(d)'
  BY DEF AllAnswering
<1>1. call'[d] = call[d] /\ Holds(d)' = Holds(d) /\ Answering(d)
  BY DEF Moves, Holds, AllAnswering
<1>2. Holds(d) => queues' = queues
  BY EngineAssumption DEF Inv, Locks
<1> QED
  BY <1>1, <1>2 DEF Answering

(* A step that shows nothing. *)
LEMMA HiddenStep ==
    ASSUME Inv, AllAnswering, NEW c \in Caller, Moves(c), OthersKeep(c),
           Answering(c)', RequestOf(c)' = RequestOf(c), AnswerOf(c)' = AnswerOf(c),
           UNCHANGED maps
    PROVE  Simulated
<1>1. AllAnswering'
  BY AnsweringOfOthers DEF maps
<1>2. Request' = Request /\ Answer' = Answer
  BY ShownOfOthers
<1>3. Present' = Present /\ policies' = policies
  BY DEF Present, maps
<1> QED
  BY <1>1, <1>2, <1>3 DEF Simulated, Shown

(* The step at which a call takes effect. *)
LEMMA EffectStep ==
    ASSUME Inv, AllAnswering, NEW c \in Caller, Moves(c), OthersKeep(c),
           call[c].op \in Operations, Waiting(c), ~Waiting(c)',
           call'[c].op = call[c].op, call'[c].name = call[c].name,
           NEW a \in Answers,
           call'[c].answer = a \/ (call'[c].answer = None /\ a = "OK")
    PROVE  Effective(c, a)
<1> USE NilAssumption
<1>1. call[c].name \in QueueName
  BY DEF AllAnswering, Answering
<1> DEFINE r == [op |-> call[c].op, name |-> call[c].name]
<1>2. /\ RequestOf(c) = r /\ RequestOf(c)' = r
      /\ r.op = call[c].op /\ r.name = call[c].name
      /\ r \in [op: Operations, name: QueueName]
  BY <1>1 DEF RequestOf
<1> HIDE DEF r
<1>3. AnswerOf(c) = None /\ AnswerOf(c)' = a
  BY DEF AnswerOf
<1>4. /\ Request' = Request /\ Request[c] = r
      /\ Answer' = [Answer EXCEPT ![c] = a] /\ Answer[c] = None
  BY <1>2, <1>3, ShownOfOthers
<1>5. r # None
  BY <1>2
<1>6. ASSUME NEW ops, call[c].op \in ops
      PROVE  Abstract!Effect(c, ops, a)
  BY <1>2, <1>4, <1>5, <1>6 DEF Abstract!Effect
<1>7. Abstract!Name(c) = call[c].name
  BY <1>2, <1>4 DEF Abstract!Name
<1>8. Abstract!Exists(c) <=> Found(c)
  BY <1>1, <1>7 DEF Abstract!Exists, Found, Present
<1> QED
  BY <1>6, <1>7, <1>8 DEF Effective

(* A call that is answered takes effect, if it has not before. *)
LEMMA AnsweredEffect ==
    ASSUME Inv, AllAnswering, NEW c \in Caller, call[c].op \in Operations,
           Waiting(c), NEW a \in Answers, Answered(c, a), OthersKeep(c), mu' # c,
           queues' = queues \/ mu \in {None, c}
    PROVE  Effective(c, a) /\ AllAnswering'
<1>1. /\ Moves(c) /\ call'[c].op = call[c].op /\ call'[c].name = call[c].name
      /\ call'[c].pc = "return" /\ call'[c].answer = a
  BY AnsweredFields DEF Inv, Moves
<1>2. ~Waiting(c)' /\ ~Holds(c)'
  BY <1>1 DEF Waiting, Holds
<1>3. Effective(c, a)
  BY <1>1, <1>2, EffectStep
<1>4. Answering(c)'
  BY <1>1, <1>2 DEF AllAnswering, Answering
<1> QED
  BY <1>1, <1>3, <1>4, AnsweringOfOthers

---------------------------------------------------------------------------
(* The effects Registry knows *)

(* A call that found its queue. *)
LEMMA FindEffect ==
    ASSUME NEW c \in Caller, Effective(c, "OK"), Found(c), UNCHANGED maps,
           call[c].op \in Releasing
               \union {"GetQueue", "GetIamPolicy", "EnsureQueue", "UpdateQueue"}
    PROVE  Abstract!Next
<1>1. Abstract!Find(c)
  <2>1. call[c].op \in Abstract!Lookups \union {"EnsureQueue", "UpdateQueue"}
    BY DEF Releasing, Abstract!Lookups
  <2> QED
    BY <2>1 DEF Effective, Abstract!Find, Abstract!registry, Present, maps
<1> QED
  BY <1>1 DEF Abstract!Next

(* A call that found no queue. *)
LEMMA NotFoundEffect ==
    ASSUME NEW c \in Caller, Effective(c, "NotFound"), ~Found(c), UNCHANGED maps,
           call[c].op \in Releasing
               \union {"GetQueue", "DeleteQueue", "GetIamPolicy", "SetIamPolicy"}
    PROVE  Abstract!Next
<1>1. Abstract!NotFound(c)
  <2>1. call[c].op \in Abstract!Lookups \union {"DeleteQueue", "SetIamPolicy"}
    BY DEF Releasing, Abstract!Lookups
  <2> QED
    BY <2>1 DEF Effective, Abstract!NotFound, Abstract!registry, Present, maps
<1> QED
  BY <1>1 DEF Abstract!Next

(* A list of queues. *)
LEMMA ListEffect ==
    ASSUME NEW c \in Caller, Effective(c, "OK"), UNCHANGED maps,
           call[c].op = "ListQueues"
    PROVE  Abstract!Next
<1>1. Abstract!List(c)
  BY DEF Effective, Abstract!List, Abstract!registry, Present, maps
<1> QED
  BY <1>1 DEF Abstract!Next

(* A queue is created, for a call that takes effect by this. *)
LEMMA CreateEffect ==
    ASSUME Inv, AllAnswering, NEW c \in Caller, call[c].pc \in {"engine", "create"},
           call[c].op \in Creating, mu = None, ~Found(c), NewQueueState(c),
           UNCHANGED <<mu, policies, stopped, qmu>>
    PROVE  Simulated
<1>1. Effective(c, "OK") /\ AllAnswering'
  <2>1. call[c].op \in Operations /\ "OK" \in Answers
    BY DEF Operations, Answers
  <2>2. Waiting(c) /\ OthersKeep(c) /\ mu' # c
    BY EngineAssumption DEF Waiting, OthersKeep
  <2> QED
    BY <2>1, <2>2, AnsweredEffect DEF NewQueueState
<1>2. call[c].name \in QueueName
  BY DEF Inv, Locks
<1>3. Fresh \in QueueState /\ Fresh \notin allocated
  BY DEF NewQueueState, Fresh, Inv, TypeOK
<1>4. Present' = Present \union {call[c].name}
  <2> DEFINE n == call[c].name
  <2>1. queues' = [queues EXCEPT ![n] = Fresh] /\ n \in QueueName
    BY <1>2 DEF NewQueueState
  <2> HIDE DEF n
  <2>2. Present' = Present \union {n}
    BY <1>3, <2>1, EngineAssumption DEF Present, Inv, TypeOK
  <2> QED
    BY <2>2 DEF n
<1>5. Abstract!Create(c)
  <2>1. call[c].op \in {"CreateQueue", "EnsureQueue", "UpdateQueue"}
    BY DEF Creating
  <2> QED
    BY <1>1, <1>4, <2>1 DEF Effective, Abstract!Create
<1> QED
  BY <1>1, <1>5 DEF Simulated, Abstract!Next

---------------------------------------------------------------------------
(* The actions of Engine *)

(* A call starts. *)
LEMMA CallSimulated ==
    ASSUME Inv, AllAnswering, NEW c \in Caller,
           NEW op \in Operations, NEW n \in QueueName, Call(c, op, n)
    PROVE  Simulated
<1> USE NilAssumption
<1> DEFINE k == NewCall(op, n, "engine", {})
<1>1. /\ k.op = op /\ k.name = n /\ k.pc = "engine" /\ k.answer = None
      /\ k \in Calls
  <2>1. Sections(op) \in 0 .. 4 /\ {} \in SUBSET QueueState
    BY DEF Sections
  <2> QED
    BY <2>1 DEF NewCall, Calls
<1>2. call' = [call EXCEPT ![c] = k]
  BY DEF Call
<1> HIDE DEF k
<1>3. Moves(c) /\ call'[c] = k
  BY <1>1, <1>2 DEF Inv, TypeOK, Moves
<1>4. /\ call[c].op = None /\ call[c].pc = "idle" /\ call[c].answer = None
      /\ UNCHANGED <<mu, maps>>
  BY DEF Call, Idle
<1>5. Answering(c)' /\ AllAnswering'
  <2>1. Answering(c)'
    BY <1>1, <1>3 DEF Answering, Holds
  <2> QED
    BY <1>3, <1>4, <2>1, AnsweringOfOthers DEF maps
<1> DEFINE r == [op |-> op, name |-> n]
<1>6. /\ RequestOf(c) = None /\ RequestOf(c)' = r
      /\ AnswerOf(c) = None /\ AnswerOf(c)' = None
  BY <1>1, <1>3, <1>4 DEF RequestOf, AnswerOf, Waiting
<1>7. r \in Abstract!Requests
  BY DEF Abstract!Requests, Abstract!Operations, Abstract!Lookups, Operations,
         Releasing, Keeping, Creating
<1> HIDE DEF r
<1>8. OthersKeep(c)
  BY <1>4 DEF OthersKeep
<1>9. /\ Request' = [Request EXCEPT ![c] = r] /\ Request[c] = None
      /\ Answer' = Answer
  BY <1>3, <1>6, <1>8, ShownOfOthers
<1>10. Abstract!Call(c, r)
  BY <1>4, <1>9 DEF Abstract!Call, Abstract!registry, Present, maps
<1> QED
  BY <1>5, <1>7, <1>10 DEF Simulated, Abstract!Next

(* A goroutine of a timer is not a call. *)
LEMMA FireSimulated ==
    ASSUME Inv, AllAnswering, NEW c \in Caller, NEW s \in QueueState, Fire(c, s)
    PROVE  Simulated
<1> USE NilAssumption
<1> DEFINE k == NewCall("fire", None, "queue", {s})
<1>1. k.op = "fire" /\ k.pc = "queue" /\ k.answer = None /\ k \in Calls
  <2>1. Sections("fire") \in 0 .. 4 /\ {s} \in SUBSET QueueState
    BY DEF Sections
  <2> QED
    BY <2>1 DEF NewCall, Calls
<1>2. call' = [call EXCEPT ![c] = k]
  BY DEF Fire
<1> HIDE DEF k
<1>3. Moves(c) /\ call'[c] = k
  BY <1>1, <1>2 DEF Inv, TypeOK, Moves
<1>4. call[c].op = None /\ UNCHANGED <<mu, maps>>
  BY DEF Fire, Idle
<1>5. Answering(c)'
  BY <1>1, <1>3, OperationSets DEF Answering
<1>6. RequestOf(c)' = RequestOf(c) /\ AnswerOf(c)' = AnswerOf(c)
  BY <1>1, <1>3, <1>4, OperationSets DEF RequestOf, AnswerOf
<1>7. OthersKeep(c)
  BY <1>4 DEF OthersKeep
<1> QED
  BY <1>3, <1>4, <1>5, <1>6, <1>7, HiddenStep

(* A call returns what it was answered. *)
LEMMA ReturnSimulated ==
    ASSUME Inv, AllAnswering, NEW c \in Caller, Return(c)
    PROVE  Simulated
<1> USE NilAssumption
<1>1. /\ Idle \in Calls /\ Idle.pc = "idle" /\ Idle.op = None
      /\ Idle.answer = None
  <2>1. 0 \in 0 .. 4 /\ None \in Answers \union {None}
    OBVIOUS
  <2> QED
    BY <2>1 DEF Idle, Calls
<1>2. Moves(c) /\ call'[c] = Idle
  BY <1>1 DEF Return, Inv, TypeOK, Moves
<1>3. call[c].pc = "return" /\ UNCHANGED <<mu, maps>>
  BY DEF Return
<1>4. Answering(c)'
  BY <1>1, <1>2, OperationSets DEF Answering
<1>5. OthersKeep(c) /\ ~Waiting(c)
  BY <1>3 DEF OthersKeep, Waiting, Inv, Locks, Holds
<1>6. RequestOf(c)' = None /\ AnswerOf(c)' = None
  BY <1>1, <1>2 DEF RequestOf, AnswerOf
<1>7. CASE call[c].op \in Operations
  <2>1. AnswerOf(c) # None
    BY <1>5, <1>7 DEF AnswerOf, Answers
  <2>2. /\ Request' = [Request EXCEPT ![c] = None]
        /\ Answer' = [Answer EXCEPT ![c] = None] /\ Answer[c] # None
    BY <1>2, <1>5, <1>6, <2>1, ShownOfOthers
  <2>3. Abstract!Return(c)
    BY <1>3, <2>2 DEF Abstract!Return, Abstract!registry, Present, maps
  <2>4. AllAnswering'
    BY <1>2, <1>3, <1>4, AnsweringOfOthers DEF maps
  <2> QED
    BY <2>3, <2>4 DEF Simulated, Abstract!Next
<1>8. CASE call[c].op \notin Operations
  <2>1. RequestOf(c) = None /\ AnswerOf(c) = None
    BY <1>8 DEF RequestOf, AnswerOf
  <2> QED
    BY <1>2, <1>3, <1>4, <1>5, <1>6, <2>1, HiddenStep
<1> QED
  BY <1>7, <1>8

(* EnsureQueue finds a queue, or shows nothing yet. *)
LEMMA EnsureSimulated ==
    ASSUME Inv, AllAnswering, NEW c \in Caller, EnsureQueue(c)
    PROVE  Simulated
<1>1. /\ call[c].pc = "engine" /\ call[c].op = "EnsureQueue" /\ mu = None
      /\ UNCHANGED <<mu, maps>>
  BY DEF EnsureQueue, At
<1>2. /\ Waiting(c) /\ OthersKeep(c) /\ mu' # c /\ call[c].op \in Operations
      /\ "OK" \in Answers
  BY <1>1, EngineAssumption DEF Waiting, OthersKeep, Operations, Creating, Answers
<1>3. CASE Found(c)
  <2>1. Effective(c, "OK") /\ AllAnswering'
    BY <1>1, <1>2, <1>3, AnsweredEffect DEF EnsureQueue, maps
  <2>2. Abstract!Next
    BY <1>1, <1>3, <2>1, FindEffect
  <2> QED
    BY <2>1, <2>2 DEF Simulated
<1>4. CASE ~Found(c)
  <2>1. call' = [call EXCEPT ![c].pc = "create"] /\ "create" \in {"create", "locked"}
    BY <1>4 DEF EnsureQueue
  <2>2. /\ Moves(c) /\ call'[c].pc = "create" /\ call'[c].answer = call[c].answer
        /\ call'[c].op = call[c].op /\ call'[c].name = call[c].name
    BY <2>1, PlaceFields DEF Inv, Moves
  <2>3. Answering(c)'
    BY <1>1, <2>2 DEF AllAnswering, Answering, Holds
  <2>4. RequestOf(c)' = RequestOf(c) /\ AnswerOf(c)' = AnswerOf(c)
    BY <1>1, <2>2 DEF RequestOf, AnswerOf, Waiting
  <2> QED
    BY <1>1, <1>2, <2>2, <2>3, <2>4, HiddenStep
<1> QED
  BY <1>3, <1>4

(* CreateQueue, also when EnsureQueue makes the call. *)
LEMMA CreateSimulated ==
    ASSUME Inv, AllAnswering, NEW c \in Caller, CreateQueue(c)
    PROVE  Simulated
<1>1. /\ call[c].pc \in {"engine", "create"} /\ mu = None
      /\ call[c].op \in {"CreateQueue", "EnsureQueue"}
      /\ UNCHANGED <<mu, policies, stopped, qmu>>
  BY DEF CreateQueue, AtCreate, At
<1>2. CASE ~Found(c)
  <2>1. NewQueueState(c) /\ call[c].op \in Creating
    BY <1>1, <1>2 DEF CreateQueue, Creating
  <2> QED
    BY <1>1, <1>2, <2>1, CreateEffect
<1>3. CASE Found(c)
  <2>1. Answered(c, "AlreadyExists") /\ UNCHANGED maps
    BY <1>1, <1>3 DEF CreateQueue, maps
  <2>2. Effective(c, "AlreadyExists") /\ AllAnswering'
    <3>1. /\ Waiting(c) /\ OthersKeep(c) /\ mu' # c
          /\ call[c].op \in Operations /\ "AlreadyExists" \in Answers
      BY <1>1, EngineAssumption
         DEF Waiting, OthersKeep, Operations, Creating, Answers
    <3> QED
      BY <2>1, <3>1, AnsweredEffect DEF maps
  <2>3. Abstract!CreateRefused(c)
    BY <1>1, <1>3, <2>1, <2>2
       DEF Effective, Abstract!CreateRefused, Abstract!registry, Present, maps
  <2> QED
    BY <2>2, <2>3 DEF Simulated, Abstract!Next
<1> QED
  BY <1>2, <1>3

(* A section under Engine.mu that finds a queue or not, and ends the call   *)
(* without a change.                                                        *)
LEMMA ReadSimulated ==
    ASSUME Inv, AllAnswering, NEW c \in Caller, call[c].pc = "engine", mu = None,
           UNCHANGED <<mu, maps>>,
           \/ /\ Found(c) /\ Answered(c, "OK")
              /\ call[c].op \in {"GetIamPolicy"}
           \/ /\ ~Found(c) /\ Answered(c, "NotFound")
              /\ call[c].op \in Releasing \union
                   {"GetQueue", "DeleteQueue", "GetIamPolicy", "SetIamPolicy"}
    PROVE  Simulated
<1>1. /\ Waiting(c) /\ OthersKeep(c) /\ mu' # c /\ call[c].op \in Operations
      /\ "OK" \in Answers /\ "NotFound" \in Answers
  BY EngineAssumption DEF Waiting, OthersKeep, Operations, Releasing, Keeping, Answers
<1>2. CASE Found(c)
  <2>1. Effective(c, "OK") /\ AllAnswering'
    BY <1>1, <1>2, AnsweredEffect DEF maps
  <2> QED
    BY <1>2, <2>1, FindEffect DEF Simulated
<1>3. CASE ~Found(c)
  <2>1. Effective(c, "NotFound") /\ AllAnswering'
    BY <1>1, <1>3, AnsweredEffect DEF maps
  <2> QED
    BY <1>3, <2>1, NotFoundEffect DEF Simulated
<1> QED
  BY <1>2, <1>3

(* A lookup takes effect when Engine.mu is released, though the call goes on. *)
LEMMA LookupSimulated ==
    ASSUME Inv, AllAnswering, NEW c \in Caller, LookupQueue(c)
    PROVE  Simulated
<1>1. /\ call[c].op \in Releasing /\ call[c].pc = "engine" /\ mu = None
      /\ UNCHANGED <<mu, maps>>
  BY DEF LookupQueue, At
<1>2. CASE ~Found(c)
  BY <1>1, <1>2, ReadSimulated DEF LookupQueue
<1>3. CASE Found(c)
  <2> DEFINE S == {queues[call[c].name]}
  <2>1. S \in SUBSET QueueState
    BY <1>1, <1>3 DEF Found, Inv, Locks, TypeOK
  <2>2. GoesOn(c, S)
    BY <1>3 DEF LookupQueue
  <2> HIDE DEF S
  <2>3. /\ Moves(c) /\ call'[c].pc = "queue" /\ call'[c].answer = call[c].answer
        /\ call'[c].op = call[c].op /\ call'[c].name = call[c].name
    BY <2>1, <2>2, GoesOnFields DEF Inv, Moves
  <2>4. call'[c].answer = None
    BY <1>1, <2>3 DEF AllAnswering, Answering
  <2>5. /\ Waiting(c) /\ OthersKeep(c) /\ ~Waiting(c)' /\ "OK" \in Answers
        /\ call[c].op \in Operations
    BY <1>1, <2>3, EngineAssumption, OperationSets
       DEF Waiting, OthersKeep, Answers
  <2>6. Effective(c, "OK")
    BY <2>3, <2>4, <2>5, EffectStep
  <2>7. AllAnswering'
    <3>1. Answering(c)'
      BY <1>1, <2>3, <2>4, OperationSets DEF AllAnswering, Answering
    <3> QED
      BY <1>1, <2>3, <3>1, AnsweringOfOthers DEF maps
  <2> QED
    BY <1>1, <1>3, <2>6, <2>7, FindEffect DEF Simulated
<1> QED
  BY <1>2, <1>3

(* A policy is set. *)
LEMMA PolicySimulated ==
    ASSUME Inv, AllAnswering, NEW c \in Caller, SetIamPolicy(c)
    PROVE  Simulated
<1>1. /\ call[c].op = "SetIamPolicy" /\ call[c].pc = "engine" /\ mu = None
      /\ UNCHANGED <<mu, queues>>
  BY DEF SetIamPolicy, At
<1>2. CASE ~Found(c)
  BY <1>1, <1>2, ReadSimulated DEF SetIamPolicy, maps
<1>3. CASE Found(c)
  <2>1. Effective(c, "OK") /\ AllAnswering'
    <3>1. /\ Waiting(c) /\ OthersKeep(c) /\ mu' # c
          /\ call[c].op \in Operations /\ "OK" \in Answers
      BY <1>1, EngineAssumption DEF Waiting, OthersKeep, Operations, Answers
    <3> QED
      BY <1>1, <1>3, <3>1, AnsweredEffect DEF SetIamPolicy
  <2>2. PICK p \in Policy : policies' = [policies EXCEPT ![call[c].name] = p]
    BY <1>3 DEF SetIamPolicy
  <2>3. Abstract!SetPolicy(c)
    BY <1>1, <1>3, <2>1, <2>2 DEF Effective, Abstract!SetPolicy, Present
  <2> QED
    BY <2>1, <2>3 DEF Simulated, Abstract!Next
<1> QED
  BY <1>2, <1>3

(* A call that keeps Engine.mu shows nothing when it takes it. *)
LEMMA HoldSimulated ==
    ASSUME Inv, AllAnswering, NEW c \in Caller, mu = None, mu' = c,
           call[c].pc = "engine", call[c].op \in Keeping \union {"ListQueues"},
           call[c].op \in Keeping => Found(c),
           NEW S \in SUBSET QueueState, GoesOn(c, S), UNCHANGED maps
    PROVE  Simulated
<1>1. /\ Moves(c) /\ call'[c].pc = "queue" /\ call'[c].answer = call[c].answer
      /\ call'[c].op = call[c].op /\ call'[c].name = call[c].name
  BY GoesOnFields DEF Inv, Moves
<1>2. OthersKeep(c)
  BY EngineAssumption DEF OthersKeep
<1>3. Answering(c)'
  BY <1>1 DEF AllAnswering, Answering, Found, maps
<1>4. RequestOf(c)' = RequestOf(c) /\ AnswerOf(c)' = AnswerOf(c)
  BY <1>1 DEF RequestOf, AnswerOf, Waiting
<1> QED
  BY <1>1, <1>2, <1>3, <1>4, HiddenStep

(* Every step that takes Engine.mu. *)
LEMMA TakeEngineSimulated ==
    ASSUME Inv, AllAnswering, NEW c \in Caller, TakeEngine(c)
    PROVE  Simulated
<1> USE DEF At
<1>1. CASE GetIamPolicy(c)
  BY <1>1, ReadSimulated DEF GetIamPolicy
<1>2. CASE HoldEngine(c)
  <2> DEFINE S == {queues[call[c].name]}
  <2>1. S \in SUBSET QueueState
    BY <1>2 DEF HoldEngine, Found, Inv, Locks, TypeOK
  <2>2. GoesOn(c, S)
    BY <1>2 DEF HoldEngine
  <2> QED
    BY <1>2, <2>1, <2>2, HoldSimulated DEF HoldEngine
<1>3. CASE MissQueue(c)
  <2>1. CASE call[c].op = "UpdateQueue"
    BY <1>3, <2>1, CreateEffect DEF MissQueue, Creating
  <2>2. CASE call[c].op # "UpdateQueue"
    <3>1. call[c].op \in {"GetQueue", "DeleteQueue"}
      BY <1>3, <2>2 DEF MissQueue, Keeping
    <3> QED
      BY <1>3, <2>2, <3>1, ReadSimulated DEF MissQueue, maps
  <2> QED
    BY <2>1, <2>2
<1>4. CASE ListQueues(c)
  <2>1. PICK page \in SUBSET {n \in QueueName : queues[n] # None} :
          \/ mu' = c /\ GoesOn(c, {queues[n] : n \in page})
          \/ Answered(c, "OK") /\ UNCHANGED mu
    BY <1>4 DEF ListQueues
  <2>2. /\ call[c].pc = "engine" /\ call[c].op = "ListQueues" /\ mu = None
        /\ UNCHANGED maps
    BY <1>4 DEF ListQueues
  <2>3. CASE mu' = c /\ GoesOn(c, {queues[n] : n \in page})
    <3>1. {queues[n] : n \in page} \in SUBSET QueueState
      BY DEF Inv, TypeOK
    <3>2. "ListQueues" \notin Keeping
      BY DEF Keeping
    <3> QED
      BY <2>2, <2>3, <3>1, <3>2, HoldSimulated
  <2>4. CASE Answered(c, "OK") /\ UNCHANGED mu
    <3>1. /\ Waiting(c) /\ OthersKeep(c) /\ mu' # c
          /\ call[c].op \in Operations /\ "OK" \in Answers
      BY <2>2, <2>4, EngineAssumption DEF Waiting, OthersKeep, Operations, Answers
    <3>2. Effective(c, "OK") /\ AllAnswering'
      BY <2>2, <2>4, <3>1, AnsweredEffect DEF maps
    <3> QED
      BY <2>2, <3>2, ListEffect DEF Simulated
  <2> QED
    BY <2>1, <2>3, <2>4
<1> QED
  BY <1>1, <1>2, <1>3, <1>4, EnsureSimulated, CreateSimulated, LookupSimulated,
     PolicySimulated DEF TakeEngine

(* A mutex is taken: nothing is shown. *)
LEMMA LockSimulated ==
    ASSUME Inv, AllAnswering, NEW c \in Caller, NEW s \in QueueState, LockQueue(c, s)
    PROVE  Simulated
<1>1. call[c].pc = "queue" /\ UNCHANGED <<mu, maps>>
  BY DEF LockQueue
<1>2. /\ Moves(c) /\ call'[c].pc = "locked" /\ call'[c].answer = call[c].answer
      /\ call'[c].op = call[c].op /\ call'[c].name = call[c].name
  BY LockFields DEF Inv, Moves
<1>3. OthersKeep(c)
  BY <1>1 DEF OthersKeep
<1>4. Answering(c)'
  BY <1>1, <1>2 DEF AllAnswering, Answering, Holds, maps
<1>5. RequestOf(c)' = RequestOf(c) /\ AnswerOf(c)' = AnswerOf(c)
  BY <1>1, <1>2 DEF RequestOf, AnswerOf, Waiting
<1> QED
  BY <1>1, <1>2, <1>3, <1>4, <1>5, HiddenStep

(* GetQueue, ListQueues and UpdateQueue take effect when they end. *)
LEMMA KeptSimulated ==
    ASSUME Inv, AllAnswering, NEW c \in Caller, NEW s \in QueueState, LeaveKept(c, s)
    PROVE  Simulated
<1>1. /\ call[c].op \in {"GetQueue", "ListQueues", "UpdateQueue"}
      /\ call[c].pc = "locked" /\ UNCHANGED maps
  BY DEF LeaveKept, At
<1>2. Holds(c) /\ mu = c /\ call[c].op \in Operations
  <2>1. Holds(c) /\ call[c].op \in Operations
    BY <1>1 DEF Holds, Keeping, Operations
  <2> QED
    BY <2>1 DEF Inv, Locks
<1>3. CASE call[c].todo = {s}
  <2>1. mu' = None /\ Answered(c, "OK")
    BY <1>3 DEF LeaveKept
  <2>2. Waiting(c) /\ OthersKeep(c) /\ mu' # c /\ "OK" \in Answers
    BY <1>2, <2>1, EngineAssumption DEF Waiting, OthersKeep, Answers
  <2>3. Effective(c, "OK") /\ AllAnswering'
    BY <1>1, <1>2, <2>1, <2>2, AnsweredEffect DEF maps
  <2>4. Abstract!Next
    <3>1. CASE call[c].op = "ListQueues"
      BY <1>1, <2>3, <3>1, ListEffect
    <3>2. CASE call[c].op # "ListQueues"
      <4>1. Found(c)
        BY <1>1, <1>2, <3>2 DEF AllAnswering, Answering, Found, Keeping
      <4> QED
        BY <1>1, <2>3, <3>2, <4>1, FindEffect
    <3> QED
      BY <3>1, <3>2
  <2> QED
    BY <2>3, <2>4 DEF Simulated
<1>4. CASE call[c].todo # {s}
  <2> DEFINE S == call[c].todo \ {s}
  <2>1. UNCHANGED mu /\ GoesOn(c, S)
    BY <1>4 DEF LeaveKept
  <2>2. S \in SUBSET QueueState
    BY DEF Inv, Locks, TypeOK
  <2> HIDE DEF S
  <2>3. /\ Moves(c) /\ call'[c].pc = "queue" /\ call'[c].answer = call[c].answer
        /\ call'[c].op = call[c].op /\ call'[c].name = call[c].name
    BY <2>1, <2>2, GoesOnFields DEF Inv, Moves
  <2>4. OthersKeep(c)
    BY <2>1 DEF OthersKeep
  <2>5. Answering(c)'
    BY <1>1, <1>2, <2>3 DEF AllAnswering, Answering, maps
  <2>6. RequestOf(c)' = RequestOf(c) /\ AnswerOf(c)' = AnswerOf(c)
    BY <1>1, <1>2, <2>1, <2>3 DEF RequestOf, AnswerOf, Waiting
  <2> QED
    BY <1>1, <2>3, <2>4, <2>5, <2>6, HiddenStep
<1> QED
  BY <1>3, <1>4

(* stop() shows nothing: Engine.mu is held and the queue is in the map. *)
LEMMA StopSimulated ==
    ASSUME Inv, AllAnswering, NEW c \in Caller, NEW s \in QueueState, StopQueue(c, s)
    PROVE  Simulated
<1>1. /\ call[c].op = "DeleteQueue" /\ call[c].pc = "locked"
      /\ UNCHANGED <<mu, maps>>
  BY DEF StopQueue, At
<1>2. /\ Moves(c) /\ call'[c].pc = "delete" /\ call'[c].answer = call[c].answer
      /\ call'[c].op = call[c].op /\ call'[c].name = call[c].name
  BY StopFields DEF Inv, Moves
<1>3. OthersKeep(c)
  BY <1>1 DEF OthersKeep
<1>4. Answering(c)'
  BY <1>1, <1>2 DEF AllAnswering, Answering, Holds, maps
<1>5. RequestOf(c)' = RequestOf(c) /\ AnswerOf(c)' = AnswerOf(c)
  BY <1>1, <1>2 DEF RequestOf, AnswerOf, Waiting
<1> QED
  BY <1>1, <1>2, <1>3, <1>4, <1>5, HiddenStep

(* DeleteQueue takes effect when the queue leaves the map. *)
LEMMA DeleteSimulated ==
    ASSUME Inv, AllAnswering, NEW c \in Caller, DeleteQueue(c)
    PROVE  Simulated
<1>1. /\ call[c].op = "DeleteQueue" /\ call[c].pc = "delete" /\ mu' = None
      /\ Answered(c, "OK")
  BY DEF DeleteQueue, At
<1> DEFINE n == call[c].name
<1>2. n \in QueueName /\ Found(c)
  BY <1>1, EngineAssumption DEF Inv, Deleting, TypeOK, Found
<1>3. mu = c
  <2>1. Holds(c)
    BY <1>1 DEF Holds, Keeping
  <2> QED
    BY <2>1 DEF Inv, Locks
<1>4. /\ Waiting(c) /\ OthersKeep(c) /\ mu' # c /\ "OK" \in Answers
      /\ call[c].op \in Operations
  BY <1>1, <1>3, EngineAssumption
     DEF Waiting, OthersKeep, Operations, Keeping, Answers
<1>5. Effective(c, "OK") /\ AllAnswering'
  BY <1>1, <1>3, <1>4, AnsweredEffect
<1>6. /\ queues' = [queues EXCEPT ![n] = None]
      /\ policies' = [policies EXCEPT ![n] = None]
  BY DEF DeleteQueue
<1>7. Present' = Present \ {n}
  <2> HIDE DEF n
  <2> QED
    BY <1>2, <1>6 DEF Present, Inv, TypeOK
<1>8. Abstract!Delete(c)
  BY <1>1, <1>2, <1>5, <1>6, <1>7 DEF Effective, Abstract!Delete
<1> QED
  BY <1>5, <1>8 DEF Simulated, Abstract!Next

(* A call that released Engine.mu shows nothing more until it returns. *)
LEMMA ReleasedSimulated ==
    ASSUME Inv, AllAnswering, NEW c \in Caller, NEW s \in QueueState,
           LeaveReleased(c, s)
    PROVE  Simulated
<1>1. /\ call[c].op \in Releasing \union {"fire"} /\ call[c].pc = "locked"
      /\ UNCHANGED <<mu, maps>>
  BY DEF LeaveReleased, At
<1>2. /\ Moves(c) /\ call'[c].pc \in {"queue", "return"}
      /\ call'[c].op = call[c].op /\ call'[c].name = call[c].name
      /\ call'[c].answer = IF call'[c].pc = "queue" THEN call[c].answer ELSE "OK"
  <2>1. CASE Answered(c, "OK")
    <3>1. "OK" \in Answers
      BY DEF Answers
    <3> QED
      BY <2>1, <3>1, AnsweredFields DEF Inv, Moves
  <2>2. CASE /\ call[c].left > 1
             /\ call' = [call EXCEPT ![c].pc = "queue", ![c].left = @ - 1]
    BY <2>2, SectionFields DEF Inv, Moves
  <2> QED
    BY <2>1, <2>2 DEF LeaveReleased
<1>3. call[c].answer = None
  BY <1>1 DEF AllAnswering, Answering
<1>4. OthersKeep(c) /\ mu # c /\ mu' # c
  <2>1. ~Holds(c)
    BY <1>1, OperationSets DEF Holds
  <2> QED
    BY <1>1, <2>1 DEF OthersKeep, Inv, Locks
<1>5. Answering(c)'
  BY <1>1, <1>2, <1>3, OperationSets DEF AllAnswering, Answering
<1>6. RequestOf(c)' = RequestOf(c) /\ AnswerOf(c)' = AnswerOf(c)
  BY <1>1, <1>2, <1>3, <1>4, NilAssumption DEF RequestOf, AnswerOf, Waiting, Answers
<1> QED
  BY <1>1, <1>2, <1>4, <1>5, <1>6, HiddenStep

---------------------------------------------------------------------------
(* The refinement *)

(* The initial states are initial states of Registry. *)
LEMMA InitRefined == Init => AllAnswering /\ Abstract!Init
<1> SUFFICES ASSUME Init PROVE AllAnswering /\ Abstract!Init
  OBVIOUS
<1> USE NilAssumption
<1>1. \A c \in Caller : call[c].op = None /\ call[c].answer = None
  BY DEF Init, Idle
<1>2. AllAnswering
  BY <1>1, OperationSets DEF AllAnswering, Answering
<1>3. Present = {}
  BY DEF Init, Present
<1>4. Request = [c \in Caller |-> None] /\ Answer = [c \in Caller |-> None]
  BY <1>1 DEF Request, Answer
<1>5. policies = [n \in QueueName |-> None]
  BY DEF Init
<1> QED
  BY <1>2, <1>3, <1>4, <1>5 DEF Abstract!Init

(* Every step is a step of Registry, or shows nothing. *)
LEMMA StepRefined == Inv /\ AllAnswering /\ [Next]_vars => Simulated
<1> SUFFICES ASSUME Inv, AllAnswering, [Next]_vars PROVE Simulated
  OBVIOUS
<1>1. CASE Next
  <2>1. PICK c \in Caller :
          \/ \E op \in Operations, n \in QueueName : Call(c, op, n)
          \/ \E s \in QueueState : Fire(c, s)
          \/ TakeEngine(c)
          \/ TakeQueue(c)
          \/ Leave(c)
    BY <1>1 DEF Next
  <2>2. CASE Leave(c)
    BY <2>2, KeptSimulated, StopSimulated, ReleasedSimulated, DeleteSimulated,
       ReturnSimulated DEF Leave
  <2>3. CASE TakeQueue(c)
    BY <2>3, LockSimulated DEF TakeQueue
  <2> QED
    BY <2>1, <2>2, <2>3, CallSimulated, FireSimulated, TakeEngineSimulated
<1>2. CASE UNCHANGED vars
  <2>1. AllAnswering'
    BY <1>2 DEF vars, maps, AllAnswering, Answering, Holds
  <2>2. UNCHANGED Shown
    BY <1>2 DEF vars, maps, Shown, Present, Request, Answer, Waiting
  <2> QED
    BY <2>1, <2>2 DEF Simulated
<1> QED
  BY <1>1, <1>2

(* Every behaviour of the engine is one of the registry: whatever the       *)
(* callers, names and queues, each call takes effect at one instant between *)
(* its start and its return, also those that keep Engine.mu while they wait *)
(* for a queue, and those that go on with a queue after releasing it.       *)
THEOREM Refinement == Spec => ImplementsRegistry
<1>1. Init => AllAnswering
  BY InitRefined
<1>2. Inv /\ AllAnswering /\ [Next]_vars => AllAnswering'
  BY StepRefined DEF Simulated
<1>3. Spec => []AllAnswering
  BY <1>1, <1>2, Invariant, PTL DEF Spec
<1>4. Init => Abstract!Init
  BY InitRefined
<1>5. Inv /\ AllAnswering /\ [Next]_vars =>
        [Abstract!Next]_<<Present, policies, Request, Answer>>
  BY StepRefined DEF Simulated, Shown
<1> QED
  BY <1>3, <1>4, <1>5, Invariant, PTL DEF Spec, ImplementsRegistry, Abstract!Spec
=============================================================================
