------------------------------ MODULE Registry ------------------------------
(***************************************************************************)
(* What the engine promises its concurrent callers: a map of queues, and   *)
(* an IAM policy for some of them, on which every call takes effect at one *)
(* instant between its start and its return.                               *)
(*                                                                         *)
(* Calls that work on a queue after they have looked it up (PurgeQueue,    *)
(* PauseQueue, the task calls) promise less: the queue existed at some     *)
(* instant of the call.                                                    *)
(***************************************************************************)
CONSTANTS Caller, QueueName, Policy, None

(* The calls that differ only in what they do to the queue they find;      *)
(* QueueCall is SetQueueState, CreateTask, GetTask, ListTasks, DeleteTask. *)
Lookups == {"GetQueue", "PurgeQueue", "QueueCall", "RunTask", "GetIamPolicy"}

Operations ==
    Lookups \union {"CreateQueue", "EnsureQueue", "UpdateQueue", "DeleteQueue",
                    "SetIamPolicy", "ListQueues"}

Requests == [op: Operations, name: QueueName]

Answers == {"OK", "NotFound", "AlreadyExists"}

VARIABLES
    present,    \* the names of the queues there are
    policies,   \* the IAM policy of a queue
    request,    \* what each caller is waiting for
    answer      \* what it will be told

registry == <<present, policies>>

Init ==
    /\ present = {}
    /\ policies = [n \in QueueName |-> None]
    /\ request = [c \in Caller |-> None]
    /\ answer = [c \in Caller |-> None]

Call(c, r) ==
    /\ request[c] = None
    /\ request' = [request EXCEPT ![c] = r]
    /\ UNCHANGED <<registry, answer>>

(* The instant at which the call of c takes effect. *)
Effect(c, op, a) ==
    /\ request[c] # None /\ request[c].op \in op
    /\ answer[c] = None
    /\ answer' = [answer EXCEPT ![c] = a]
    /\ UNCHANGED request

Name(c) == request[c].name

Exists(c) == Name(c) \in present

Create(c) ==
    /\ Effect(c, {"CreateQueue", "EnsureQueue", "UpdateQueue"}, "OK")
    /\ ~Exists(c)
    /\ present' = present \union {Name(c)}
    /\ UNCHANGED policies

(* EnsureQueue may lose a race and report the queue it was to ensure. *)
CreateRefused(c) ==
    /\ Effect(c, {"CreateQueue", "EnsureQueue"}, "AlreadyExists")
    /\ Exists(c)
    /\ UNCHANGED registry

Delete(c) ==
    /\ Effect(c, {"DeleteQueue"}, "OK")
    /\ Exists(c)
    /\ present' = present \ {Name(c)}
    /\ policies' = [policies EXCEPT ![Name(c)] = None]

SetPolicy(c) ==
    /\ Effect(c, {"SetIamPolicy"}, "OK")
    /\ Exists(c)
    /\ \E p \in Policy : policies' = [policies EXCEPT ![Name(c)] = p]
    /\ UNCHANGED present

Find(c) ==
    /\ Effect(c, Lookups \union {"EnsureQueue", "UpdateQueue"}, "OK")
    /\ Exists(c)
    /\ UNCHANGED registry

NotFound(c) ==
    /\ Effect(c, Lookups \union {"DeleteQueue", "SetIamPolicy"}, "NotFound")
    /\ ~Exists(c)
    /\ UNCHANGED registry

List(c) ==
    /\ Effect(c, {"ListQueues"}, "OK")
    /\ UNCHANGED registry

Return(c) ==
    /\ answer[c] # None
    /\ request' = [request EXCEPT ![c] = None]
    /\ answer' = [answer EXCEPT ![c] = None]
    /\ UNCHANGED registry

Next ==
    \E c \in Caller :
        \/ \E r \in Requests : Call(c, r)
        \/ Create(c) \/ CreateRefused(c) \/ Delete(c) \/ SetPolicy(c)
        \/ Find(c) \/ NotFound(c) \/ List(c)
        \/ Return(c)

Spec == Init /\ [][Next]_<<present, policies, request, answer>>
=============================================================================
