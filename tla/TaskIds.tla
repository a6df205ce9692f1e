------------------------------ MODULE TaskIds ------------------------------
(***************************************************************************)
(* Names for tasks that come without one.  CreateTask calls nextTaskID     *)
(* after it has looked the queue up and before it takes the queue's lock,  *)
(* so concurrent calls meet in idSeq with no lock between them: the        *)
(* increment is a load and a store, and the id is the clock plus what      *)
(* idSeq holds when it is loaded once more.                                *)
(***************************************************************************)
EXTENDS Naturals

CONSTANTS
    Caller,     \* concurrent CreateTask calls on one queue
    MaxClock    \* bound: the nanoseconds the calls may take

VARIABLES
    now,        \* time.Now().UnixNano()
    idSeq,      \* qs.idSeq
    names,      \* the names taken, by tasks or by tombstones
    pc,         \* where each call is
    loaded,     \* what it has in its register: idSeq, then the clock
    id          \* the id it has made

vars == <<now, idSeq, names, pc, loaded, id>>

Init ==
    /\ now = 1
    /\ idSeq = 0
    /\ names = {}
    /\ pc = [c \in Caller |-> "load"]
    /\ loaded = [c \in Caller |-> 0]
    /\ id = [c \in Caller |-> 0]

Step(c, from, to) == pc[c] = from /\ pc' = [pc EXCEPT ![c] = to]

(* qs.idSeq++: the load *)
LoadSeq(c) ==
    /\ Step(c, "load", "store")
    /\ loaded' = [loaded EXCEPT ![c] = idSeq]
    /\ UNCHANGED <<now, idSeq, names, id>>

(* qs.idSeq++: the store *)
StoreSeq(c) ==
    /\ Step(c, "store", "clock")
    /\ idSeq' = loaded[c] + 1
    /\ UNCHANGED <<now, names, loaded, id>>

(* time.Now() *)
ReadClock(c) ==
    /\ Step(c, "clock", "sum")
    /\ loaded' = [loaded EXCEPT ![c] = now]
    /\ UNCHANGED <<now, idSeq, names, id>>

(* The sum that becomes the id. *)
MakeID(c) ==
    /\ Step(c, "sum", "add")
    /\ id' = [id EXCEPT ![c] = loaded[c] + idSeq]
    /\ UNCHANGED <<now, idSeq, names, loaded>>

(* The rest of CreateTask, under the queue's lock. *)
AddTask(c) ==
    /\ \/ /\ Step(c, "add", "created")
          /\ id[c] \notin names
          /\ names' = names \union {id[c]}
       \/ /\ Step(c, "add", "AlreadyExists")
          /\ id[c] \in names
          /\ UNCHANGED names
    /\ UNCHANGED <<now, idSeq, loaded, id>>

Tick ==
    /\ now < MaxClock
    /\ now' = now + 1
    /\ UNCHANGED <<idSeq, names, pc, loaded, id>>

Next ==
    \/ \E c \in Caller :
         LoadSeq(c) \/ StoreSeq(c) \/ ReadClock(c) \/ MakeID(c) \/ AddTask(c)
    \/ Tick

Spec == Init /\ [][Next]_vars

---------------------------------------------------------------------------
(***************************************************************************)
(* docs/testing.md: "Auto-named tasks never collide": no CreateTask        *)
(* without a name is told that its name is taken (engine.go:277).          *)
(***************************************************************************)
AutoNamesNeverCollide == \A c \in Caller : pc[c] # "AlreadyExists"
=============================================================================
